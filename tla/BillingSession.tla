--------------------------- MODULE BillingSession ---------------------------
(***************************************************************************)
(* The life of a billing session: service/billing_session.go with its      *)
(* funding sources (service/funding_source.go), the settlement helpers     *)
(* (service/billing.go, service/quota.go) and the places of the relay      *)
(* controller that open, settle and refund it (controller/relay.go).       *)
(*                                                                         *)
(* Several requests of one user run at once, on one API token.  They share *)
(* three things: the wallet (users.quota), the token's allowance           *)
(* (tokens.remain_quota) and a subscription row with two counters.         *)
(* Every database call of the code is one step, so requests interleave     *)
(* between any two of them, and each call that changes something may fail. *)
(*                                                                         *)
(* Wallet and allowance are changed by single SQL expressions.  The row is *)
(* not: a transaction reads it, changes its copy and saves every column    *)
(* (tx.Save).  The lock it asks for by Set("gorm:query_option", ...) is    *)
(* one gorm v2 does not know, so reading and saving are two steps, and a   *)
(* save replaces whatever the row has become in between.                   *)
(***************************************************************************)
EXTENDS Integers, FiniteSets, FundingOps

CONSTANTS
    Requests,      \* the requests in flight
    Preferences,   \* billing preferences a request may carry
    Kinds,         \* entry points a request may come through
    Estimates,     \* quota the price helper asks to pre-consume
    Costs,         \* what a request turns out to cost
    InitQuota,     \* users.quota at the start
    InitRemain,    \* tokens.remain_quota at the start
    AmountTotal,   \* user_subscriptions.amount_total (0: unlimited)
    TokensLimit,   \* user_subscriptions.tokens_limit (0: unlimited)
    TrustQuota,    \* common.GetTrustQuota() (0: no trust bypass)
    UnlimitedToken,\* tokens.unlimited_quota
    TokenLinked,   \* the token belongs to a tokens-type subscription
    Periods,       \* the subscription ends after so many reset periods
    Fee,           \* quota of a violation fee (0: deduction disabled)
    MaxAttempts,   \* attempts of refundWithRetry
    MaxFaults      \* bound: failing database calls in a behaviour

AllPreferences ==
    {"subscription_first", "wallet_first", "subscription_only", "wallet_only"}
AllKinds == {"text", "audio", "playground", "task"}

ASSUME SessionConstants ==
    /\ Preferences \subseteq AllPreferences
    /\ Kinds \subseteq AllKinds
    /\ Estimates \subseteq Nat
    /\ Costs \subseteq Nat
    /\ InitQuota \in Nat /\ InitRemain \in Nat
    /\ AmountTotal \in Nat /\ TokensLimit \in Nat
    /\ TrustQuota \in Nat /\ Fee \in Nat
    /\ UnlimitedToken \in BOOLEAN /\ TokenLinked \in BOOLEAN
    /\ Periods \in Nat \ {0}
    /\ MaxAttempts \in Nat \ {0} /\ MaxFaults \in Nat

VARIABLES
    pc,          \* where the goroutine of each request is
    s,           \* its BillingSession, funding source and relay info
    feePc,       \* its violation fee: charged beside the refund goroutine
    feeCopy,     \* the row as the transaction of the fee read it
    quota,       \* users.quota
    remain,      \* tokens.remain_quota
    row,         \* the user_subscriptions row
    now,         \* the clock, in reset periods of the plan
    resetPc,     \* where the background reset task is
    resetCopy,   \* the row as the reset task read it and reset it
    taken,       \* history: what the calls of each session asked for, net
    intact,      \* history: every save replaced the very row it had read
    faults,      \* history: failing database calls so far
    faulty       \* history: the requests that met one

money  == <<quota, remain, row, taken, intact>>
task   == <<now, resetPc, resetCopy>>
others == <<feePc, feeCopy, task>>
vars   == <<pc, s, feePc, feeCopy, money, task, faults, faulty>>

Fundings == {"none", "wallet", "sub", "tokens"}
Terminal == {"settled", "unsettled", "failed", "rejected"}
PCs == {"idle", "choose", "wallet", "sub", "preTokens", "savePreTokens",
        "preToken", "decToken", "preFunding", "savePre", "rollback", "relay",
        "settle", "saveSettle", "settleToken", "refund", "saveRefund",
        "refundRecord", "refundToken"} \cup Terminal

Row ==
    [amount : Nat,           \* amount_used
     tokens : Nat,           \* tokens_used
     active : BOOLEAN,       \* status is active (and end_time the original one)
     period : Nat]           \* the period amount_used counts (next_reset_time)

\* No transaction under way.
NoRow == [amount |-> 0, tokens |-> 0, active |-> FALSE, period |-> 0]

Session ==
    [pref : AllPreferences, kind : AllKinds, est : Nat,
     tokenSeen : Int,        \* token_quota in the request context
     funding : Fundings,
     pre : Nat,              \* preConsumedQuota
     consumed : Nat,         \* pre-consumption of the funding source
     tokenConsumed : Nat,
     cost : Nat,             \* actual cost
     record : {"none", "consumed", "refunded"},  \* pre-consume record
     attempt : Nat,          \* failed attempts of refundWithRetry
     copy : Row,             \* the row as the transaction under way read it
     reason : {"none", "short"}]  \* preConsume failed for want of quota

NewSession ==
    [pref |-> "wallet_only", kind |-> "text", est |-> 0, tokenSeen |-> 0,
     funding |-> "none", pre |-> 0, consumed |-> 0, tokenConsumed |-> 0,
     cost |-> 0, record |-> "none",
     attempt |-> 0, copy |-> NoRow, reason |-> "none"]

NothingTaken == [wallet |-> 0, token |-> 0, sub |-> 0, tokens |-> 0]
Ledger == [wallet : Int, token : Int, sub : Int, tokens : Int]

Init ==
    /\ pc = [r \in Requests |-> "idle"]
    /\ s = [r \in Requests |-> NewSession]
    /\ feePc = [r \in Requests |-> "none"]
    /\ feeCopy = [r \in Requests |-> NoRow]
    /\ quota = InitQuota
    /\ remain = InitRemain
    /\ \E active \in BOOLEAN : row = [NoRow EXCEPT !.active = active]
    /\ now = 0 /\ resetPc = "idle" /\ resetCopy = NoRow
    /\ taken = [r \in Requests |-> NothingTaken]
    /\ intact = TRUE
    /\ faults = 0
    /\ faulty = {}

-----------------------------------------------------------------------------
(* The balances.  "taken" books the amount each call asked for.            *)

NoMoney == UNCHANGED money

TakeQuota(r, n) ==
    /\ quota' = quota - n
    /\ taken' = [taken EXCEPT ![r].wallet = @ + n]
    /\ UNCHANGED <<remain, row, intact>>

TakeToken(r, n) ==
    /\ remain' = remain - n
    /\ taken' = [taken EXCEPT ![r].token = @ + n]
    /\ UNCHANGED <<quota, row, intact>>

\* tx.Save(&sub) of a row that was read as "read" and changed to "changed".
SaveRow(read, changed) ==
    /\ row' = changed
    /\ intact' = (intact /\ row = read)

\* The change of amount_used: clamped at 0 (its ceiling was checked when the
\* row was read).
AddAmountUsed(r, read, delta) ==
    /\ SaveRow(read, [read EXCEPT !.amount = ClampedUsed(@, delta)])
    /\ taken' = [taken EXCEPT ![r].sub = @ + delta]
    /\ UNCHANGED <<quota, remain>>

AddTokensUsed(r, read, delta) ==
    /\ SaveRow(read, [read EXCEPT !.tokens = ClampedUsed(@, delta)])
    /\ taken' = [taken EXCEPT ![r].tokens = @ + delta]
    /\ UNCHANGED <<quota, remain>>

\* The condition every query puts on the row: status active, end not reached.
Active == row.active /\ now < Periods

\* maybeResetUserSubscriptionWithPlanTx on a copy of the row.
ResetDue(x) == x.period < now /\ now < Periods
MaybeReset(x) == IF ResetDue(x) THEN [x EXCEPT !.amount = 0, !.period = now] ELSE x

Goto(r, label) == pc' = [pc EXCEPT ![r] = label]

\* A database call of r returns an error.  The error says nothing about the
\* statement: it may have been applied before the connection was lost.
DBError(r, effect) ==
    /\ faults < MaxFaults
    /\ faults' = faults + 1
    /\ faulty' = faulty \cup {r}
    /\ NoMoney \/ effect

NoError == UNCHANGED <<faults, faulty>>

Playground(r) == s[r].kind = "playground"
\* The playground's token is made up for the request: it has no row, hence no
\* subscription and no allowance.
Linked(r) == TokenLinked /\ ~Playground(r)
Unlimited(r) == UnlimitedToken /\ ~Playground(r)

-----------------------------------------------------------------------------
(* Opening the session: PreConsumeBilling -> NewBillingSession.            *)

\* A request arrives.  The auth middleware has put the token's allowance into
\* the context; RelayTask turns away a user whose wallet is empty.
Arrive(r, pref, kind, est) ==
    /\ pc[r] = "idle"
    /\ s' = [s EXCEPT ![r] = [NewSession EXCEPT
                !.pref = pref, !.kind = kind, !.est = est,
                !.tokenSeen = IF kind = "playground" THEN 0 ELSE remain]]
    /\ Goto(r, IF kind = "task" /\ quota <= 0 THEN "rejected" ELSE "choose")
    /\ NoMoney /\ NoError /\ UNCHANGED others

\* NewBillingSession's switch; subscription_first asks whether the user has an
\* active subscription.
Choose(r) ==
    /\ pc[r] = "choose"
    /\ Goto(r, IF \/ s[r].pref = "subscription_only"
                  \/ s[r].pref = "subscription_first" /\ Active
               THEN "sub" ELSE "wallet")
    /\ NoMoney /\ NoError /\ UNCHANGED <<s, others>>

\* What NewBillingSession does when the source it tried reports insufficient
\* quota: wallet_first and subscription_first turn to the other source.
AfterShort(r, tried) ==
    CASE tried = "wallet" /\ s[r].pref = "wallet_first"       -> "sub"
      [] tried = "sub"    /\ s[r].pref = "subscription_first" -> "wallet"
      [] OTHER                                                -> "rejected"

\* shouldTrust, for the wallet (a subscription is never trusted).
ShouldTrust(r) ==
    /\ s[r].kind # "task"
    /\ TrustQuota > 0
    /\ Unlimited(r) \/ s[r].tokenSeen > TrustQuota
    /\ quota > TrustQuota

\* tryWallet up to the trust check of preConsume.
TryWallet(r) ==
    /\ pc[r] = "wallet"
    /\ IF quota <= 0 \/ quota - s[r].est < 0
       THEN /\ Goto(r, AfterShort(r, "wallet"))
            /\ UNCHANGED s
       ELSE LET effective == IF ShouldTrust(r) THEN 0 ELSE s[r].est
            IN  /\ s' = [s EXCEPT ![r].funding = "wallet", ![r].pre = effective]
                /\ Goto(r, IF effective > 0 THEN "preToken" ELSE "preFunding")
    /\ NoMoney /\ NoError /\ UNCHANGED others

\* trySubscription: a token of a tokens-type subscription is billed in tokens.
TrySubscription(r) ==
    /\ pc[r] = "sub"
    /\ IF Linked(r)
       THEN /\ s' = [s EXCEPT ![r].funding = "tokens"]
            /\ Goto(r, "preTokens")
       ELSE /\ s' = [s EXCEPT ![r].funding = "sub", ![r].pre = SubConsume(s[r].est)]
            /\ Goto(r, "preToken")
    /\ NoMoney /\ NoError /\ UNCHANGED others

\* The transaction of PreConsumeUserSubscriptionTokens: it reads the row and
\* decides ...
PreConsumeTokens(r) ==
    /\ pc[r] = "preTokens"
    /\ \/ /\ Active /\ CanPreConsume(TokensLimit, row.tokens, SubConsume(s[r].est))
          /\ s' = [s EXCEPT ![r].copy = row]
          /\ Goto(r, "savePreTokens")
       \/ /\ Active /\ ~CanPreConsume(TokensLimit, row.tokens, SubConsume(s[r].est))
          /\ Goto(r, AfterShort(r, "sub"))
          /\ UNCHANGED s
       \* "no active subscription" is not among the errors that fall back
       \/ /\ ~Active
          /\ Goto(r, "rejected")
          /\ UNCHANGED s
    /\ NoMoney /\ NoError /\ UNCHANGED others

\* ... and saves.
SavePreTokens(r) ==
    /\ pc[r] = "savePreTokens"
    /\ s' = [s EXCEPT ![r].consumed = SubConsume(s[r].est), ![r].pre = 0,
                      ![r].record = "consumed", ![r].copy = NoRow]
    /\ AddTokensUsed(r, s[r].copy, SubConsume(s[r].est))
    /\ Goto(r, "relay")
    /\ NoError /\ UNCHANGED others

PreConsumeTokensError(r) ==
    /\ pc[r] \in {"preTokens", "savePreTokens"}
    /\ s' = [s EXCEPT ![r].copy = NoRow]
    /\ Goto(r, "rejected")
    /\ DBError(r, /\ pc[r] = "savePreTokens"
                   /\ AddTokensUsed(r, s[r].copy, SubConsume(s[r].est)))
    /\ UNCHANGED others

\* PreConsumeTokenQuota reads the token and compares ...
CheckToken(r) ==
    /\ pc[r] = "preToken"
    /\ \/ /\ Playground(r)
          /\ s' = [s EXCEPT ![r].tokenConsumed = s[r].pre]
          /\ Goto(r, "preFunding")
       \/ /\ ~Playground(r) /\ (Unlimited(r) \/ remain >= s[r].pre)
          /\ Goto(r, "decToken") /\ UNCHANGED s
       \/ /\ ~Playground(r) /\ ~Unlimited(r) /\ remain < s[r].pre
          /\ Goto(r, "rejected") /\ UNCHANGED s
    /\ NoMoney /\ NoError /\ UNCHANGED others

\* ... and decreases the allowance in another call.
DecreaseToken(r) ==
    /\ pc[r] = "decToken"
    /\ s' = [s EXCEPT ![r].tokenConsumed = s[r].pre]
    /\ TakeToken(r, s[r].pre)
    /\ Goto(r, "preFunding")
    /\ NoError /\ UNCHANGED others

DecreaseTokenError(r) ==
    /\ pc[r] = "decToken"
    /\ Goto(r, "rejected")
    /\ DBError(r, TakeToken(r, s[r].pre)) /\ UNCHANGED <<s, others>>

\* funding.PreConsume of WalletFunding and of SubscriptionFunding.
PreConsumeWallet(r) ==
    /\ pc[r] = "preFunding" /\ s[r].funding = "wallet"
    /\ s' = [s EXCEPT ![r].consumed = s[r].pre]
    /\ TakeQuota(r, s[r].pre)
    /\ Goto(r, "relay")
    /\ NoError /\ UNCHANGED others

\* The transaction of PreConsumeUserSubscription: it resets a copy that is due
\* and decides; a refusal undoes the reset.
PreConsumeSubscription(r) ==
    /\ pc[r] = "preFunding" /\ s[r].funding = "sub"
    /\ \/ /\ Active /\ CanPreConsume(AmountTotal, MaybeReset(row).amount, s[r].pre)
          /\ s' = [s EXCEPT ![r].copy = MaybeReset(row)]
          /\ Goto(r, "savePre")
       \/ /\ ~(Active /\ CanPreConsume(AmountTotal, MaybeReset(row).amount, s[r].pre))
          /\ s' = [s EXCEPT ![r].reason = "short"]
          /\ Goto(r, "rollback")
    /\ NoMoney /\ NoError /\ UNCHANGED others

SavePre(r) ==
    /\ pc[r] = "savePre"
    /\ s' = [s EXCEPT ![r].consumed = s[r].pre, ![r].record = "consumed",
                      ![r].copy = NoRow]
    /\ AddAmountUsed(r, s[r].copy, s[r].pre)
    /\ Goto(r, "relay")
    /\ NoError /\ UNCHANGED others

PreConsumeWalletError(r) ==
    /\ pc[r] = "preFunding" /\ s[r].funding = "wallet" /\ s[r].pre > 0
    /\ Goto(r, "rollback")
    /\ DBError(r, TakeQuota(r, s[r].pre))
    /\ UNCHANGED <<s, others>>

\* A failing query for the row is reported as "no active subscription", like a
\* shortage; any other error is not.
PreConsumeSubscriptionError(r) ==
    /\ \/ /\ pc[r] = "preFunding" /\ s[r].funding = "sub"
          /\ \E reason \in {"none", "short"} : s' = [s EXCEPT ![r].reason = reason]
       \/ /\ pc[r] = "savePre"
          /\ s' = [s EXCEPT ![r].copy = NoRow]
    /\ Goto(r, "rollback")
    /\ DBError(r, pc[r] = "savePre" /\ AddAmountUsed(r, s[r].copy, s[r].pre))
    /\ UNCHANGED others

\* Mutant of AfterRollback: falls back on any error, not on a shortage alone.
AfterRollbackAnyError(r) == AfterShort(r, s[r].funding)

\* preConsume's failure branch: give the token allowance back, then report.
AfterRollback(r) == IF s[r].reason = "short" THEN AfterShort(r, "sub") ELSE "rejected"

\* Mutant of Rollback: forgets the allowance it should give back.
RollbackKeepsToken(r) ==
    /\ pc[r] = "rollback"
    /\ s' = [s EXCEPT ![r].tokenConsumed = 0, ![r].reason = "none"]
    /\ Goto(r, AfterRollback(r))
    /\ NoMoney /\ NoError /\ UNCHANGED others

Rollback(r) ==
    /\ pc[r] = "rollback"
    /\ s' = [s EXCEPT ![r].tokenConsumed = 0, ![r].reason = "none"]
    /\ IF Playground(r) THEN NoMoney ELSE TakeToken(r, -s[r].tokenConsumed)
    /\ Goto(r, AfterRollback(r))
    /\ NoError /\ UNCHANGED others

RollbackError(r) ==
    /\ pc[r] = "rollback" /\ s[r].tokenConsumed > 0 /\ ~Playground(r)
    /\ s' = [s EXCEPT ![r].tokenConsumed = 0, ![r].reason = "none"]
    /\ Goto(r, AfterRollback(r))
    /\ DBError(r, TakeToken(r, -s[r].tokenConsumed)) /\ UNCHANGED others

-----------------------------------------------------------------------------
(* The upstream answers.                                                   *)

\* The last attempt succeeded: the handler settles (PostTextConsumeQuota,
\* PostAudioConsumeQuota, RelayTask).
RelaySucceeds(r, cost) ==
    /\ pc[r] = "relay"
    /\ s' = [s EXCEPT ![r].cost = cost]
    /\ Goto(r, "settle")
    /\ NoMoney /\ NoError /\ UNCHANGED others

\* Mutant of NeedsRefund: only a subscription is thought worth a refund.
NeedsRefundSubscriptionOnly(r) == s[r].funding = "sub" /\ s[r].consumed > 0

\* needsRefundLocked of a session that was neither settled nor refunded.
NeedsRefund(r) ==
    \/ s[r].tokenConsumed > 0
    \/ s[r].funding = "sub" /\ s[r].consumed > 0

\* The request failed for good: the deferred function calls Refund, which
\* marks the session and leaves the work to a goroutine, and then charges the
\* violation fee (chat relays only) while that goroutine is running.
RelayFails(r, violation) ==
    /\ pc[r] = "relay"
    /\ violation => s[r].kind # "task" /\ Fee > 0
    /\ Goto(r, IF NeedsRefund(r) THEN "refund" ELSE "failed")
    /\ feePc' = [feePc EXCEPT ![r] = IF violation THEN "funding" ELSE "none"]
    /\ NoMoney /\ NoError /\ UNCHANGED <<s, feeCopy, task>>

-----------------------------------------------------------------------------
(* Settlement: SettleBilling, SettleBillingWithTokens, Settle.             *)

\* Text relays settle in tokens when both the price and the session say so;
\* the audio and task paths always call Settle.
SettlesTokens(r) ==
    s[r].funding = "tokens" /\ s[r].kind \in {"text", "playground"}

\* Mutant of TokensDelta: preConsumedQuota is 0 in a session billed in tokens.
TokensDeltaFromQuota(r) == s[r].cost - s[r].pre

TokensDelta(r) == s[r].cost - s[r].consumed

\* PostConsumeUserSubscriptionTokensDelta reads the row, and refuses at the
\* limit.
SettleTokens(r) ==
    /\ pc[r] = "settle" /\ SettlesTokens(r)
    /\ \/ /\ TokensDelta(r) = 0
          /\ Goto(r, "settled") /\ UNCHANGED s
       \/ /\ TokensDelta(r) # 0 /\ CanPostConsume(TokensLimit, row.tokens, TokensDelta(r))
          /\ s' = [s EXCEPT ![r].copy = row] /\ Goto(r, "saveSettle")
       \/ /\ TokensDelta(r) # 0 /\ ~CanPostConsume(TokensLimit, row.tokens, TokensDelta(r))
          /\ Goto(r, "unsettled") /\ UNCHANGED s
    /\ NoMoney /\ NoError /\ UNCHANGED others

\* Mutant of Delta: the estimate, which a trusted request did not pay.
DeltaFromEstimate(r) == s[r].cost - s[r].est

Delta(r) == s[r].cost - s[r].pre

\* funding.Settle(delta) of the three funding sources; a delta of 0 is settled
\* without a call.  The tokens source ignores a quota settlement.
SettleFunding(r) ==
    /\ pc[r] = "settle" /\ ~SettlesTokens(r)
    /\ \/ /\ Delta(r) = 0
          /\ Goto(r, "settled") /\ NoMoney /\ UNCHANGED s
       \/ /\ Delta(r) # 0 /\ s[r].funding = "wallet"
          /\ Goto(r, "settleToken") /\ TakeQuota(r, Delta(r)) /\ UNCHANGED s
       \/ /\ Delta(r) # 0 /\ s[r].funding = "sub"
          /\ CanPostConsume(AmountTotal, row.amount, Delta(r))
          /\ s' = [s EXCEPT ![r].copy = row] /\ Goto(r, "saveSettle") /\ NoMoney
       \/ /\ Delta(r) # 0 /\ s[r].funding = "sub"
          /\ ~CanPostConsume(AmountTotal, row.amount, Delta(r))
          /\ Goto(r, "unsettled") /\ NoMoney /\ UNCHANGED s
       \/ /\ Delta(r) # 0 /\ s[r].funding = "tokens"
          /\ Goto(r, "settleToken") /\ NoMoney /\ UNCHANGED s
    /\ NoError /\ UNCHANGED others

SaveSettled(r) ==
    IF s[r].funding = "sub" THEN AddAmountUsed(r, s[r].copy, Delta(r))
                            ELSE AddTokensUsed(r, s[r].copy, TokensDelta(r))

SaveSettle(r) ==
    /\ pc[r] = "saveSettle"
    /\ s' = [s EXCEPT ![r].copy = NoRow]
    /\ SaveSettled(r)
    /\ Goto(r, IF s[r].funding = "sub" THEN "settleToken" ELSE "settled")
    /\ NoError /\ UNCHANGED others

\* Either settlement fails: the error is logged, the pre-consumption stays.
SettleError(r) ==
    /\ \/ /\ pc[r] = "settle" /\ s[r].funding = "wallet" /\ Delta(r) # 0
          /\ DBError(r, TakeQuota(r, Delta(r)))
       \/ /\ pc[r] = "saveSettle"
          /\ DBError(r, SaveSettled(r))
    /\ s' = [s EXCEPT ![r].copy = NoRow]
    /\ Goto(r, "unsettled")
    /\ UNCHANGED others

SettleToken(r) ==
    /\ pc[r] = "settleToken"
    /\ IF Playground(r) THEN NoMoney ELSE TakeToken(r, Delta(r))
    /\ Goto(r, "settled")
    /\ NoError /\ UNCHANGED <<s, others>>

SettleTokenError(r) ==
    /\ pc[r] = "settleToken" /\ ~Playground(r)
    /\ Goto(r, "settled")
    /\ DBError(r, TakeToken(r, Delta(r))) /\ UNCHANGED <<s, others>>

-----------------------------------------------------------------------------
(* The refund goroutine.                                                   *)

RefundWallet(r) ==
    /\ pc[r] = "refund" /\ s[r].funding = "wallet"
    /\ TakeQuota(r, -s[r].consumed)
    /\ Goto(r, "refundToken")
    /\ NoError /\ UNCHANGED <<s, others>>

\* Mutant of RefundWalletError: the increase is tried again.
RefundWalletErrorRetries(r) ==
    /\ pc[r] = "refund" /\ s[r].funding = "wallet"
    /\ Goto(r, "refund")
    /\ DBError(r, TakeQuota(r, -s[r].consumed)) /\ UNCHANGED <<s, others>>

\* IncreaseUserQuota is not idempotent, so a failed call is not repeated.
RefundWalletError(r) ==
    /\ pc[r] = "refund" /\ s[r].funding = "wallet"
    /\ Goto(r, "refundToken")
    /\ DBError(r, TakeQuota(r, -s[r].consumed)) /\ UNCHANGED <<s, others>>

\* An attempt of RefundSubscriptionPreConsume has two commits: the counter is
\* decreased in a transaction that PostConsumeUserSubscriptionDelta opens ...
RefundSubscription(r) ==
    /\ pc[r] = "refund" /\ s[r].funding = "sub"
    /\ \/ /\ s[r].record = "refunded"
          /\ Goto(r, "refundToken") /\ UNCHANGED s
       \/ /\ s[r].record # "refunded"
          /\ s' = [s EXCEPT ![r].copy = row] /\ Goto(r, "saveRefund")
    /\ NoMoney /\ NoError /\ UNCHANGED others

SaveRefund(r) ==
    /\ pc[r] = "saveRefund"
    /\ s' = [s EXCEPT ![r].copy = NoRow]
    /\ AddAmountUsed(r, s[r].copy, -s[r].consumed)
    /\ Goto(r, "refundRecord")
    /\ NoError /\ UNCHANGED others

\* ... and the record is marked by the transaction around it.
RefundRecord(r) ==
    /\ pc[r] = "refundRecord"
    /\ s' = [s EXCEPT ![r].record = "refunded"]
    /\ Goto(r, "refundToken")
    /\ NoMoney /\ NoError /\ UNCHANGED others

\* A commit fails: refundWithRetry tries again, up to MaxAttempts times.
AfterAttempt(r) ==
    IF s[r].attempt + 1 < MaxAttempts THEN "refund" ELSE "refundToken"

RefundSubscriptionError(r) ==
    /\ \/ pc[r] = "refund" /\ s[r].funding = "sub"
       \/ pc[r] = "saveRefund"
    /\ s' = [s EXCEPT ![r].attempt = @ + 1, ![r].copy = NoRow]
    /\ Goto(r, AfterAttempt(r))
    /\ DBError(r, pc[r] = "saveRefund" /\ AddAmountUsed(r, s[r].copy, -s[r].consumed))
    /\ UNCHANGED others

RefundRecordError(r) ==
    /\ pc[r] = "refundRecord"
    /\ \E status \in {s[r].record, "refunded"} :
          s' = [s EXCEPT ![r].attempt = @ + 1, ![r].record = status]
    /\ Goto(r, AfterAttempt(r))
    /\ DBError(r, FALSE) /\ UNCHANGED others

\* A tokens session reaches the goroutine only with tokenConsumed > 0.
RefundTokenQuota(r) ==
    /\ pc[r] = "refundToken"
    /\ IF Playground(r) THEN NoMoney ELSE TakeToken(r, -s[r].tokenConsumed)
    /\ Goto(r, "failed")
    /\ NoError /\ UNCHANGED <<s, others>>

RefundTokenError(r) ==
    /\ pc[r] = "refundToken" /\ s[r].tokenConsumed > 0 /\ ~Playground(r)
    /\ Goto(r, "failed")
    /\ DBError(r, TakeToken(r, -s[r].tokenConsumed)) /\ UNCHANGED <<s, others>>

-----------------------------------------------------------------------------
(* Charges beside the session: PostConsumeQuota.                           *)

PostConsumeToken(r, n) ==
    IF Playground(r) THEN NoMoney ELSE TakeToken(r, n)

FeeGoto(r, label) == feePc' = [feePc EXCEPT ![r] = label]

\* ChargeViolationFeeIfNeeded, on the request's goroutine: the funding half of
\* PostConsumeQuota(Fee).  BillingSource is "subscription" for both kinds of
\* subscription; a refused charge ends PostConsumeQuota.
ChargeFee(r) ==
    /\ feePc[r] = "funding"
    /\ \/ /\ s[r].funding = "wallet"
          /\ FeeGoto(r, "token") /\ TakeQuota(r, Fee) /\ UNCHANGED feeCopy
       \/ /\ s[r].funding # "wallet" /\ CanPostConsume(AmountTotal, row.amount, Fee)
          /\ FeeGoto(r, "save") /\ feeCopy' = [feeCopy EXCEPT ![r] = row] /\ NoMoney
       \/ /\ s[r].funding # "wallet" /\ ~CanPostConsume(AmountTotal, row.amount, Fee)
          /\ FeeGoto(r, "refused") /\ NoMoney /\ UNCHANGED feeCopy
    /\ NoError /\ UNCHANGED <<pc, s, task>>

SaveFee(r) ==
    /\ feePc[r] = "save"
    /\ FeeGoto(r, "token")
    /\ feeCopy' = [feeCopy EXCEPT ![r] = NoRow]
    /\ AddAmountUsed(r, feeCopy[r], Fee)
    /\ NoError /\ UNCHANGED <<pc, s, task>>

ChargeFeeToken(r) ==
    /\ feePc[r] = "token"
    /\ FeeGoto(r, "paid")
    /\ PostConsumeToken(r, Fee)
    /\ NoError /\ UNCHANGED <<pc, s, feeCopy, task>>

ChargeFeeError(r) ==
    /\ \/ /\ feePc[r] = "funding" /\ s[r].funding = "wallet"
          /\ FeeGoto(r, "refused")
          /\ DBError(r, TakeQuota(r, Fee))
       \/ /\ feePc[r] = "save"
          /\ FeeGoto(r, "refused")
          /\ DBError(r, AddAmountUsed(r, feeCopy[r], Fee))
       \/ /\ feePc[r] = "token" /\ ~Playground(r)
          /\ FeeGoto(r, "paid")
          /\ DBError(r, PostConsumeToken(r, Fee))
    /\ feeCopy' = [feeCopy EXCEPT ![r] = NoRow]
    /\ UNCHANGED <<pc, s, task>>

-----------------------------------------------------------------------------
(* The subscription beside the requests.                                   *)

\* Time passes: a new reset period, or the end of the subscription.
Tick ==
    /\ now < Periods
    /\ now' = now + 1
    /\ NoMoney /\ NoError /\ UNCHANGED <<pc, s, feePc, feeCopy, resetPc, resetCopy>>

\* AdminInvalidateUserSubscription writes status and end_time alone.
AdminInvalidate ==
    /\ row.active
    /\ row' = [row EXCEPT !.active = FALSE]
    /\ NoError
    /\ UNCHANGED <<pc, s, feePc, feeCopy, quota, remain, taken, intact, task>>

\* ResetDueSubscriptions: the task lists the row as due, reads it again in a
\* transaction and resets its copy ...
ResetDueSubscriptions ==
    /\ resetPc = "idle"
    /\ row.active /\ ResetDue(row)
    /\ resetPc' = "save"
    /\ resetCopy' = MaybeReset(row)
    /\ NoMoney /\ NoError /\ UNCHANGED <<pc, s, feePc, feeCopy, now>>

\* ... and saves it.
SaveReset ==
    /\ resetPc = "save"
    /\ SaveRow(resetCopy, resetCopy)
    /\ resetPc' = "idle" /\ resetCopy' = NoRow
    /\ NoError
    /\ UNCHANGED <<pc, s, feePc, feeCopy, quota, remain, taken, now>>

-----------------------------------------------------------------------------

Open(r) ==
    \/ Choose(r) \/ TryWallet(r) \/ TrySubscription(r)
    \/ PreConsumeTokens(r) \/ SavePreTokens(r)
    \/ CheckToken(r) \/ DecreaseToken(r)
    \/ PreConsumeWallet(r) \/ PreConsumeSubscription(r) \/ SavePre(r) \/ Rollback(r)

Upstream(r) ==
    \/ \E cost \in Costs : RelaySucceeds(r, cost)
    \/ \E violation \in BOOLEAN : RelayFails(r, violation)

Close(r) ==
    \/ SettleTokens(r) \/ SettleFunding(r) \/ SaveSettle(r) \/ SettleToken(r)
    \/ RefundWallet(r) \/ RefundSubscription(r) \/ SaveRefund(r)
    \/ RefundRecord(r) \/ RefundTokenQuota(r)

ChargeFees(r) == ChargeFee(r) \/ SaveFee(r) \/ ChargeFeeToken(r)

Errors(r) ==
    \/ PreConsumeTokensError(r) \/ DecreaseTokenError(r)
    \/ PreConsumeWalletError(r) \/ PreConsumeSubscriptionError(r) \/ RollbackError(r)
    \/ SettleError(r) \/ SettleTokenError(r)
    \/ RefundWalletError(r) \/ RefundSubscriptionError(r)
    \/ RefundRecordError(r) \/ RefundTokenError(r)
    \/ ChargeFeeError(r)

Ended(r) == pc[r] \in Terminal /\ feePc[r] \in {"none", "refused", "paid"}
AllDone == \A r \in Requests : Ended(r)

\* Nothing is left to do; keeps TLC from calling the end a deadlock.
Finished == AllDone /\ UNCHANGED vars

Step(r) ==
    \/ \E pref \in Preferences, kind \in Kinds, est \in Estimates :
          Arrive(r, pref, kind, est)
    \/ Open(r) \/ Upstream(r) \/ Close(r) \/ ChargeFees(r) \/ Errors(r)

Lifecycle == Tick \/ AdminInvalidate \/ ResetDueSubscriptions \/ SaveReset

Next ==
    \/ \E r \in Requests : Step(r)
    \/ Lifecycle
    \/ Finished

Spec == Init /\ [][Next]_vars

-----------------------------------------------------------------------------
(* Properties.                                                             *)

\* Every variable has its type; in particular the clamp keeps the counters of
\* the row natural numbers however often a refund is repeated.
TypeOK ==
    /\ pc \in [Requests -> PCs]
    /\ s \in [Requests -> Session]
    /\ feePc \in [Requests -> {"none", "funding", "save", "token", "paid", "refused"}]
    /\ feeCopy \in [Requests -> Row]
    /\ quota \in Int /\ remain \in Int /\ row \in Row
    /\ now \in Nat /\ resetPc \in {"idle", "save"} /\ resetCopy \in Row
    /\ taken \in [Requests -> Ledger]
    /\ intact \in BOOLEAN
    /\ faults \in Nat
    /\ faulty \subseteq Requests

\* The violation fee charged so far to the funding source and to the token.
FeeTaken(r) == IF feePc[r] \in {"token", "paid"} THEN Fee ELSE 0
FeeTokenTaken(r) == IF feePc[r] = "paid" /\ ~Playground(r) THEN Fee ELSE 0

\* Settle and Refund on the wallet: whatever was pre-consumed, trusted or
\* fallen back from, and whichever of its calls failed, a request that counts as
\* settled has paid its actual cost, once.  One that failed or was turned away,
\* and met no failing call, has paid its violation fee at most, although the
\* fee is charged while the refund goroutine runs.
WalletExact ==
    \A r \in Requests : s[r].funding = "wallet" =>
        /\ pc[r] = "settled" => taken[r].wallet = s[r].cost
        /\ pc[r] \in {"failed", "rejected"} /\ r \notin faulty =>
              taken[r].wallet = FeeTaken(r)

\* The same for the token's allowance, under either funding source: pre-consume,
\* rollback, fallback, settlement and refund leave the token charged with the
\* cost or with the fee alone.  A session billed in tokens leaves it alone.
TokenExact ==
    \A r \in Requests : r \notin faulty =>
        /\ pc[r] = "settled" /\ s[r].funding \in {"wallet", "sub"} =>
              taken[r].token = IF Playground(r) THEN 0 ELSE s[r].cost
        /\ pc[r] = "settled" /\ SettlesTokens(r) => taken[r].token = 0
        /\ pc[r] \in {"failed", "rejected"} => taken[r].token = FeeTokenTaken(r)

\* What the transactions of one session ask of its subscription, whatever
\* becomes of the row: a settled session has asked for its cost, even if a call
\* of it failed; a failed one, that met no failing call, for its fee alone.
\* A tokens-type subscription is not refunded: a failed session, and an audio or
\* task session whose settlement is in quota, keep what they had pre-consumed.
SubscriptionExact ==
    \A r \in Requests :
        /\ pc[r] = "settled" /\ s[r].funding = "sub" => taken[r].sub = s[r].cost
        /\ pc[r] = "settled" /\ s[r].funding = "tokens" =>
              taken[r].tokens = IF SettlesTokens(r) THEN s[r].cost ELSE s[r].consumed
        /\ pc[r] \in {"failed", "rejected"} /\ r \notin faulty =>
              /\ s[r].funding = "sub" => taken[r].sub = FeeTaken(r)
              /\ s[r].funding = "tokens" => taken[r].tokens = s[r].consumed

\* What request r has cost the wallet in the end: its cost once settled, and
\* its fee.
QuotaPaid(r) ==
    (IF s[r].funding # "wallet" \/ pc[r] \in {"failed", "rejected"} THEN 0 ELSE s[r].cost)
    + (IF s[r].funding = "wallet" THEN FeeTaken(r) ELSE 0)

\* What it has cost the two counters of the subscription.  A refused settlement
\* leaves the hold.
AmountPaid(r) ==
    (IF s[r].funding # "sub" \/ pc[r] \in {"failed", "rejected"} THEN 0
     ELSE IF pc[r] = "unsettled" THEN s[r].consumed ELSE s[r].cost)
    + (IF s[r].funding # "wallet" THEN FeeTaken(r) ELSE 0)

TokensPaid(r) ==
    CASE s[r].funding # "tokens"                  -> 0
      [] SettlesTokens(r) /\ pc[r] = "settled"    -> s[r].cost
      [] OTHER                                    -> s[r].consumed

\* The single units of quota that f books: f[r] of them for every request r.
Units(f) == UNION {{r} \X (1 .. f[r]) : r \in Requests}

\* The wallet itself, without the history variable: once every session has ended
\* and no call failed, users.quota has lost exactly what the requests funded by
\* it have cost, trusted, refunded and fallen-back ones included.
BooksBalance ==
    AllDone /\ faults = 0 =>
        InitQuota - quota = Cardinality(Units([r \in Requests |-> QuotaPaid(r)]))

\* The counters of the subscription row have counted exactly what the requests
\* have cost it: the clamp at 0 and the refusal at the ceiling never eat into
\* another request's hold.
RowCounts ==
    /\ row.amount = Cardinality(Units([r \in Requests |-> AmountPaid(r)]))
    /\ row.tokens = Cardinality(Units([r \in Requests |-> TokensPaid(r)]))

\* Once every session has ended and no call failed, the counters are right,
\* provided that no save replaced a row other than the one it had read: an
\* overwritten update and a reset for a new period are the only causes of a
\* counter that is not what was billed.
CountersBalance == AllDone /\ faults = 0 /\ intact => RowCounts

\* What subscription.go says of PostConsumeUserSubscriptionDelta: the used amount
\* is updated by delta.  In a plan that is never reset the counters are then
\* what the requests have cost.
UpdatedByDelta == AllDone /\ faults = 0 => RowCounts

\* What subscription.go says of AdminInvalidateUserSubscription: it ends the
\* subscription immediately, so a cancelled one is not active again.
CancelledStays == [][~row.active => ~row'.active]_vars

\* A source that was tried and given up keeps nothing: the fallback of
\* NewBillingSession never charges a request to two sources.
NoResidue ==
    \A r \in Requests :
        /\ s[r].funding = "wallet" => taken[r].sub = 0 /\ taken[r].tokens = 0
        /\ s[r].funding = "sub" => taken[r].wallet = 0 /\ taken[r].tokens = 0
        /\ s[r].funding = "tokens" => taken[r].wallet = 0

\* Whichever database calls fail, applied or not, a session never gives the
\* wallet or the token back more than it took.
NeverOverRefunded ==
    \A r \in Requests : taken[r].wallet >= 0 /\ taken[r].token >= 0

\* Concurrent pre-consumptions, settlements, refunds, fees and resets never push
\* a subscription past its ceiling, although a save may rest on a row that has
\* changed since it was checked.
WithinTotal ==
    /\ AmountTotal > 0 => row.amount <= AmountTotal
    /\ TokensLimit > 0 => row.tokens <= TokensLimit

\* The promise of a session to its funding source (module QuotaHold): it ends
\* once, with the cost, with nothing or with the hold it had.
SourcePhase(r) ==
    CASE pc[r] \in {"settleToken", "settled"}                -> "charged"
      [] pc[r] \in {"refundToken", "failed", "rejected"}     -> "released"
      [] pc[r] = "unsettled"                                -> "kept"
      [] OTHER                                               -> "open"
SourceHeld(r) ==
    taken[r].wallet + taken[r].sub + taken[r].tokens - FeeTaken(r)

Source == INSTANCE QuotaHold WITH
    phase <- [r \in Requests |-> SourcePhase(r)],
    held  <- [r \in Requests |-> SourceHeld(r)]

\* NewBillingSession ... Settle / Refund implement QuotaHold.
ImplementsHold == Source!HoldSpec

\* What billing_session.go says of Refund, for tokens-type subscriptions: all
\* pre-consumption is returned.
RefundReturnsTokens ==
    \A r \in Requests :
        pc[r] = "failed" /\ r \notin faulty => taken[r].tokens = 0

\* What subscription.go says of RefundSubscriptionPreConsume: repeating it is
\* harmless, so a subscription is never given more than the request took.
SubscriptionRefundIdempotent ==
    \A r \in Requests : taken[r].sub >= 0

=============================================================================
