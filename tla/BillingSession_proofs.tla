----------------------- MODULE BillingSession_proofs ------------------------
(***************************************************************************)
(* Theorems about BillingSession, for any number of requests, any balances *)
(* and any number of failing database calls.  The inductive invariant says *)
(* what a session has taken from the wallet, from the token and from the   *)
(* subscription at every point of its life; SessionInv(r) is its share for *)
(* one request.  None of it speaks of the row: what a session asks of its  *)
(* subscription is exact whether or not its saves survive.                 *)
(***************************************************************************)
EXTENDS BillingSession, TLAPS

\* The stages of a session.
Opening   == {"idle", "choose", "wallet", "sub", "preTokens", "savePreTokens",
              "preToken", "decToken"}
Before    == Opening \cup {"preFunding", "savePre"}
Settling  == {"relay", "settle", "saveSettle"}
Returning == {"refund", "saveRefund", "refundRecord", "refundToken"}
Holding   == Settling \cup (Returning \ {"refundToken"})
TokenHeld == Settling \cup Returning \cup {"preFunding", "savePre", "rollback", "settleToken"}
Refunding == Returning \cup {"failed"}

\* No source has been charged before PreConsume of the funding source; after a
\* shortage neither, so that falling back leaves nothing behind.
Untouched(r) ==
    taken[r].wallet = 0 /\ taken[r].sub = 0 /\ taken[r].tokens = 0

\* Which source a stage belongs to.
SourceOf(r) ==
    /\ pc[r] \in {"preTokens", "savePreTokens"} => s[r].funding = "tokens"
    /\ pc[r] \in {"preToken", "decToken", "preFunding", "rollback"} =>
          s[r].funding \in {"wallet", "sub"}
    /\ pc[r] \in {"savePre", "saveRefund", "refundRecord"} => s[r].funding = "sub"
    /\ pc[r] = "saveSettle" => s[r].funding = "sub" \/ SettlesTokens(r)
    /\ pc[r] = "settleToken" => ~SettlesTokens(r)
    /\ pc[r] \in Returning => s[r].funding # "tokens"
    /\ s[r].funding = "none" => pc[r] \in Opening \cup {"rejected"} /\ Untouched(r)
    /\ feePc[r] = "save" => s[r].funding # "wallet"

\* What the fields of the session say at each stage.
Stages(r) ==
    /\ pc[r] \in Before => Untouched(r)
    /\ pc[r] = "rollback" /\ s[r].reason = "short" => s[r].funding = "sub" /\ Untouched(r)
    /\ pc[r] # "rollback" => s[r].reason = "none"
    /\ pc[r] = "idle" => taken[r].token = 0
    /\ pc[r] \in Opening => s[r].tokenConsumed = 0
    /\ pc[r] \in TokenHeld => s[r].tokenConsumed = s[r].pre
    /\ pc[r] \in Before \cup {"rollback", "rejected"} => s[r].consumed = 0
    /\ pc[r] \in Holding /\ s[r].funding \in {"wallet", "sub"} => s[r].consumed = s[r].pre
    /\ pc[r] = "decToken" => ~Playground(r)
    /\ s[r].funding = "tokens" /\ pc[r] \in TokenHeld => s[r].pre = 0
    /\ feePc[r] # "none" => pc[r] \in Refunding

\* What the session holds at least, whatever failed.
HeldAtLeast(r) ==
    /\ taken[r].wallet >= 0 /\ taken[r].token >= 0
    /\ pc[r] \in Holding /\ s[r].funding = "wallet" =>
          taken[r].wallet >= s[r].consumed
    /\ pc[r] \in TokenHeld /\ ~Playground(r) => taken[r].token >= s[r].tokenConsumed
    /\ Playground(r) => taken[r].token = 0

\* What it has taken from its source while it is held and once it is settled,
\* even if one of its calls failed.
Charged(r) ==
    /\ s[r].funding = "wallet" =>
          /\ pc[r] \in Settling => taken[r].wallet = s[r].consumed
          /\ pc[r] \in {"settleToken", "settled"} => taken[r].wallet = s[r].cost
    /\ s[r].funding = "sub" =>
          /\ pc[r] \in Settling => taken[r].sub = s[r].consumed /\ s[r].record = "consumed"
          /\ pc[r] \in {"settleToken", "settled"} => taken[r].sub = s[r].cost
    /\ s[r].funding = "tokens" =>
          /\ pc[r] \in Settling \cup {"settleToken"} => taken[r].tokens = s[r].consumed
          /\ pc[r] = "settled" => taken[r].tokens =
                IF SettlesTokens(r) THEN s[r].cost ELSE s[r].consumed

NoResidueOf(r) ==
    /\ s[r].funding = "wallet" => taken[r].sub = 0 /\ taken[r].tokens = 0
    /\ s[r].funding = "sub" => taken[r].wallet = 0 /\ taken[r].tokens = 0
    /\ s[r].funding = "tokens" => taken[r].wallet = 0

\* What it holds exactly, when none of its calls failed.
WalletLedger(r) ==
    s[r].funding = "wallet" =>
        /\ pc[r] = "refund" => taken[r].wallet = s[r].consumed + FeeTaken(r)
        /\ pc[r] \in {"refundToken", "failed"} => taken[r].wallet = FeeTaken(r)
        /\ pc[r] = "rejected" => taken[r].wallet = 0
        /\ pc[r] \notin {"rollback", "unsettled"}

SubLedger(r) ==
    s[r].funding = "sub" =>
        /\ pc[r] \in {"refund", "saveRefund"} =>
              taken[r].sub = s[r].consumed + FeeTaken(r) /\ s[r].record = "consumed"
        /\ pc[r] \in {"refundRecord", "refundToken", "failed"} => taken[r].sub = FeeTaken(r)
        /\ pc[r] \in {"rollback", "rejected"} => taken[r].sub = 0
        /\ pc[r] = "rollback" => s[r].reason = "short"
        /\ pc[r] = "unsettled" => taken[r].sub = s[r].consumed /\ s[r].consumed = s[r].pre

\* A tokens session pays its fee from the quota counter, the rest in tokens.
TokensLedger(r) ==
    s[r].funding = "tokens" =>
        /\ taken[r].sub = FeeTaken(r)
        /\ pc[r] \in {"failed", "unsettled", "rejected"} => taken[r].tokens = s[r].consumed

TokenLedger(r) ==
    ~Playground(r) =>
        /\ pc[r] \in Opening \cup {"rejected"} => taken[r].token = 0
        /\ pc[r] \in TokenHeld \ Returning => taken[r].token = s[r].tokenConsumed
        /\ pc[r] \in Returning => taken[r].token = s[r].tokenConsumed + FeeTokenTaken(r)
        /\ pc[r] = "failed" => taken[r].token = FeeTokenTaken(r)
        /\ pc[r] = "settled" /\ s[r].funding \in {"wallet", "sub"}
              => taken[r].token = s[r].cost
        /\ pc[r] = "settled" /\ SettlesTokens(r) => taken[r].token = 0

Exact(r) == WalletLedger(r) /\ SubLedger(r) /\ TokensLedger(r) /\ TokenLedger(r)

SessionInv(r) ==
    /\ SourceOf(r)
    /\ Stages(r)
    /\ HeldAtLeast(r)
    /\ Charged(r)
    /\ NoResidueOf(r)
    /\ r \notin faulty => Exact(r)

IInv ==
    /\ TypeOK
    /\ faults = 0 => faulty = {}
    /\ \A r \in Requests : SessionInv(r)

-----------------------------------------------------------------------------
(* Types.                                                                  *)

MoneyType ==
    /\ quota \in Int /\ remain \in Int /\ row \in Row
    /\ taken \in [Requests -> Ledger]
    /\ intact \in BOOLEAN

ControlType ==
    /\ pc \in [Requests -> PCs]
    /\ s \in [Requests -> Session]
    /\ feePc \in [Requests -> {"none", "funding", "save", "token", "paid", "refused"}]
    /\ feeCopy \in [Requests -> Row]

\* Nothing but the acting request's own state and the money changes.
TaskType ==
    /\ now \in Nat /\ resetPc \in {"idle", "save"} /\ resetCopy \in Row
    /\ faults \in Nat
    /\ faulty \subseteq Requests

\* The clamp of PostConsumeUserSubscriptionDelta keeps a counter natural.
LEMMA ClampType == \A u \in Nat, d \in Int : ClampedUsed(u, d) \in Nat
  BY DEF ClampedUsed

\* The rows a transaction may save.
LEMMA RowType ==
  ASSUME NEW x \in Row, NEW n \in Int, now \in Nat
  PROVE  /\ NoRow \in Row
         /\ [x EXCEPT !.amount = ClampedUsed(@, n)] \in Row
         /\ [x EXCEPT !.tokens = ClampedUsed(@, n)] \in Row
         /\ [x EXCEPT !.active = FALSE] \in Row
         /\ MaybeReset(x) \in Row
<1>1. NoRow \in Row
  BY DEF NoRow, Row
<1>2. x.amount \in Nat /\ x.tokens \in Nat /\ x.active \in BOOLEAN /\ x.period \in Nat
  BY DEF Row
<1>3. ClampedUsed(x.amount, n) \in Nat /\ ClampedUsed(x.tokens, n) \in Nat
  BY <1>2, ClampType
<1>4. \A m \in Nat : [x EXCEPT !.amount = m] \in Row /\ [x EXCEPT !.tokens = m] \in Row
  BY DEF Row
<1>5. [x EXCEPT !.active = FALSE] \in Row
  BY DEF Row
<1>6. [x EXCEPT !.amount = 0, !.period = now] \in Row
  BY DEF Row
<1> QED
  BY <1>1, <1>3, <1>4, <1>5, <1>6 DEF MaybeReset

\* The amounts the actions move.
LEMMA Amounts ==
  ASSUME ControlType, NEW r \in Requests
  PROVE  /\ s[r] \in Session /\ s[r].copy \in Row /\ feeCopy[r] \in Row
         /\ s[r].est \in Nat /\ s[r].pre \in Nat /\ s[r].consumed \in Nat
         /\ s[r].tokenConsumed \in Nat /\ s[r].cost \in Nat
         /\ SubConsume(s[r].est) \in Nat
         /\ Delta(r) \in Int /\ TokensDelta(r) \in Int
         /\ -s[r].consumed \in Int /\ -s[r].tokenConsumed \in Int
         /\ Fee \in Nat
<1>1. s[r] \in Session /\ feeCopy[r] \in Row
  BY DEF ControlType
<1> QED
  BY <1>1, SessionConstants DEF Session, SubConsume, Delta, TokensDelta

\* The money helpers keep the balances typed.
LEMMA MoneyMoves ==
  ASSUME MoneyType, now \in Nat, NEW r \in Requests, NEW n \in Int, NEW x \in Row
  PROVE  /\ NoMoney => MoneyType'
         /\ TakeQuota(r, n) => MoneyType'
         /\ TakeToken(r, n) => MoneyType'
         /\ AddAmountUsed(r, x, n) => MoneyType'
         /\ AddTokensUsed(r, x, n) => MoneyType'
<1>0. NoMoney => MoneyType'
  BY DEF MoneyType, NoMoney, money
<1>1. TakeQuota(r, n) => MoneyType'
  BY DEF MoneyType, TakeQuota, Ledger
<1>2. TakeToken(r, n) => MoneyType'
  BY DEF MoneyType, TakeToken, Ledger
<1>3. AddAmountUsed(r, x, n) => MoneyType'
  <2> SUFFICES ASSUME AddAmountUsed(r, x, n) PROVE MoneyType'
    OBVIOUS
  <2>1. row' \in Row /\ intact' \in BOOLEAN
    BY RowType DEF AddAmountUsed, SaveRow, MoneyType
  <2>2. taken' \in [Requests -> Ledger]
    BY DEF AddAmountUsed, MoneyType, Ledger
  <2> QED BY <2>1, <2>2 DEF AddAmountUsed, MoneyType
<1>4. AddTokensUsed(r, x, n) => MoneyType'
  <2> SUFFICES ASSUME AddTokensUsed(r, x, n) PROVE MoneyType'
    OBVIOUS
  <2>1. row' \in Row /\ intact' \in BOOLEAN
    BY RowType DEF AddTokensUsed, SaveRow, MoneyType
  <2>2. taken' \in [Requests -> Ledger]
    BY DEF AddTokensUsed, MoneyType, Ledger
  <2> QED BY <2>1, <2>2 DEF AddTokensUsed, MoneyType
<1> QED
  BY <1>0, <1>1, <1>2, <1>3, <1>4

\* The ways in which a step of r moves money.
Moves(r) ==
    \/ NoMoney
    \/ \E n \in Int : TakeQuota(r, n) \/ TakeToken(r, n)
    \/ \E n \in Int, x \in Row : AddAmountUsed(r, x, n) \/ AddTokensUsed(r, x, n)

\* A step moves at most one balance, through one of the money helpers.
LEMMA StepMoves ==
  ASSUME ControlType, NEW r \in Requests, Step(r)
  PROVE  Moves(r)
<1> USE Amounts
<1>0. /\ NoMoney => Moves(r)
      /\ \A n \in Int : TakeQuota(r, n) \/ TakeToken(r, n) => Moves(r)
      /\ \A n \in Int, x \in Row : AddAmountUsed(r, x, n) => Moves(r)
      /\ \A n \in Int, x \in Row : AddTokensUsed(r, x, n) => Moves(r)
  BY DEF Moves
<1>1. Upstream(r) => Moves(r)
  BY <1>0 DEF Upstream, RelaySucceeds, RelayFails
<1>2. ASSUME NEW pref, NEW kind, NEW est, Arrive(r, pref, kind, est) PROVE Moves(r)
  BY <1>0, <1>2 DEF Arrive
<1>3. Open(r) => Moves(r)
  BY <1>0 DEF Open, Choose, TryWallet, TrySubscription, PreConsumeTokens, SavePreTokens,
              CheckToken, DecreaseToken, PreConsumeWallet, PreConsumeSubscription,
              SavePre, Rollback
<1>4. Close(r) => Moves(r)
  BY <1>0 DEF Close, SettleTokens, SettleFunding, SaveSettle, SettleToken, RefundWallet,
              RefundSubscription, SaveRefund, RefundRecord, RefundTokenQuota, SaveSettled
<1>5. ChargeFees(r) => Moves(r)
  BY <1>0 DEF ChargeFees, ChargeFee, SaveFee, ChargeFeeToken, PostConsumeToken
<1>6. Errors(r) => Moves(r)
  BY <1>0
     DEF Errors, PreConsumeTokensError, DecreaseTokenError, PreConsumeWalletError,
         PreConsumeSubscriptionError, RollbackError, SettleError, SettleTokenError,
         RefundWalletError, RefundSubscriptionError, RefundRecordError, RefundTokenError,
         ChargeFeeError,
         SaveSettled, PostConsumeToken, DBError
<1> QED
  BY <1>1, <1>2, <1>3, <1>4, <1>5, <1>6 DEF Step

\* The sessions an action may leave behind.
LEMMA SessionType ==
  ASSUME NEW x \in Session, NEW c \in Row, NEW m \in Nat,
         NEW f \in Fundings, NEW reason \in {"none", "short"},
         NEW status \in {"none", "consumed", "refunded"}
  PROVE  /\ [x EXCEPT !.copy = c] \in Session
         /\ [x EXCEPT !.reason = reason] \in Session
         /\ [x EXCEPT !.funding = f] \in Session
         /\ [x EXCEPT !.funding = f, !.pre = m] \in Session
         /\ [x EXCEPT !.tokenConsumed = m] \in Session
         /\ [x EXCEPT !.consumed = m] \in Session
         /\ [x EXCEPT !.cost = m] \in Session
         /\ [x EXCEPT !.record = status] \in Session
         /\ [x EXCEPT !.consumed = m, !.pre = 0, !.record = "consumed", !.copy = c] \in Session
         /\ [x EXCEPT !.consumed = m, !.record = "consumed", !.copy = c] \in Session
         /\ [x EXCEPT !.tokenConsumed = 0, !.reason = "none"] \in Session
         /\ [x EXCEPT !.attempt = @ + 1, !.copy = c] \in Session
         /\ [x EXCEPT !.attempt = @ + 1, !.record = status] \in Session
<1>1. x.attempt + 1 \in Nat
  BY DEF Session
<1>2. ASSUME NEW k \in Nat
      PROVE  /\ [x EXCEPT !.attempt = k, !.copy = c] \in Session
             /\ [x EXCEPT !.attempt = k, !.record = status] \in Session
  BY DEF Session
<1>3. /\ [x EXCEPT !.copy = c] \in Session
      /\ [x EXCEPT !.reason = reason] \in Session
      /\ [x EXCEPT !.funding = f] \in Session
      /\ [x EXCEPT !.tokenConsumed = m] \in Session
      /\ [x EXCEPT !.consumed = m] \in Session
      /\ [x EXCEPT !.cost = m] \in Session
      /\ [x EXCEPT !.record = status] \in Session
  BY DEF Session
<1>4. /\ [x EXCEPT !.funding = f, !.pre = m] \in Session
      /\ [x EXCEPT !.tokenConsumed = 0, !.reason = "none"] \in Session
  BY DEF Session
<1>5. /\ [x EXCEPT !.consumed = m, !.pre = 0, !.record = "consumed", !.copy = c] \in Session
      /\ [x EXCEPT !.consumed = m, !.record = "consumed", !.copy = c] \in Session
  BY DEF Session
<1> QED
  BY <1>1, <1>2, <1>3, <1>4, <1>5

\* Every step of r leaves r at a label, with a session.
LEMMA ControlMoves ==
  ASSUME ControlType, MoneyType, now \in Nat, NEW r \in Requests, Step(r)
  PROVE  ControlType'
<1> DEFINE Fees == {"none", "funding", "save", "token", "paid", "refused"}
<1>1. /\ s[r] \in Session /\ s[r].copy \in Row /\ NoRow \in Row /\ row \in Row
      /\ MaybeReset(row) \in Row
      /\ s[r].pre \in Nat /\ s[r].est \in Nat /\ s[r].record \in {"none", "consumed", "refunded"}
      /\ SubConsume(s[r].est) \in Nat
      /\ {"wallet", "sub", "tokens"} \subseteq Fundings
  <2>1. 0 \in Int /\ row \in Row BY DEF MoneyType
  <2>2. NoRow \in Row /\ MaybeReset(row) \in Row BY <2>1, RowType
  <2> QED BY <2>1, <2>2, Amounts DEF Session, Fundings
<1>2. pc' \in [Requests -> PCs]
  <2> USE DEF ControlType, Goto, PCs, Terminal
  <2>1. ASSUME NEW pref, NEW kind, NEW est, Arrive(r, pref, kind, est)
        PROVE  pc' \in [Requests -> PCs]
    BY <2>1 DEF Arrive
  <2>2. CASE Open(r)
    BY <2>2 DEF Open, Choose, TryWallet, TrySubscription, PreConsumeTokens, SavePreTokens,
                CheckToken, DecreaseToken, PreConsumeWallet, PreConsumeSubscription,
                SavePre, Rollback, AfterShort, AfterRollback
  <2>3. CASE Upstream(r)
    BY <2>3 DEF Upstream, RelaySucceeds, RelayFails
  <2>4. CASE Close(r)
    BY <2>4 DEF Close, SettleTokens, SettleFunding, SaveSettle, SettleToken, RefundWallet,
                RefundSubscription, SaveRefund, RefundRecord, RefundTokenQuota
  <2>5. CASE ChargeFees(r)
    BY <2>5 DEF ChargeFees, ChargeFee, SaveFee, ChargeFeeToken
  <2>6. CASE Errors(r)
    BY <2>6 DEF Errors, PreConsumeTokensError, DecreaseTokenError, PreConsumeWalletError,
                PreConsumeSubscriptionError, RollbackError, SettleError, SettleTokenError,
                RefundWalletError, RefundSubscriptionError, RefundRecordError,
                RefundTokenError, ChargeFeeError, AfterShort, AfterRollback, AfterAttempt
  <2> QED BY <2>1, <2>2, <2>3, <2>4, <2>5, <2>6 DEF Step
<1>3. s' \in [Requests -> Session]
  <2>0. s' = s => s' \in [Requests -> Session]
    BY <1>1 DEF ControlType
  <2>1. ASSUME NEW pref \in Preferences, NEW kind \in Kinds, NEW est \in Estimates,
               Arrive(r, pref, kind, est)
        PROVE  s' \in [Requests -> Session]
    <3> DEFINE allowance == IF kind = "playground" THEN 0 ELSE remain
               y == [NewSession EXCEPT !.pref = pref, !.kind = kind, !.est = est,
                                       !.tokenSeen = allowance]
    <3>1. pref \in AllPreferences /\ kind \in AllKinds /\ est \in Nat
      BY SessionConstants
    <3>2. allowance \in Int BY DEF MoneyType
    <3>3. NewSession \in Session
      BY <1>1 DEF Session, NewSession, AllPreferences, AllKinds, Fundings
    <3>4. \A seen \in Int : [NewSession EXCEPT !.pref = pref, !.kind = kind, !.est = est,
                               !.tokenSeen = seen] \in Session
      BY <3>1, <3>3 DEF Session
    <3>5. y \in Session
      BY <3>2, <3>4
    <3>6. s' = [s EXCEPT ![r] = y]
      BY <2>1 DEF Arrive
    <3> QED BY <3>5, <3>6 DEF ControlType, ControlType
  <2>2. CASE Choose(r) \/ PreConsumeTokens(r) \/ CheckToken(r)
    <3>1. /\ [s[r] EXCEPT !.copy = row] \in Session
          /\ [s[r] EXCEPT !.tokenConsumed = s[r].pre] \in Session
      BY <1>1, SessionType
    <3> QED
      BY <2>0, <2>2, <3>1 DEF ControlType, Choose, PreConsumeTokens, CheckToken
  <2>3. CASE TryWallet(r)
    <3>1. PICK n \in Nat : \/ UNCHANGED s
                           \/ s' = [s EXCEPT ![r].funding = "wallet", ![r].pre = n]
      BY <1>1, <2>3 DEF TryWallet
    <3>2. [s[r] EXCEPT !.funding = "wallet", !.pre = n] \in Session
      BY <1>1, SessionType
    <3> QED BY <2>0, <3>1, <3>2 DEF ControlType
  <2>4. CASE TrySubscription(r)
    <3>1. /\ [s[r] EXCEPT !.funding = "tokens"] \in Session
          /\ [s[r] EXCEPT !.funding = "sub", !.pre = SubConsume(s[r].est)] \in Session
      BY <1>1, SessionType
    <3> QED BY <2>4, <3>1 DEF ControlType, TrySubscription
  <2>5. CASE SavePreTokens(r) \/ SavePre(r)
    <3>1. /\ [s[r] EXCEPT !.consumed = SubConsume(s[r].est), !.pre = 0, !.record = "consumed",
                       !.copy = NoRow] \in Session
          /\ [s[r] EXCEPT !.consumed = s[r].pre, !.record = "consumed", !.copy = NoRow] \in Session
      BY <1>1, SessionType
    <3> QED BY <2>5, <3>1 DEF ControlType, SavePreTokens, SavePre
  <2>6. CASE DecreaseToken(r) \/ PreConsumeWallet(r) \/ PreConsumeSubscription(r)
    <3>1. /\ [s[r] EXCEPT !.tokenConsumed = s[r].pre] \in Session
          /\ [s[r] EXCEPT !.consumed = s[r].pre] \in Session
          /\ [s[r] EXCEPT !.copy = MaybeReset(row)] \in Session
          /\ [s[r] EXCEPT !.reason = "short"] \in Session
      BY <1>1, SessionType
    <3> QED
      BY <2>6, <3>1
         DEF ControlType, DecreaseToken, PreConsumeWallet, PreConsumeSubscription
  <2>7. CASE Rollback(r) \/ RollbackError(r)
    <3>1. [s[r] EXCEPT !.tokenConsumed = 0, !.reason = "none"] \in Session
      BY <1>1, SessionType
    <3> QED BY <2>7, <3>1 DEF ControlType, Rollback, RollbackError
  <2>8. CASE Upstream(r)
    <3>1. \A cost \in Costs : [s[r] EXCEPT !.cost = cost] \in Session
      BY <1>1, SessionConstants, SessionType
    <3> QED BY <2>0, <2>8, <3>1 DEF ControlType, Upstream, RelaySucceeds, RelayFails
  <2>9. CASE Close(r)
    <3>1. /\ [s[r] EXCEPT !.copy = row] \in Session
          /\ [s[r] EXCEPT !.copy = NoRow] \in Session
          /\ [s[r] EXCEPT !.record = "refunded"] \in Session
      BY <1>1, SessionType
    <3> QED BY <2>0, <2>9, <3>1 DEF ControlType, Close, SettleTokens, SettleFunding,
                                    SaveSettle, SettleToken, RefundWallet,
                                    RefundSubscription, SaveRefund, RefundRecord,
                                    RefundTokenQuota
  <2>10. CASE ChargeFees(r) \/ ChargeFeeError(r)
    BY <2>0, <2>10 DEF ChargeFees, ChargeFee, SaveFee, ChargeFeeToken, ChargeFeeError
  <2>11. CASE RefundSubscriptionError(r)
    <3>1. [s[r] EXCEPT !.attempt = @ + 1, !.copy = NoRow] \in Session
      BY <1>1, SessionType
    <3> QED BY <2>11, <3>1 DEF ControlType, RefundSubscriptionError
  <2>14. CASE RefundRecordError(r)
    <3>1. PICK status \in {s[r].record, "refunded"} :
             s' = [s EXCEPT ![r].attempt = @ + 1, ![r].record = status]
      BY <2>14 DEF RefundRecordError
    <3>2. status \in {"none", "consumed", "refunded"}
      BY <1>1
    <3>3. [s[r] EXCEPT !.attempt = @ + 1, !.record = status] \in Session
      BY <1>1, <3>2, SessionType
    <3> QED BY <3>1, <3>3 DEF ControlType
  <2>12. CASE PreConsumeTokensError(r) \/ PreConsumeSubscriptionError(r) \/ SettleError(r)
    <3>1. /\ [s[r] EXCEPT !.copy = NoRow] \in Session
          /\ \A reason \in {"none", "short"} : [s[r] EXCEPT !.reason = reason] \in Session
      BY <1>1, SessionType
    <3> QED
      BY <2>12, <3>1
         DEF ControlType, PreConsumeTokensError, PreConsumeSubscriptionError, SettleError
  <2>13. CASE \/ DecreaseTokenError(r) \/ PreConsumeWalletError(r) \/ SettleTokenError(r)
              \/ RefundWalletError(r) \/ RefundTokenError(r)
    BY <2>0, <2>13 DEF DecreaseTokenError, PreConsumeWalletError, SettleTokenError,
           RefundWalletError, RefundTokenError
  <2> QED
    BY <2>1, <2>2, <2>3, <2>4, <2>5, <2>6, <2>7, <2>8, <2>9, <2>10, <2>11, <2>12, <2>13,
       <2>14
       DEF Step, Open, Close, Errors
<1>4. feePc' \in [Requests -> Fees] /\ feeCopy' \in [Requests -> Row]
  <2>1. CASE ChargeFees(r) \/ ChargeFeeError(r)
    BY <1>1, <2>1 DEF ControlType, ChargeFees, ChargeFee, SaveFee, ChargeFeeToken,
                      ChargeFeeError, FeeGoto
  <2>2. CASE Upstream(r)
    BY <2>2 DEF ControlType, Upstream, RelaySucceeds, RelayFails, others
  <2>3. CASE Open(r) \/ Close(r)
    BY <2>3 DEF ControlType, Open, Close, Choose, TryWallet, TrySubscription,
                PreConsumeTokens, SavePreTokens, CheckToken, DecreaseToken,
                PreConsumeWallet, PreConsumeSubscription, SavePre, Rollback, SettleTokens,
                SettleFunding, SaveSettle, SettleToken, RefundWallet, RefundSubscription,
                SaveRefund, RefundRecord, RefundTokenQuota, others
  <2>4. CASE Errors(r) /\ ~ChargeFeeError(r)
    BY <2>4 DEF ControlType, Errors, PreConsumeTokensError, DecreaseTokenError,
                PreConsumeWalletError, PreConsumeSubscriptionError, RollbackError,
                SettleError, SettleTokenError, RefundWalletError, RefundSubscriptionError,
                RefundRecordError, RefundTokenError, ChargeFeeError, others
  <2>5. ASSUME NEW pref, NEW kind, NEW est, Arrive(r, pref, kind, est)
        PROVE  feePc' \in [Requests -> Fees] /\ feeCopy' \in [Requests -> Row]
    BY <2>5 DEF ControlType, Arrive, others
  <2> QED BY <2>1, <2>2, <2>3, <2>4, <2>5 DEF Step
<1> QED
  BY <1>2, <1>3, <1>4 DEF ControlType

\* A step of a request leaves the reset task alone, and counts a failing call.
LEMMA StepFaults ==
  ASSUME NEW r \in Requests, Step(r)
  PROVE  /\ UNCHANGED task
         /\ \/ UNCHANGED <<faults, faulty>> /\ ~Errors(r)
            \/ faults' = faults + 1 /\ faulty' = faulty \cup {r} /\ faults < MaxFaults
<1>1. Errors(r) => /\ UNCHANGED task /\ faults < MaxFaults
                   /\ faults' = faults + 1 /\ faulty' = faulty \cup {r}
  BY DEF Errors, PreConsumeTokensError, DecreaseTokenError, PreConsumeWalletError,
         PreConsumeSubscriptionError, RollbackError, SettleError, SettleTokenError,
         RefundWalletError, RefundSubscriptionError, RefundRecordError, RefundTokenError,
         ChargeFeeError, DBError, others
<1>2. Open(r) => UNCHANGED <<task, faults, faulty>>
  BY DEF Open, Choose, TryWallet, TrySubscription, PreConsumeTokens, SavePreTokens,
         CheckToken, DecreaseToken, PreConsumeWallet, PreConsumeSubscription, SavePre,
         Rollback, others, NoError
<1>3. Close(r) => UNCHANGED <<task, faults, faulty>>
  BY DEF Close, SettleTokens, SettleFunding, SaveSettle, SettleToken, RefundWallet,
         RefundSubscription, SaveRefund, RefundRecord, RefundTokenQuota, others, NoError
<1>4. Upstream(r) \/ ChargeFees(r) => UNCHANGED <<task, faults, faulty>>
  BY DEF Upstream, RelaySucceeds, RelayFails, ChargeFees, ChargeFee, SaveFee,
         ChargeFeeToken, others, NoError
<1>5. ASSUME NEW pref, NEW kind, NEW est, Arrive(r, pref, kind, est)
      PROVE  UNCHANGED <<task, faults, faulty>>
  BY <1>5 DEF Arrive, others, NoError
<1> QED
  BY <1>1, <1>2, <1>3, <1>4, <1>5 DEF Step

\* Every step of a request keeps TypeOK.
LEMMA StepType ==
  ASSUME TypeOK, NEW r \in Requests, Step(r)
  PROVE  TypeOK'
<1>1. MoneyType /\ ControlType /\ TaskType
  BY DEF TypeOK, MoneyType, ControlType, TaskType
<1>2. MoneyType'
  BY <1>1, StepMoves, MoneyMoves DEF Moves, TaskType
<1>3. ControlType'
  BY <1>1, ControlMoves DEF TaskType
<1>4. TaskType'
  BY <1>1, StepFaults DEF TaskType, task
<1> QED
  BY <1>2, <1>3, <1>4 DEF TypeOK, MoneyType, ControlType, TaskType

\* So do the steps of the subscription's own life, which touch the row, the
\* clock and the reset task.
LEMMA LifecycleType ==
  ASSUME TypeOK, Lifecycle
  PROVE  /\ TypeOK'
         /\ UNCHANGED <<pc, s, feePc, feeCopy, quota, remain, taken, faults, faulty>>
<1>1. row \in Row /\ now \in Nat /\ resetCopy \in Row
  BY DEF TypeOK
<1>2. [row EXCEPT !.active = FALSE] \in Row /\ MaybeReset(row) \in Row /\ NoRow \in Row
  <2>1. 0 \in Int OBVIOUS
  <2> QED BY <1>1, <2>1, RowType
<1>3. UNCHANGED <<pc, s, feePc, feeCopy, quota, remain, taken, faults, faulty>>
  BY DEF Lifecycle, Tick, AdminInvalidate, ResetDueSubscriptions, SaveReset, NoMoney,
         money, NoError
<1>4. /\ row' \in Row /\ intact' \in BOOLEAN /\ now' \in Nat
      /\ resetPc' \in {"idle", "save"} /\ resetCopy' \in Row
  <2>1. CASE Tick
    BY <2>1 DEF Tick, NoMoney, money, TypeOK
  <2>2. CASE AdminInvalidate
    BY <1>2, <2>2 DEF AdminInvalidate, task, TypeOK
  <2>3. CASE ResetDueSubscriptions
    BY <1>2, <2>3 DEF ResetDueSubscriptions, NoMoney, money, TypeOK
  <2>4. CASE SaveReset
    BY <1>1, <1>2, <2>4 DEF SaveReset, SaveRow, TypeOK
  <2> QED BY <2>1, <2>2, <2>3, <2>4 DEF Lifecycle
<1> QED
  BY <1>3, <1>4 DEF TypeOK

\* TypeOK holds initially.
LEMMA InitType == Init => TypeOK
<1> SUFFICES ASSUME Init PROVE TypeOK
  OBVIOUS
<1>1. NewSession \in Session /\ NoRow \in Row /\ row \in Row
  BY DEF Init, Session, NewSession, NoRow, Row, AllPreferences, AllKinds, Fundings
<1> QED
  BY <1>1, SessionConstants DEF Init, TypeOK, PCs, Ledger, NothingTaken

\* TypeOK holds in every reachable state of every billing session: in
\* particular the counters of a subscription never become negative, although
\* a refund may be applied more than once (the clamp in model/subscription.go).
THEOREM TypeCorrect == Spec => []TypeOK
<1>1. Init => TypeOK
  BY InitType
<1>2. TypeOK /\ [Next]_vars => TypeOK'
  <2> SUFFICES ASSUME TypeOK, [Next]_vars PROVE TypeOK'
    OBVIOUS
  <2>1. ASSUME NEW r \in Requests, Step(r) PROVE TypeOK'
    BY <2>1, StepType
  <2>2. CASE Lifecycle
    BY <2>2, LifecycleType
  <2>3. CASE UNCHANGED vars
    BY <2>3 DEF vars, money, task, TypeOK
  <2> QED
    BY <2>1, <2>2, <2>3 DEF Next, Finished
<1> QED
  BY <1>1, <1>2, PTL DEF Spec

-----------------------------------------------------------------------------
(* What a session holds.                                                   *)

\* What a step books in the line of r; the other lines stay.
Books(r, wallet, token, sub, tokens) ==
    /\ taken'[r].wallet = taken[r].wallet + wallet
    /\ taken'[r].token = taken[r].token + token
    /\ taken'[r].sub = taken[r].sub + sub
    /\ taken'[r].tokens = taken[r].tokens + tokens
    /\ \A q \in Requests \ {r} : taken'[q] = taken[q]
Still(r) == Books(r, 0, 0, 0, 0)

\* What the money helpers do to the line of the acting request and to the
\* lines of the others.
LEMMA MoneyEffects ==
  ASSUME MoneyType, NEW r \in Requests
  PROVE  /\ NoMoney => Still(r)
         /\ \A n \in Int : TakeQuota(r, n) => Books(r, n, 0, 0, 0)
         /\ \A n \in Int : TakeToken(r, n) => Books(r, 0, n, 0, 0)
         /\ \A n \in Int : \A x \in Row : AddAmountUsed(r, x, n) => Books(r, 0, 0, n, 0)
         /\ \A n \in Int : \A x \in Row : AddTokensUsed(r, x, n) => Books(r, 0, 0, 0, n)
<1> USE DEF MoneyType, Ledger, Books, Still
<1>1. NoMoney => Still(r)
  BY DEF NoMoney, money
<1>2. ASSUME NEW n \in Int
      PROVE  /\ TakeQuota(r, n) => Books(r, n, 0, 0, 0)
             /\ TakeToken(r, n) => Books(r, 0, n, 0, 0)
  BY DEF TakeQuota, TakeToken
<1>3. ASSUME NEW n \in Int, NEW x \in Row
      PROVE  /\ AddAmountUsed(r, x, n) => Books(r, 0, 0, n, 0)
             /\ AddTokensUsed(r, x, n) => Books(r, 0, 0, 0, n)
  BY DEF AddAmountUsed, AddTokensUsed
<1> QED
  BY <1>1, <1>2, <1>3

\* A step of r leaves the sessions of the other requests alone.
Frame(r) ==
    \A q \in Requests \ {r} :
        /\ pc'[q] = pc[q] /\ s'[q] = s[q] /\ feePc'[q] = feePc[q]
        /\ feeCopy'[q] = feeCopy[q]
        /\ taken'[q] = taken[q]
        /\ q \in faulty' <=> q \in faulty

\* A request that a step leaves alone keeps its invariant.
LEMMA FrameKeeps ==
  ASSUME NEW r \in Requests, NEW q \in Requests \ {r}, Frame(r), SessionInv(q)
  PROVE  SessionInv(q)'
<1> USE DEF Frame, SessionInv, Untouched, Playground, SettlesTokens, FeeTaken, FeeTokenTaken
<1>1. SourceOf(q)' BY DEF SourceOf
<1>2. Stages(q)' BY DEF Stages
<1>3. HeldAtLeast(q)' BY DEF HeldAtLeast
<1>4. Charged(q)' BY DEF Charged
<1>5. NoResidueOf(q)' BY DEF NoResidueOf
<1>6. q \notin faulty' => Exact(q)'
  BY DEF Exact, WalletLedger, SubLedger, TokensLedger, TokenLedger
<1> QED
  BY <1>1, <1>2, <1>3, <1>4, <1>5, <1>6

\* A step of one request leaves every other request alone.
LEMMA StepFrame ==
  ASSUME TypeOK, NEW r \in Requests, Step(r)
  PROVE  Frame(r)
<1>0. MoneyType /\ ControlType
  BY DEF TypeOK, MoneyType, ControlType
<1>1. \A q \in Requests \ {r} : taken'[q] = taken[q]
  BY <1>0, StepMoves, MoneyEffects DEF Moves, Books, Still
<1> DEFINE Apart(q) == /\ pc'[q] = pc[q] /\ s'[q] = s[q] /\ feePc'[q] = feePc[q]
                       /\ feeCopy'[q] = feeCopy[q]
<1>2. \A q \in Requests \ {r} : Apart(q)
  <2> USE <1>0 DEF ControlType, Goto, FeeGoto, others
  <2>1. CASE Open(r)
    BY <2>1 DEF Open, Choose, TryWallet, TrySubscription, PreConsumeTokens, SavePreTokens,
                CheckToken, DecreaseToken, PreConsumeWallet, PreConsumeSubscription,
                SavePre, Rollback
  <2>2. CASE Close(r)
    BY <2>2 DEF Close, SettleTokens, SettleFunding, SaveSettle, SettleToken, RefundWallet,
                RefundSubscription, SaveRefund, RefundRecord, RefundTokenQuota
  <2>3. CASE Errors(r)
    BY <2>3 DEF Errors, PreConsumeTokensError, DecreaseTokenError, PreConsumeWalletError,
                PreConsumeSubscriptionError, RollbackError, SettleError, SettleTokenError,
                RefundWalletError, RefundSubscriptionError, RefundRecordError,
                RefundTokenError, ChargeFeeError
  <2>4. CASE Upstream(r)
    BY <2>4 DEF Upstream, RelaySucceeds, RelayFails
  <2>5. CASE ChargeFees(r)
    BY <2>5 DEF ChargeFees, ChargeFee, SaveFee, ChargeFeeToken
  <2>6. ASSUME NEW pref, NEW kind, NEW est, Arrive(r, pref, kind, est)
        PROVE  \A q \in Requests \ {r} : Apart(q)
    BY <2>6 DEF Arrive
  <2> QED BY <2>1, <2>2, <2>3, <2>4, <2>5, <2>6 DEF Step
<1>3. \A q \in Requests \ {r} : q \in faulty' <=> q \in faulty
  BY StepFaults
<1> QED
  BY <1>1, <1>2, <1>3 DEF Frame

\* The numbers of one session.
LEMMA Numbers ==
  ASSUME TypeOK, NEW r \in Requests
  PROVE  /\ MoneyType /\ ControlType
         /\ s[r].pre \in Nat /\ s[r].consumed \in Nat /\ s[r].tokenConsumed \in Nat
         /\ s[r].cost \in Nat /\ Fee \in Nat
         /\ taken[r].wallet \in Int /\ taken[r].token \in Int
         /\ taken[r].sub \in Int /\ taken[r].tokens \in Int
<1>1. MoneyType /\ ControlType
  BY DEF TypeOK, MoneyType, ControlType
<1> QED
  BY <1>1, Amounts DEF MoneyType, Ledger

\* What a step does to the session, and what most steps leave alone.
Becomes(r, funding, pre, consumed, tokenConsumed, record, reason) ==
    /\ s'[r].kind = s[r].kind /\ s'[r].cost = s[r].cost
    /\ s'[r].funding = funding /\ s'[r].pre = pre
    /\ s'[r].consumed = consumed /\ s'[r].tokenConsumed = tokenConsumed
    /\ s'[r].record = record /\ s'[r].reason = reason
Kept(r) ==
    Becomes(r, s[r].funding, s[r].pre, s[r].consumed, s[r].tokenConsumed, s[r].record,
            s[r].reason)
Quiet(r) == feePc'[r] = feePc[r] /\ (r \in faulty' <=> r \in faulty)

\* SessionInv after a step, from what the step did to the line of r.  Each of
\* the following lemmas first reads the effects off the actions and then checks
\* the conjuncts of the invariant on them.
\* Opening: pre-consumption, rollback and fallback.
LEMMA OpenInv ==
  ASSUME TypeOK, NEW r \in Requests, SessionInv(r), Open(r)
  PROVE  SessionInv(r)'
<1>1. MoneyType /\ ControlType
  BY Numbers
<1>2. Quiet(r)
  BY DEF Quiet, Open, Choose, TryWallet, TrySubscription, PreConsumeTokens, SavePreTokens,
         CheckToken, DecreaseToken, PreConsumeWallet, PreConsumeSubscription, SavePre,
         Rollback, NoError, others
<1>3. ASSUME Choose(r)
      PROVE  /\ pc[r] = "choose"
             /\ pc'[r] \in {"sub", "wallet"}
             /\ Kept(r)
             /\ Still(r)
  BY <1>1, <1>3, MoneyEffects, Amounts DEF Choose, ControlType, Session, Becomes, Kept, Goto
<1>4. ASSUME TryWallet(r)
      PROVE  /\ pc[r] = "wallet"
             /\ Still(r)
             /\ \/ pc'[r] \in {"sub", "rejected"} /\ Kept(r)
                \/ \E n \in Nat : /\ Becomes(r, "wallet", n, s[r].consumed,
                                             s[r].tokenConsumed, s[r].record, s[r].reason)
                                  /\ pc'[r] = IF n > 0 THEN "preToken" ELSE "preFunding"
  BY <1>1, <1>4, MoneyEffects, Amounts
     DEF TryWallet, ControlType, Session, Becomes, Kept, Goto, AfterShort
<1>5. ASSUME TrySubscription(r)
      PROVE  /\ pc[r] = "sub"
             /\ Still(r)
             /\ \/ Becomes(r, "tokens", s[r].pre, s[r].consumed, s[r].tokenConsumed,
                           s[r].record, s[r].reason) /\ pc'[r] = "preTokens"
                \/ \E n \in Nat : Becomes(r, "sub", n, s[r].consumed, s[r].tokenConsumed,
                                          s[r].record, s[r].reason) /\ pc'[r] = "preToken"
  BY <1>1, <1>5, MoneyEffects, Amounts
     DEF TrySubscription, ControlType, Session, Becomes, Kept, Goto
<1>6. ASSUME PreConsumeTokens(r)
      PROVE  /\ pc[r] = "preTokens"
             /\ pc'[r] \in {"savePreTokens", "wallet", "rejected"}
             /\ Kept(r)
             /\ Still(r)
  BY <1>1, <1>6, MoneyEffects, Amounts
     DEF PreConsumeTokens, ControlType, Session, Becomes, Kept, Goto, AfterShort
<1>7. ASSUME SavePreTokens(r)
      PROVE  /\ pc[r] = "savePreTokens"
             /\ pc'[r] = "relay"
             /\ \E n \in Nat : Becomes(r, s[r].funding, 0, n, s[r].tokenConsumed,
                                       "consumed", s[r].reason) /\ Books(r, 0, 0, 0, n)
  BY <1>1, <1>7, MoneyEffects, Amounts
     DEF SavePreTokens, ControlType, Session, Becomes, Kept, Goto
<1>8. ASSUME CheckToken(r)
      PROVE  /\ pc[r] = "preToken"
             /\ Still(r)
             /\ \/ Playground(r) /\ Becomes(r, s[r].funding, s[r].pre, s[r].consumed,
                                            s[r].pre, s[r].record, s[r].reason) /\ pc'[r] = "preFunding"
                \/ ~Playground(r) /\ Kept(r) /\ pc'[r] \in {"decToken", "rejected"}
  BY <1>1, <1>8, MoneyEffects, Amounts
     DEF CheckToken, ControlType, Session, Becomes, Kept, Goto
<1>9. ASSUME DecreaseToken(r)
      PROVE  /\ pc[r] = "decToken"
             /\ pc'[r] = "preFunding"
             /\ Becomes(r, s[r].funding, s[r].pre, s[r].consumed, s[r].pre, s[r].record,
                        s[r].reason)
             /\ Books(r, 0, s[r].pre, 0, 0)
  BY <1>1, <1>9, MoneyEffects, Amounts
     DEF DecreaseToken, ControlType, Session, Becomes, Kept, Goto
<1>10. ASSUME PreConsumeWallet(r)
      PROVE  /\ pc[r] = "preFunding" /\ s[r].funding = "wallet"
             /\ pc'[r] = "relay"
             /\ Becomes(r, s[r].funding, s[r].pre, s[r].pre, s[r].tokenConsumed,
                        s[r].record, s[r].reason)
             /\ Books(r, s[r].pre, 0, 0, 0)
  BY <1>1, <1>10, MoneyEffects, Amounts
     DEF PreConsumeWallet, ControlType, Session, Becomes, Kept, Goto
<1>11. ASSUME PreConsumeSubscription(r)
      PROVE  /\ pc[r] = "preFunding" /\ s[r].funding = "sub"
             /\ Still(r)
             /\ \/ Kept(r) /\ pc'[r] = "savePre"
                \/ Becomes(r, s[r].funding, s[r].pre, s[r].consumed, s[r].tokenConsumed,
                           s[r].record, "short") /\ pc'[r] = "rollback"
  BY <1>1, <1>11, MoneyEffects, Amounts
     DEF PreConsumeSubscription, ControlType, Session, Becomes, Kept, Goto
<1>12. ASSUME SavePre(r)
      PROVE  /\ pc[r] = "savePre"
             /\ pc'[r] = "relay"
             /\ Becomes(r, s[r].funding, s[r].pre, s[r].pre, s[r].tokenConsumed,
                        "consumed", s[r].reason)
             /\ Books(r, 0, 0, s[r].pre, 0)
  BY <1>1, <1>12, MoneyEffects, Amounts
     DEF SavePre, ControlType, Session, Becomes, Kept, Goto
<1>13. ASSUME Rollback(r)
      PROVE  /\ pc[r] = "rollback"
             /\ Becomes(r, s[r].funding, s[r].pre, s[r].consumed, 0, s[r].record, "none")
             /\ IF Playground(r) THEN Still(r) ELSE Books(r, 0, -s[r].tokenConsumed, 0, 0)
             /\ pc'[r] = "rejected" \/ (s[r].reason = "short" /\ pc'[r] = "wallet")
  BY <1>1, <1>13, MoneyEffects, Amounts
     DEF Rollback, ControlType, Session, Becomes, Kept, Goto, AfterRollback, AfterShort
<1> USE <1>1, <1>2, Numbers, SessionConstants
    DEF SessionInv, Untouched, Playground, SettlesTokens, FeeTaken, FeeTokenTaken, Books,
        Still, Quiet, Becomes, Kept, Delta, TokensDelta, Opening, Before, Settling, Returning,
        Holding, TokenHeld, Refunding
<1>14. CASE Choose(r)
  <2>1. SourceOf(r)' BY <1>3, <1>14 DEF SourceOf, Stages
  <2>2. Stages(r)' BY <1>3, <1>14 DEF Stages, SourceOf
  <2>3. HeldAtLeast(r)' BY <1>3, <1>14 DEF HeldAtLeast, Stages, SourceOf
  <2>4. Charged(r)' BY <1>3, <1>14 DEF Charged, Stages, SourceOf
  <2>5. NoResidueOf(r)' BY <1>3, <1>14 DEF NoResidueOf, Stages, SourceOf
  <2>6. r \notin faulty => WalletLedger(r)'
    BY <1>3, <1>14 DEF WalletLedger, Exact, Stages, SourceOf, Charged
  <2>7. r \notin faulty => SubLedger(r)'
    BY <1>3, <1>14 DEF SubLedger, Exact, Stages, SourceOf, Charged
  <2>8. r \notin faulty => TokensLedger(r)'
    BY <1>3, <1>14 DEF TokensLedger, Exact, Stages, SourceOf, Charged
  <2>9. r \notin faulty => TokenLedger(r)'
    BY <1>3, <1>14 DEF TokenLedger, Exact, Stages, SourceOf
  <2> QED BY <2>1, <2>2, <2>3, <2>4, <2>5, <2>6, <2>7, <2>8, <2>9 DEF Exact
<1>15. CASE TryWallet(r)
  <2>1. SourceOf(r)' BY <1>4, <1>15 DEF SourceOf, Stages
  <2>2. Stages(r)' BY <1>4, <1>15 DEF Stages, SourceOf
  <2>3. HeldAtLeast(r)' BY <1>4, <1>15 DEF HeldAtLeast, Stages, SourceOf
  <2>4. Charged(r)' BY <1>4, <1>15 DEF Charged, Stages, SourceOf
  <2>5. NoResidueOf(r)' BY <1>4, <1>15 DEF NoResidueOf, Stages, SourceOf
  <2>6. r \notin faulty => WalletLedger(r)'
    BY <1>4, <1>15 DEF WalletLedger, Exact, Stages, SourceOf, Charged
  <2>7. r \notin faulty => SubLedger(r)'
    BY <1>4, <1>15 DEF SubLedger, Exact, Stages, SourceOf, Charged
  <2>8. r \notin faulty => TokensLedger(r)'
    BY <1>4, <1>15 DEF TokensLedger, Exact, Stages, SourceOf, Charged
  <2>9. r \notin faulty => TokenLedger(r)'
    BY <1>4, <1>15 DEF TokenLedger, Exact, Stages, SourceOf
  <2> QED BY <2>1, <2>2, <2>3, <2>4, <2>5, <2>6, <2>7, <2>8, <2>9 DEF Exact
<1>16. CASE TrySubscription(r)
  <2>1. SourceOf(r)' BY <1>5, <1>16 DEF SourceOf, Stages
  <2>2. Stages(r)' BY <1>5, <1>16 DEF Stages, SourceOf
  <2>3. HeldAtLeast(r)' BY <1>5, <1>16 DEF HeldAtLeast, Stages, SourceOf
  <2>4. Charged(r)' BY <1>5, <1>16 DEF Charged, Stages, SourceOf
  <2>5. NoResidueOf(r)' BY <1>5, <1>16 DEF NoResidueOf, Stages, SourceOf
  <2>6. r \notin faulty => WalletLedger(r)'
    BY <1>5, <1>16 DEF WalletLedger, Exact, Stages, SourceOf, Charged
  <2>7. r \notin faulty => SubLedger(r)'
    BY <1>5, <1>16 DEF SubLedger, Exact, Stages, SourceOf, Charged
  <2>8. r \notin faulty => TokensLedger(r)'
    BY <1>5, <1>16 DEF TokensLedger, Exact, Stages, SourceOf, Charged
  <2>9. r \notin faulty => TokenLedger(r)'
    BY <1>5, <1>16 DEF TokenLedger, Exact, Stages, SourceOf
  <2> QED BY <2>1, <2>2, <2>3, <2>4, <2>5, <2>6, <2>7, <2>8, <2>9 DEF Exact
<1>17. CASE PreConsumeTokens(r)
  <2>1. SourceOf(r)' BY <1>6, <1>17 DEF SourceOf, Stages
  <2>2. Stages(r)' BY <1>6, <1>17 DEF Stages, SourceOf
  <2>3. HeldAtLeast(r)' BY <1>6, <1>17 DEF HeldAtLeast, Stages, SourceOf
  <2>4. Charged(r)' BY <1>6, <1>17 DEF Charged, Stages, SourceOf
  <2>5. NoResidueOf(r)' BY <1>6, <1>17 DEF NoResidueOf, Stages, SourceOf
  <2>6. r \notin faulty => WalletLedger(r)'
    BY <1>6, <1>17 DEF WalletLedger, Exact, Stages, SourceOf, Charged
  <2>7. r \notin faulty => SubLedger(r)'
    BY <1>6, <1>17 DEF SubLedger, Exact, Stages, SourceOf, Charged
  <2>8. r \notin faulty => TokensLedger(r)'
    BY <1>6, <1>17 DEF TokensLedger, Exact, Stages, SourceOf, Charged
  <2>9. r \notin faulty => TokenLedger(r)'
    BY <1>6, <1>17 DEF TokenLedger, Exact, Stages, SourceOf
  <2> QED BY <2>1, <2>2, <2>3, <2>4, <2>5, <2>6, <2>7, <2>8, <2>9 DEF Exact
<1>18. CASE SavePreTokens(r)
  <2>1. SourceOf(r)' BY <1>7, <1>18 DEF SourceOf, Stages
  <2>2. Stages(r)' BY <1>7, <1>18 DEF Stages, SourceOf
  <2>3. HeldAtLeast(r)' BY <1>7, <1>18 DEF HeldAtLeast, Stages, SourceOf
  <2>4. Charged(r)' BY <1>7, <1>18 DEF Charged, Stages, SourceOf
  <2>5. NoResidueOf(r)' BY <1>7, <1>18 DEF NoResidueOf, Stages, SourceOf
  <2>6. r \notin faulty => WalletLedger(r)'
    BY <1>7, <1>18 DEF WalletLedger, Exact, Stages, SourceOf, Charged
  <2>7. r \notin faulty => SubLedger(r)'
    BY <1>7, <1>18 DEF SubLedger, Exact, Stages, SourceOf, Charged
  <2>8. r \notin faulty => TokensLedger(r)'
    BY <1>7, <1>18 DEF TokensLedger, Exact, Stages, SourceOf, Charged
  <2>9. r \notin faulty => TokenLedger(r)'
    BY <1>7, <1>18 DEF TokenLedger, Exact, Stages, SourceOf
  <2> QED BY <2>1, <2>2, <2>3, <2>4, <2>5, <2>6, <2>7, <2>8, <2>9 DEF Exact
<1>19. CASE CheckToken(r)
  <2>1. SourceOf(r)' BY <1>8, <1>19 DEF SourceOf, Stages
  <2>2. Stages(r)' BY <1>8, <1>19 DEF Stages, SourceOf
  <2>3. HeldAtLeast(r)' BY <1>8, <1>19 DEF HeldAtLeast, Stages, SourceOf
  <2>4. Charged(r)' BY <1>8, <1>19 DEF Charged, Stages, SourceOf
  <2>5. NoResidueOf(r)' BY <1>8, <1>19 DEF NoResidueOf, Stages, SourceOf
  <2>6. r \notin faulty => WalletLedger(r)'
    BY <1>8, <1>19 DEF WalletLedger, Exact, Stages, SourceOf, Charged
  <2>7. r \notin faulty => SubLedger(r)'
    BY <1>8, <1>19 DEF SubLedger, Exact, Stages, SourceOf, Charged
  <2>8. r \notin faulty => TokensLedger(r)'
    BY <1>8, <1>19 DEF TokensLedger, Exact, Stages, SourceOf, Charged
  <2>9. r \notin faulty => TokenLedger(r)'
    BY <1>8, <1>19 DEF TokenLedger, Exact, Stages, SourceOf
  <2> QED BY <2>1, <2>2, <2>3, <2>4, <2>5, <2>6, <2>7, <2>8, <2>9 DEF Exact
<1>20. CASE DecreaseToken(r)
  <2>1. SourceOf(r)' BY <1>9, <1>20 DEF SourceOf, Stages
  <2>2. Stages(r)' BY <1>9, <1>20 DEF Stages, SourceOf
  <2>3. HeldAtLeast(r)' BY <1>9, <1>20 DEF HeldAtLeast, Stages, SourceOf
  <2>4. Charged(r)' BY <1>9, <1>20 DEF Charged, Stages, SourceOf
  <2>5. NoResidueOf(r)' BY <1>9, <1>20 DEF NoResidueOf, Stages, SourceOf
  <2>6. r \notin faulty => WalletLedger(r)'
    BY <1>9, <1>20 DEF WalletLedger, Exact, Stages, SourceOf, Charged
  <2>7. r \notin faulty => SubLedger(r)'
    BY <1>9, <1>20 DEF SubLedger, Exact, Stages, SourceOf, Charged
  <2>8. r \notin faulty => TokensLedger(r)'
    BY <1>9, <1>20 DEF TokensLedger, Exact, Stages, SourceOf, Charged
  <2>9. r \notin faulty => TokenLedger(r)'
    BY <1>9, <1>20 DEF TokenLedger, Exact, Stages, SourceOf
  <2> QED BY <2>1, <2>2, <2>3, <2>4, <2>5, <2>6, <2>7, <2>8, <2>9 DEF Exact
<1>21. CASE PreConsumeWallet(r)
  <2>1. SourceOf(r)' BY <1>10, <1>21 DEF SourceOf, Stages
  <2>2. Stages(r)' BY <1>10, <1>21 DEF Stages, SourceOf
  <2>3. HeldAtLeast(r)' BY <1>10, <1>21 DEF HeldAtLeast, Stages, SourceOf
  <2>4. Charged(r)' BY <1>10, <1>21 DEF Charged, Stages, SourceOf
  <2>5. NoResidueOf(r)' BY <1>10, <1>21 DEF NoResidueOf, Stages, SourceOf
  <2>6. r \notin faulty => WalletLedger(r)'
    BY <1>10, <1>21 DEF WalletLedger, Exact, Stages, SourceOf, Charged
  <2>7. r \notin faulty => SubLedger(r)'
    BY <1>10, <1>21 DEF SubLedger, Exact, Stages, SourceOf, Charged
  <2>8. r \notin faulty => TokensLedger(r)'
    BY <1>10, <1>21 DEF TokensLedger, Exact, Stages, SourceOf, Charged
  <2>9. r \notin faulty => TokenLedger(r)'
    BY <1>10, <1>21 DEF TokenLedger, Exact, Stages, SourceOf
  <2> QED BY <2>1, <2>2, <2>3, <2>4, <2>5, <2>6, <2>7, <2>8, <2>9 DEF Exact
<1>22. CASE PreConsumeSubscription(r)
  <2>1. SourceOf(r)' BY <1>11, <1>22 DEF SourceOf, Stages
  <2>2. Stages(r)' BY <1>11, <1>22 DEF Stages, SourceOf
  <2>3. HeldAtLeast(r)' BY <1>11, <1>22 DEF HeldAtLeast, Stages, SourceOf
  <2>4. Charged(r)' BY <1>11, <1>22 DEF Charged, Stages, SourceOf
  <2>5. NoResidueOf(r)' BY <1>11, <1>22 DEF NoResidueOf, Stages, SourceOf
  <2>6. r \notin faulty => WalletLedger(r)'
    BY <1>11, <1>22 DEF WalletLedger, Exact, Stages, SourceOf, Charged
  <2>7. r \notin faulty => SubLedger(r)'
    BY <1>11, <1>22 DEF SubLedger, Exact, Stages, SourceOf, Charged
  <2>8. r \notin faulty => TokensLedger(r)'
    BY <1>11, <1>22 DEF TokensLedger, Exact, Stages, SourceOf, Charged
  <2>9. r \notin faulty => TokenLedger(r)'
    BY <1>11, <1>22 DEF TokenLedger, Exact, Stages, SourceOf
  <2> QED BY <2>1, <2>2, <2>3, <2>4, <2>5, <2>6, <2>7, <2>8, <2>9 DEF Exact
<1>23. CASE SavePre(r)
  <2>1. SourceOf(r)' BY <1>12, <1>23 DEF SourceOf, Stages
  <2>2. Stages(r)' BY <1>12, <1>23 DEF Stages, SourceOf
  <2>3. HeldAtLeast(r)' BY <1>12, <1>23 DEF HeldAtLeast, Stages, SourceOf
  <2>4. Charged(r)' BY <1>12, <1>23 DEF Charged, Stages, SourceOf
  <2>5. NoResidueOf(r)' BY <1>12, <1>23 DEF NoResidueOf, Stages, SourceOf
  <2>6. r \notin faulty => WalletLedger(r)'
    BY <1>12, <1>23 DEF WalletLedger, Exact, Stages, SourceOf, Charged
  <2>7. r \notin faulty => SubLedger(r)'
    BY <1>12, <1>23 DEF SubLedger, Exact, Stages, SourceOf, Charged
  <2>8. r \notin faulty => TokensLedger(r)'
    BY <1>12, <1>23 DEF TokensLedger, Exact, Stages, SourceOf, Charged
  <2>9. r \notin faulty => TokenLedger(r)'
    BY <1>12, <1>23 DEF TokenLedger, Exact, Stages, SourceOf
  <2> QED BY <2>1, <2>2, <2>3, <2>4, <2>5, <2>6, <2>7, <2>8, <2>9 DEF Exact
<1>24. CASE Rollback(r)
  <2>1. SourceOf(r)' BY <1>13, <1>24 DEF SourceOf, Stages
  <2>2. Stages(r)' BY <1>13, <1>24 DEF Stages, SourceOf
  <2>3. HeldAtLeast(r)' BY <1>13, <1>24 DEF HeldAtLeast
  <2>4. Charged(r)' BY <1>13, <1>24 DEF Charged, Stages, SourceOf
  <2>5. NoResidueOf(r)' BY <1>13, <1>24 DEF NoResidueOf, Stages, SourceOf
  <2>6. r \notin faulty => WalletLedger(r)'
    BY <1>13, <1>24 DEF WalletLedger, Exact, Stages, SourceOf, Charged
  <2>7. r \notin faulty => SubLedger(r)'
    BY <1>13, <1>24 DEF SubLedger, Exact, Stages, SourceOf, Charged
  <2>8. r \notin faulty => TokensLedger(r)'
    BY <1>13, <1>24 DEF TokensLedger, Exact, Stages, SourceOf, Charged
  <2>9. r \notin faulty => TokenLedger(r)'
    BY <1>13, <1>24 DEF TokenLedger, Exact, Stages, SourceOf
  <2> QED BY <2>1, <2>2, <2>3, <2>4, <2>5, <2>6, <2>7, <2>8, <2>9 DEF Exact
<1> QED
  BY <1>14, <1>15, <1>16, <1>17, <1>18, <1>19, <1>20, <1>21, <1>22, <1>23, <1>24 DEF Open

\* Settlement and refund.
LEMMA CloseInv ==
  ASSUME TypeOK, NEW r \in Requests, SessionInv(r), Close(r)
  PROVE  SessionInv(r)'
<1>1. MoneyType /\ ControlType
  BY Numbers
<1>2. Quiet(r)
  BY DEF Quiet, Close, SettleTokens, SettleFunding, SaveSettle, SettleToken, RefundWallet,
         RefundSubscription, SaveRefund, RefundRecord, RefundTokenQuota, NoError, others
<1>3. ASSUME SettleTokens(r)
      PROVE  /\ pc[r] = "settle" /\ SettlesTokens(r)
             /\ Kept(r)
             /\ Still(r)
             /\ \/ TokensDelta(r) = 0 /\ pc'[r] = "settled"
                \/ pc'[r] \in {"saveSettle", "unsettled"}
  BY <1>1, <1>3, MoneyEffects, Amounts
     DEF SettleTokens, ControlType, Session, Becomes, Kept, Goto
<1>4. ASSUME SettleFunding(r)
      PROVE  /\ pc[r] = "settle" /\ ~SettlesTokens(r)
             /\ Kept(r)
             /\ \/ Delta(r) = 0 /\ pc'[r] = "settled" /\ Still(r)
                \/ s[r].funding = "wallet" /\ pc'[r] = "settleToken" /\ Books(r, Delta(r), 0, 0, 0)
                \/ s[r].funding = "sub" /\ pc'[r] \in {"saveSettle", "unsettled"} /\ Still(r)
                \/ s[r].funding = "tokens" /\ pc'[r] = "settleToken" /\ Still(r)
  BY <1>1, <1>4, MoneyEffects, Amounts
     DEF SettleFunding, ControlType, Session, Becomes, Kept, Goto
<1>5. ASSUME SaveSettle(r)
      PROVE  /\ pc[r] = "saveSettle"
             /\ Kept(r)
             /\ \/ s[r].funding = "sub" /\ pc'[r] = "settleToken" /\ Books(r, 0, 0, Delta(r), 0)
                \/ s[r].funding # "sub" /\ pc'[r] = "settled" /\ Books(r, 0, 0, 0, TokensDelta(r))
  BY <1>1, <1>5, MoneyEffects, Amounts
     DEF SaveSettle, ControlType, Session, Becomes, Kept, Goto, SaveSettled
<1>6. ASSUME SettleToken(r)
      PROVE  /\ pc[r] = "settleToken"
             /\ pc'[r] = "settled"
             /\ Kept(r)
             /\ IF Playground(r) THEN Still(r) ELSE Books(r, 0, Delta(r), 0, 0)
  BY <1>1, <1>6, MoneyEffects, Amounts
     DEF SettleToken, ControlType, Session, Becomes, Kept, Goto
<1>7. ASSUME RefundWallet(r)
      PROVE  /\ pc[r] = "refund" /\ s[r].funding = "wallet"
             /\ pc'[r] = "refundToken"
             /\ Kept(r)
             /\ Books(r, -s[r].consumed, 0, 0, 0)
  BY <1>1, <1>7, MoneyEffects, Amounts
     DEF RefundWallet, ControlType, Session, Becomes, Kept, Goto
<1>8. ASSUME RefundSubscription(r)
      PROVE  /\ pc[r] = "refund" /\ s[r].funding = "sub"
             /\ Kept(r)
             /\ Still(r)
             /\ \/ s[r].record = "refunded" /\ pc'[r] = "refundToken"
                \/ s[r].record # "refunded" /\ pc'[r] = "saveRefund"
  BY <1>1, <1>8, MoneyEffects, Amounts
     DEF RefundSubscription, ControlType, Session, Becomes, Kept, Goto
<1>9. ASSUME SaveRefund(r)
      PROVE  /\ pc[r] = "saveRefund"
             /\ pc'[r] = "refundRecord"
             /\ Kept(r)
             /\ Books(r, 0, 0, -s[r].consumed, 0)
  BY <1>1, <1>9, MoneyEffects, Amounts
     DEF SaveRefund, ControlType, Session, Becomes, Kept, Goto
<1>10. ASSUME RefundRecord(r)
      PROVE  /\ pc[r] = "refundRecord"
             /\ pc'[r] = "refundToken"
             /\ Becomes(r, s[r].funding, s[r].pre, s[r].consumed, s[r].tokenConsumed,
                        "refunded", s[r].reason)
             /\ Still(r)
  BY <1>1, <1>10, MoneyEffects, Amounts
     DEF RefundRecord, ControlType, Session, Becomes, Kept, Goto
<1>11. ASSUME RefundTokenQuota(r)
      PROVE  /\ pc[r] = "refundToken"
             /\ pc'[r] = "failed"
             /\ Kept(r)
             /\ IF Playground(r) THEN Still(r) ELSE Books(r, 0, -s[r].tokenConsumed, 0, 0)
  BY <1>1, <1>11, MoneyEffects, Amounts
     DEF RefundTokenQuota, ControlType, Session, Becomes, Kept, Goto
<1> USE <1>1, <1>2, Numbers, SessionConstants
    DEF SessionInv, Untouched, Playground, SettlesTokens, FeeTaken, FeeTokenTaken, Books,
        Still, Quiet, Becomes, Kept, Delta, TokensDelta, Opening, Before, Settling, Returning,
        Holding, TokenHeld, Refunding
<1>12. CASE SettleTokens(r)
  <2>1. SourceOf(r)' BY <1>3, <1>12 DEF SourceOf, Stages
  <2>2. Stages(r)' BY <1>3, <1>12 DEF Stages, SourceOf
  <2>3. HeldAtLeast(r)' BY <1>3, <1>12 DEF HeldAtLeast, Stages, SourceOf
  <2>4. Charged(r)' BY <1>3, <1>12 DEF Charged, Stages, SourceOf
  <2>5. NoResidueOf(r)' BY <1>3, <1>12 DEF NoResidueOf, Stages, SourceOf
  <2>6. r \notin faulty => WalletLedger(r)'
    BY <1>3, <1>12 DEF WalletLedger, Exact, Stages, SourceOf, Charged
  <2>7. r \notin faulty => SubLedger(r)'
    BY <1>3, <1>12 DEF SubLedger, Exact, Stages, SourceOf, Charged
  <2>8. r \notin faulty => TokensLedger(r)'
    BY <1>3, <1>12 DEF TokensLedger, Exact, Stages, SourceOf, Charged
  <2>9. r \notin faulty => TokenLedger(r)'
    BY <1>3, <1>12 DEF TokenLedger, Exact, Stages, SourceOf
  <2> QED BY <2>1, <2>2, <2>3, <2>4, <2>5, <2>6, <2>7, <2>8, <2>9 DEF Exact
<1>13. CASE SettleFunding(r)
  <2>1. SourceOf(r)' BY <1>4, <1>13 DEF SourceOf, Stages
  <2>2. Stages(r)' BY <1>4, <1>13 DEF Stages, SourceOf
  <2>3. HeldAtLeast(r)' BY <1>4, <1>13 DEF HeldAtLeast, Stages, SourceOf
  <2>4. Charged(r)' BY <1>4, <1>13 DEF Charged, Stages, SourceOf
  <2>5. NoResidueOf(r)' BY <1>4, <1>13 DEF NoResidueOf, Stages, SourceOf
  <2>6. r \notin faulty => WalletLedger(r)'
    BY <1>4, <1>13 DEF WalletLedger, Exact, Stages, SourceOf, Charged
  <2>7. r \notin faulty => SubLedger(r)'
    BY <1>4, <1>13 DEF SubLedger, Exact, Stages, SourceOf, Charged
  <2>8. r \notin faulty => TokensLedger(r)'
    BY <1>4, <1>13 DEF TokensLedger, Exact, Stages, SourceOf, Charged
  <2>9. r \notin faulty => TokenLedger(r)' BY <1>4, <1>13, SMTT(60) DEF TokenLedger, Exact, Stages
  <2> QED BY <2>1, <2>2, <2>3, <2>4, <2>5, <2>6, <2>7, <2>8, <2>9 DEF Exact
<1>14. CASE SaveSettle(r)
  <2>1. SourceOf(r)' BY <1>5, <1>14 DEF SourceOf, Stages
  <2>2. Stages(r)' BY <1>5, <1>14 DEF Stages, SourceOf
  <2>3. HeldAtLeast(r)' BY <1>5, <1>14 DEF HeldAtLeast, Stages, SourceOf
  <2>4. Charged(r)' BY <1>5, <1>14 DEF Charged, Stages, SourceOf
  <2>5. NoResidueOf(r)' BY <1>5, <1>14 DEF NoResidueOf, Stages, SourceOf
  <2>6. r \notin faulty => WalletLedger(r)'
    BY <1>5, <1>14 DEF WalletLedger, Exact, Stages, SourceOf, Charged
  <2>7. r \notin faulty => SubLedger(r)'
    BY <1>5, <1>14 DEF SubLedger, Exact, Stages, SourceOf, Charged
  <2>8. r \notin faulty => TokensLedger(r)'
    BY <1>5, <1>14 DEF TokensLedger, Exact, Stages, SourceOf, Charged
  <2>9. r \notin faulty => TokenLedger(r)'
    BY <1>5, <1>14 DEF TokenLedger, Exact, Stages, SourceOf
  <2> QED BY <2>1, <2>2, <2>3, <2>4, <2>5, <2>6, <2>7, <2>8, <2>9 DEF Exact
<1>15. CASE SettleToken(r)
  <2>1. SourceOf(r)' BY <1>6, <1>15 DEF SourceOf, Stages
  <2>2. Stages(r)' BY <1>6, <1>15 DEF Stages, SourceOf
  <2>3. HeldAtLeast(r)' BY <1>6, <1>15 DEF HeldAtLeast, Stages, SourceOf
  <2>4. Charged(r)' BY <1>6, <1>15 DEF Charged, Stages, SourceOf
  <2>5. NoResidueOf(r)' BY <1>6, <1>15 DEF NoResidueOf, Stages, SourceOf
  <2>6. r \notin faulty => WalletLedger(r)'
    BY <1>6, <1>15 DEF WalletLedger, Exact, Stages, SourceOf, Charged
  <2>7. r \notin faulty => SubLedger(r)'
    BY <1>6, <1>15 DEF SubLedger, Exact, Stages, SourceOf, Charged
  <2>8. r \notin faulty => TokensLedger(r)'
    BY <1>6, <1>15 DEF TokensLedger, Exact, Stages, SourceOf, Charged
  <2>9. r \notin faulty => TokenLedger(r)'
    BY <1>6, <1>15 DEF TokenLedger, Exact, Stages, SourceOf
  <2> QED BY <2>1, <2>2, <2>3, <2>4, <2>5, <2>6, <2>7, <2>8, <2>9 DEF Exact
<1>16. CASE RefundWallet(r)
  <2>1. SourceOf(r)' BY <1>7, <1>16 DEF SourceOf, Stages
  <2>2. Stages(r)' BY <1>7, <1>16 DEF Stages, SourceOf
  <2>3. HeldAtLeast(r)' BY <1>7, <1>16 DEF HeldAtLeast, Stages, SourceOf
  <2>4. Charged(r)' BY <1>7, <1>16 DEF Charged, Stages, SourceOf
  <2>5. NoResidueOf(r)' BY <1>7, <1>16 DEF NoResidueOf, Stages, SourceOf
  <2>6. r \notin faulty => WalletLedger(r)'
    BY <1>7, <1>16 DEF WalletLedger, Exact, Stages, SourceOf, Charged
  <2>7. r \notin faulty => SubLedger(r)'
    BY <1>7, <1>16 DEF SubLedger, Exact, Stages, SourceOf, Charged
  <2>8. r \notin faulty => TokensLedger(r)'
    BY <1>7, <1>16 DEF TokensLedger, Exact, Stages, SourceOf, Charged
  <2>9. r \notin faulty => TokenLedger(r)'
    BY <1>7, <1>16 DEF TokenLedger, Exact, Stages, SourceOf
  <2> QED BY <2>1, <2>2, <2>3, <2>4, <2>5, <2>6, <2>7, <2>8, <2>9 DEF Exact
<1>17. CASE RefundSubscription(r)
  <2>1. SourceOf(r)' BY <1>8, <1>17 DEF SourceOf, Stages
  <2>2. Stages(r)' BY <1>8, <1>17 DEF Stages, SourceOf
  <2>3. HeldAtLeast(r)' BY <1>8, <1>17 DEF HeldAtLeast, Stages, SourceOf
  <2>4. Charged(r)' BY <1>8, <1>17 DEF Charged, Stages, SourceOf
  <2>5. NoResidueOf(r)' BY <1>8, <1>17 DEF NoResidueOf, Stages, SourceOf
  <2>6. r \notin faulty => WalletLedger(r)'
    BY <1>8, <1>17 DEF WalletLedger, Exact, Stages, SourceOf, Charged
  <2>7. r \notin faulty => SubLedger(r)'
    BY <1>8, <1>17 DEF SubLedger, Exact, Stages, SourceOf, Charged
  <2>8. r \notin faulty => TokensLedger(r)'
    BY <1>8, <1>17 DEF TokensLedger, Exact, Stages, SourceOf, Charged
  <2>9. r \notin faulty => TokenLedger(r)'
    BY <1>8, <1>17 DEF TokenLedger, Exact, Stages, SourceOf
  <2> QED BY <2>1, <2>2, <2>3, <2>4, <2>5, <2>6, <2>7, <2>8, <2>9 DEF Exact
<1>18. CASE SaveRefund(r)
  <2>1. SourceOf(r)' BY <1>9, <1>18 DEF SourceOf, Stages
  <2>2. Stages(r)' BY <1>9, <1>18 DEF Stages, SourceOf
  <2>3. HeldAtLeast(r)' BY <1>9, <1>18 DEF HeldAtLeast, Stages, SourceOf
  <2>4. Charged(r)' BY <1>9, <1>18 DEF Charged, Stages, SourceOf
  <2>5. NoResidueOf(r)' BY <1>9, <1>18 DEF NoResidueOf, Stages, SourceOf
  <2>6. r \notin faulty => WalletLedger(r)'
    BY <1>9, <1>18 DEF WalletLedger, Exact, Stages, SourceOf, Charged
  <2>7. r \notin faulty => SubLedger(r)'
    BY <1>9, <1>18 DEF SubLedger, Exact, Stages, SourceOf, Charged
  <2>8. r \notin faulty => TokensLedger(r)'
    BY <1>9, <1>18 DEF TokensLedger, Exact, Stages, SourceOf, Charged
  <2>9. r \notin faulty => TokenLedger(r)'
    BY <1>9, <1>18 DEF TokenLedger, Exact, Stages, SourceOf
  <2> QED BY <2>1, <2>2, <2>3, <2>4, <2>5, <2>6, <2>7, <2>8, <2>9 DEF Exact
<1>19. CASE RefundRecord(r)
  <2>1. SourceOf(r)' BY <1>10, <1>19 DEF SourceOf, Stages
  <2>2. Stages(r)' BY <1>10, <1>19 DEF Stages, SourceOf
  <2>3. HeldAtLeast(r)' BY <1>10, <1>19 DEF HeldAtLeast, Stages, SourceOf
  <2>4. Charged(r)' BY <1>10, <1>19 DEF Charged, Stages, SourceOf
  <2>5. NoResidueOf(r)' BY <1>10, <1>19 DEF NoResidueOf, Stages, SourceOf
  <2>6. r \notin faulty => WalletLedger(r)'
    BY <1>10, <1>19 DEF WalletLedger, Exact, Stages, SourceOf, Charged
  <2>7. r \notin faulty => SubLedger(r)'
    BY <1>10, <1>19, SMTT(60) DEF SubLedger, Exact, Stages, SourceOf, Charged
  <2>8. r \notin faulty => TokensLedger(r)'
    BY <1>10, <1>19 DEF TokensLedger, Exact, Stages, SourceOf, Charged
  <2>9. r \notin faulty => TokenLedger(r)'
    BY <1>10, <1>19 DEF TokenLedger, Exact, Stages, SourceOf
  <2> QED BY <2>1, <2>2, <2>3, <2>4, <2>5, <2>6, <2>7, <2>8, <2>9 DEF Exact
<1>20. CASE RefundTokenQuota(r)
  <2>1. SourceOf(r)' BY <1>11, <1>20 DEF SourceOf, Stages
  <2>2. Stages(r)' BY <1>11, <1>20 DEF Stages, SourceOf
  <2>3. HeldAtLeast(r)' BY <1>11, <1>20 DEF HeldAtLeast, Stages, SourceOf
  <2>4. Charged(r)' BY <1>11, <1>20 DEF Charged, Stages, SourceOf
  <2>5. NoResidueOf(r)' BY <1>11, <1>20 DEF NoResidueOf, Stages, SourceOf
  <2>6. r \notin faulty => WalletLedger(r)'
    BY <1>11, <1>20 DEF WalletLedger, Exact, Stages, SourceOf, Charged
  <2>7. r \notin faulty => SubLedger(r)'
    BY <1>11, <1>20 DEF SubLedger, Exact, Stages, SourceOf, Charged
  <2>8. r \notin faulty => TokensLedger(r)'
    BY <1>11, <1>20 DEF TokensLedger, Exact, Stages, SourceOf, Charged
  <2>9. r \notin faulty => TokenLedger(r)'
    BY <1>11, <1>20 DEF TokenLedger, Exact, Stages, SourceOf
  <2> QED BY <2>1, <2>2, <2>3, <2>4, <2>5, <2>6, <2>7, <2>8, <2>9 DEF Exact
<1> QED
  BY <1>12, <1>13, <1>14, <1>15, <1>16, <1>17, <1>18, <1>19, <1>20 DEF Close

\* The answer of the upstream, and the start of a refund.
LEMMA UpstreamInv ==
  ASSUME TypeOK, NEW r \in Requests, SessionInv(r), Upstream(r)
  PROVE  SessionInv(r)'
<1>1. MoneyType /\ ControlType
  BY Numbers
<1>2. ASSUME NEW cost \in Costs, RelaySucceeds(r, cost)
      PROVE  SessionInv(r)'
  <2>1. /\ pc[r] = "relay" /\ pc'[r] = "settle" /\ Still(r) /\ Quiet(r)
        /\ s'[r].kind = s[r].kind /\ s'[r].funding = s[r].funding /\ s'[r].pre = s[r].pre
        /\ s'[r].consumed = s[r].consumed /\ s'[r].tokenConsumed = s[r].tokenConsumed
        /\ s'[r].record = s[r].record /\ s'[r].reason = s[r].reason
    BY <1>1, <1>2, MoneyEffects
       DEF RelaySucceeds, ControlType, Session, Goto, Quiet, NoError, others
  <2> USE <2>1, Numbers
      DEF SessionInv, Untouched, Playground, SettlesTokens, FeeTaken, FeeTokenTaken, Books,
          Still, Quiet, Opening, Before, Settling, Returning, Holding, TokenHeld, Refunding
  <2>2. SourceOf(r)' BY DEF SourceOf
  <2>3. Stages(r)' BY DEF Stages
  <2>4. HeldAtLeast(r)' BY DEF HeldAtLeast
  <2>5. Charged(r)' BY DEF Charged
  <2>6. NoResidueOf(r)' BY DEF NoResidueOf
  <2>7. r \notin faulty => Exact(r)'
    BY DEF Exact, WalletLedger, SubLedger, TokensLedger, TokenLedger
  <2> QED BY <2>2, <2>3, <2>4, <2>5, <2>6, <2>7
<1>3. ASSUME NEW violation \in BOOLEAN, RelayFails(r, violation)
      PROVE  SessionInv(r)'
  <2>1. /\ pc[r] = "relay" /\ Still(r) /\ s'[r] = s[r]
        /\ pc'[r] = IF NeedsRefund(r) THEN "refund" ELSE "failed"
        /\ feePc'[r] \in {"none", "funding"}
        /\ r \in faulty' <=> r \in faulty
    BY <1>1, <1>3, MoneyEffects DEF RelayFails, ControlType, Goto, NoError
  <2> USE <2>1, Numbers
      DEF SessionInv, Untouched, Playground, SettlesTokens, FeeTaken, FeeTokenTaken, Books,
          Still, Opening, Before, Settling, Returning, Holding, TokenHeld, Refunding,
          NeedsRefund
  <2>2. SourceOf(r)' BY DEF SourceOf, Stages
  <2>3. Stages(r)' BY DEF Stages
  <2>4. HeldAtLeast(r)' BY DEF HeldAtLeast
  <2>5. Charged(r)' BY DEF Charged
  <2>6. NoResidueOf(r)' BY DEF NoResidueOf
  <2>7. r \notin faulty => WalletLedger(r)' BY DEF Exact, WalletLedger, Charged, Stages
  <2>8. r \notin faulty => SubLedger(r)' BY DEF Exact, SubLedger, Charged, Stages
  <2>9. r \notin faulty => TokensLedger(r)' BY DEF Exact, TokensLedger, Charged, Stages
  <2>10. r \notin faulty => TokenLedger(r)' BY DEF Exact, TokenLedger, Stages
  <2> QED BY <2>2, <2>3, <2>4, <2>5, <2>6, <2>7, <2>8, <2>9, <2>10 DEF Exact
<1> QED
  BY <1>2, <1>3 DEF Upstream

\* The violation fee, beside the refund.
LEMMA FeeInv ==
  ASSUME TypeOK, NEW r \in Requests, SessionInv(r), ChargeFees(r)
  PROVE  SessionInv(r)'
<1>1. MoneyType /\ ControlType
  BY Numbers
<1>2. pc'[r] = pc[r] /\ s'[r] = s[r] /\ (r \in faulty' <=> r \in faulty)
  BY DEF ChargeFees, ChargeFee, SaveFee, ChargeFeeToken, NoError
<1>3. feePc[r] \in {"funding", "save", "token"}
  BY DEF ChargeFees, ChargeFee, SaveFee, ChargeFeeToken
<1>4. \/ /\ feePc[r] = "funding" /\ s[r].funding = "wallet"
         /\ feePc'[r] = "token" /\ Books(r, Fee, 0, 0, 0)
      \/ /\ feePc[r] = "funding" /\ s[r].funding # "wallet"
         /\ feePc'[r] \in {"save", "refused"} /\ Still(r)
      \/ feePc[r] = "save" /\ feePc'[r] = "token" /\ Books(r, 0, 0, Fee, 0)
      \/ /\ feePc[r] = "token" /\ feePc'[r] = "paid"
         /\ IF Playground(r) THEN Still(r) ELSE Books(r, 0, Fee, 0, 0)
  <2>1. CASE ChargeFee(r)
    BY <1>1, <2>1, MoneyEffects, Amounts DEF ChargeFee, FeeGoto, ControlType
  <2>2. CASE SaveFee(r)
    BY <1>1, <2>2, MoneyEffects, Amounts DEF SaveFee, FeeGoto, ControlType
  <2>3. CASE ChargeFeeToken(r)
    BY <1>1, <2>3, MoneyEffects, Amounts
       DEF ChargeFeeToken, FeeGoto, ControlType, PostConsumeToken
  <2> QED BY <2>1, <2>2, <2>3 DEF ChargeFees
<1>5. pc[r] \in Refunding /\ s[r].funding # "none"
  BY <1>3 DEF SessionInv, Stages, SourceOf, Opening, Refunding, Returning
<1> USE <1>1, <1>2, <1>4, <1>5, Numbers
    DEF SessionInv, Untouched, Playground, SettlesTokens, FeeTaken, FeeTokenTaken, Books,
        Still, Opening, Before, Settling, Returning, Holding, TokenHeld, Refunding
<1>6. SourceOf(r)' BY DEF SourceOf
<1>7. Stages(r)' BY DEF Stages
<1>8. HeldAtLeast(r)' BY DEF HeldAtLeast
<1>9. Charged(r)' BY DEF Charged
<1>10. NoResidueOf(r)' BY DEF NoResidueOf, SourceOf
<1>11. r \notin faulty => WalletLedger(r)' BY DEF Exact, WalletLedger, SourceOf
<1>12. r \notin faulty => SubLedger(r)' BY DEF Exact, SubLedger
<1>13. r \notin faulty => TokensLedger(r)' BY DEF Exact, TokensLedger
<1>14. r \notin faulty => TokenLedger(r)' BY DEF Exact, TokenLedger
<1> QED
  BY <1>6, <1>7, <1>8, <1>9, <1>10, <1>11, <1>12, <1>13, <1>14 DEF Exact

\* An arriving request has taken nothing.
LEMMA ArriveInv ==
  ASSUME TypeOK, NEW r \in Requests, SessionInv(r), NEW pref \in Preferences,
         NEW kind \in Kinds, NEW est \in Estimates, Arrive(r, pref, kind, est)
  PROVE  SessionInv(r)'
<1>1. MoneyType /\ ControlType
  BY Numbers
<1>2. /\ pc[r] = "idle" /\ pc'[r] \in {"rejected", "choose"} /\ Still(r) /\ Quiet(r)
      /\ s'[r].funding = "none" /\ s'[r].pre = 0 /\ s'[r].consumed = 0
      /\ s'[r].tokenConsumed = 0 /\ s'[r].reason = "none"
  BY <1>1, MoneyEffects
     DEF Arrive, NewSession, ControlType, Goto, Quiet, NoError, others
<1>3. Untouched(r) /\ taken[r].token = 0 /\ feePc[r] = "none"
  BY <1>2 DEF SessionInv, Stages, Before, Opening, Refunding, Returning
<1> USE <1>2, <1>3, Numbers
    DEF Untouched, Playground, SettlesTokens, FeeTaken, FeeTokenTaken, Books, Still, Quiet,
        Opening, Before, Settling, Returning, Holding, TokenHeld, Refunding
<1>4. SourceOf(r)' BY DEF SourceOf
<1>5. Stages(r)' BY DEF Stages
<1>6. HeldAtLeast(r)' BY DEF HeldAtLeast
<1>7. Charged(r)' BY DEF Charged
<1>8. NoResidueOf(r)' BY DEF NoResidueOf
<1>9. Exact(r)' BY DEF Exact, WalletLedger, SubLedger, TokensLedger, TokenLedger
<1> QED
  BY <1>4, <1>5, <1>6, <1>7, <1>8, <1>9 DEF SessionInv

\* A failing call of the session: what is left is still bounded, and a settled session exact.
LEMMA ErrorInv ==
  ASSUME TypeOK, NEW r \in Requests, SessionInv(r), Errors(r), ~ChargeFeeError(r)
  PROVE  SessionInv(r)'
<1>1. MoneyType /\ ControlType
  BY Numbers
<1>2. feePc'[r] = feePc[r] /\ r \in faulty'
  BY DEF Errors, PreConsumeTokensError, DecreaseTokenError, PreConsumeWalletError,
         PreConsumeSubscriptionError, RollbackError, SettleError, SettleTokenError,
         RefundWalletError, RefundSubscriptionError, RefundRecordError, RefundTokenError,
         ChargeFeeError, DBError, others
<1>3. ASSUME PreConsumeTokensError(r)
      PROVE  /\ pc[r] \in {"preTokens", "savePreTokens"}
             /\ pc'[r] = "rejected"
             /\ Kept(r)
             /\ \/ Still(r)
                \/ \E n \in Nat : Books(r, 0, 0, 0, n)
  BY <1>1, <1>3, MoneyEffects, Amounts
     DEF PreConsumeTokensError, ControlType, Session, Becomes, Kept, Goto, DBError
<1>4. ASSUME DecreaseTokenError(r)
      PROVE  /\ pc[r] = "decToken"
             /\ pc'[r] = "rejected"
             /\ Kept(r)
             /\ \/ Still(r)
                \/ Books(r, 0, s[r].pre, 0, 0)
  BY <1>1, <1>4, MoneyEffects, Amounts
     DEF DecreaseTokenError, ControlType, Session, Becomes, Kept, Goto, DBError
<1>5. ASSUME PreConsumeWalletError(r)
      PROVE  /\ pc[r] = "preFunding" /\ s[r].funding = "wallet"
             /\ pc'[r] = "rollback"
             /\ Kept(r)
             /\ \/ Still(r)
                \/ Books(r, s[r].pre, 0, 0, 0)
  BY <1>1, <1>5, MoneyEffects, Amounts
     DEF PreConsumeWalletError, ControlType, Session, Becomes, Kept, Goto, DBError
<1>6. ASSUME PreConsumeSubscriptionError(r)
      PROVE  /\ pc'[r] = "rollback"
             /\ \/ /\ pc[r] = "preFunding" /\ s[r].funding = "sub" /\ Still(r)
                   /\ \E reason \in {"none", "short"} :
                         Becomes(r, s[r].funding, s[r].pre, s[r].consumed,
                                 s[r].tokenConsumed, s[r].record, reason)
                \/ pc[r] = "savePre" /\ Kept(r) /\ (Still(r) \/ Books(r, 0, 0, s[r].pre, 0))
  <2>1. s[r] \in Session /\ pc'[r] = "rollback"
    BY <1>1, <1>6 DEF PreConsumeSubscriptionError, ControlType, Goto
  <2>2. CASE pc[r] = "savePre"
    <3>1. /\ s' = [s EXCEPT ![r].copy = NoRow]
          /\ NoMoney \/ AddAmountUsed(r, s[r].copy, s[r].pre)
      BY <1>6, <2>2 DEF PreConsumeSubscriptionError, DBError
    <3>2. Kept(r)
      BY <1>1, <2>1, <3>1 DEF ControlType, Session, Becomes, Kept
    <3>3. Still(r) \/ Books(r, 0, 0, s[r].pre, 0)
      BY <1>1, <3>1, MoneyEffects, Amounts
    <3> QED BY <2>1, <2>2, <3>2, <3>3
  <2>3. CASE pc[r] # "savePre"
    <3>1. PICK reason \in {"none", "short"} : s' = [s EXCEPT ![r].reason = reason]
      BY <1>6, <2>3 DEF PreConsumeSubscriptionError
    <3>2. Becomes(r, s[r].funding, s[r].pre, s[r].consumed, s[r].tokenConsumed,
                  s[r].record, reason)
      BY <1>1, <2>1, <3>1 DEF ControlType, Session, Becomes
    <3>3. pc[r] = "preFunding" /\ s[r].funding = "sub" /\ Still(r)
      BY <1>1, <1>6, <2>3, MoneyEffects DEF PreConsumeSubscriptionError, DBError
    <3> QED BY <2>1, <3>1, <3>2, <3>3
  <2> QED BY <2>2, <2>3
<1>7. ASSUME RollbackError(r)
      PROVE  /\ pc[r] = "rollback" /\ ~Playground(r)
             /\ Becomes(r, s[r].funding, s[r].pre, s[r].consumed, 0, s[r].record, "none")
             /\ \/ Still(r)
                \/ Books(r, 0, -s[r].tokenConsumed, 0, 0)
             /\ pc'[r] = "rejected" \/ (s[r].reason = "short" /\ pc'[r] = "wallet")
  BY <1>1, <1>7, MoneyEffects, Amounts
     DEF RollbackError, ControlType, Session, Becomes, Kept, Goto, DBError, AfterRollback,
         AfterShort
<1>8. ASSUME SettleError(r)
      PROVE  /\ pc'[r] = "unsettled"
             /\ Kept(r)
             /\ \/ pc[r] = "settle" /\ s[r].funding = "wallet" /\ (Still(r) \/ Books(r, Delta(r), 0, 0, 0))
                \/ pc[r] = "saveSettle" /\ Still(r)
                \/ pc[r] = "saveSettle" /\ s[r].funding = "sub" /\ Books(r, 0, 0, Delta(r), 0)
                \/ pc[r] = "saveSettle" /\ s[r].funding # "sub" /\ Books(r, 0, 0, 0, TokensDelta(r))
  BY <1>1, <1>8, MoneyEffects, Amounts
     DEF SettleError, ControlType, Session, Becomes, Kept, Goto, DBError, SaveSettled
<1>9. ASSUME SettleTokenError(r)
      PROVE  /\ pc[r] = "settleToken" /\ ~Playground(r)
             /\ pc'[r] = "settled"
             /\ Kept(r)
             /\ \/ Still(r)
                \/ Books(r, 0, Delta(r), 0, 0)
  BY <1>1, <1>9, MoneyEffects, Amounts
     DEF SettleTokenError, ControlType, Session, Becomes, Kept, Goto, DBError
<1>10. ASSUME RefundWalletError(r)
      PROVE  /\ pc[r] = "refund" /\ s[r].funding = "wallet"
             /\ pc'[r] = "refundToken"
             /\ Kept(r)
             /\ \/ Still(r)
                \/ Books(r, -s[r].consumed, 0, 0, 0)
  BY <1>1, <1>10, MoneyEffects, Amounts
     DEF RefundWalletError, ControlType, Session, Becomes, Kept, Goto, DBError
<1>11. ASSUME RefundSubscriptionError(r)
      PROVE  /\ \/ pc[r] = "refund" /\ s[r].funding = "sub"
                \/ pc[r] = "saveRefund"
             /\ pc'[r] \in {"refund", "refundToken"}
             /\ Kept(r)
             /\ \/ Still(r)
                \/ pc[r] = "saveRefund" /\ Books(r, 0, 0, -s[r].consumed, 0)
  BY <1>1, <1>11, MoneyEffects, Amounts
     DEF RefundSubscriptionError, ControlType, Session, Becomes, Kept, Goto, DBError,
         AfterAttempt
<1>12. ASSUME RefundRecordError(r)
      PROVE  /\ pc[r] = "refundRecord"
             /\ pc'[r] \in {"refund", "refundToken"}
             /\ \E status : Becomes(r, s[r].funding, s[r].pre, s[r].consumed,
                                    s[r].tokenConsumed, status, s[r].reason)
             /\ Still(r)
  BY <1>1, <1>12, MoneyEffects, Amounts
     DEF RefundRecordError, ControlType, Session, Becomes, Kept, Goto, DBError, AfterAttempt
<1>13. ASSUME RefundTokenError(r)
      PROVE  /\ pc[r] = "refundToken" /\ ~Playground(r)
             /\ pc'[r] = "failed"
             /\ Kept(r)
             /\ \/ Still(r)
                \/ Books(r, 0, -s[r].tokenConsumed, 0, 0)
  BY <1>1, <1>13, MoneyEffects, Amounts
     DEF RefundTokenError, ControlType, Session, Becomes, Kept, Goto, DBError
<1> USE <1>1, <1>2, Numbers, SessionConstants
    DEF SessionInv, Untouched, Playground, SettlesTokens, FeeTaken, FeeTokenTaken, Books,
        Still, Quiet, Becomes, Kept, Delta, TokensDelta, Opening, Before, Settling, Returning,
        Holding, TokenHeld, Refunding
<1>14. CASE PreConsumeTokensError(r)
  <2>1. SourceOf(r)' BY <1>3, <1>14 DEF SourceOf, Stages
  <2>2. Stages(r)' BY <1>3, <1>14 DEF Stages, SourceOf
  <2>3. HeldAtLeast(r)' BY <1>3, <1>14 DEF HeldAtLeast
  <2>4. Charged(r)' BY <1>3, <1>14 DEF Charged, Stages, SourceOf
  <2>5. NoResidueOf(r)' BY <1>3, <1>14 DEF NoResidueOf, Stages, SourceOf
  <2> QED BY <2>1, <2>2, <2>3, <2>4, <2>5
<1>15. CASE DecreaseTokenError(r)
  <2>1. SourceOf(r)' BY <1>4, <1>15 DEF SourceOf, Stages
  <2>2. Stages(r)' BY <1>4, <1>15 DEF Stages, SourceOf
  <2>3. HeldAtLeast(r)' BY <1>4, <1>15 DEF HeldAtLeast, Stages, SourceOf
  <2>4. Charged(r)' BY <1>4, <1>15 DEF Charged, Stages, SourceOf
  <2>5. NoResidueOf(r)' BY <1>4, <1>15 DEF NoResidueOf, Stages, SourceOf
  <2> QED BY <2>1, <2>2, <2>3, <2>4, <2>5
<1>16. CASE PreConsumeWalletError(r)
  <2>1. SourceOf(r)' BY <1>5, <1>16 DEF SourceOf, Stages
  <2>2. Stages(r)' BY <1>5, <1>16 DEF Stages, SourceOf
  <2>3. HeldAtLeast(r)' BY <1>5, <1>16, SMTT(60) DEF HeldAtLeast, Stages, SourceOf
  <2>4. Charged(r)' BY <1>5, <1>16 DEF Charged, Stages, SourceOf
  <2>5. NoResidueOf(r)' BY <1>5, <1>16 DEF NoResidueOf, Stages, SourceOf
  <2> QED BY <2>1, <2>2, <2>3, <2>4, <2>5
<1>17. CASE PreConsumeSubscriptionError(r)
  <2>1. SourceOf(r)' BY <1>6, <1>17 DEF SourceOf, Stages
  <2>2. Stages(r)' BY <1>6, <1>17 DEF Stages, SourceOf
  <2>3. HeldAtLeast(r)' BY <1>6, <1>17 DEF HeldAtLeast, Stages, SourceOf
  <2>4. Charged(r)' BY <1>6, <1>17 DEF Charged, Stages, SourceOf
  <2>5. NoResidueOf(r)' BY <1>6, <1>17 DEF NoResidueOf, Stages, SourceOf
  <2> QED BY <2>1, <2>2, <2>3, <2>4, <2>5
<1>18. CASE RollbackError(r)
  <2>1. SourceOf(r)' BY <1>7, <1>18 DEF SourceOf, Stages
  <2>2. Stages(r)'
    <3>1. CASE s[r].reason = "short" BY <1>7, <1>18, <3>1 DEF Stages
    <3>2. CASE s[r].reason # "short" BY <1>7, <1>18, <3>2 DEF Stages
    <3> QED BY <3>1, <3>2
  <2>3. HeldAtLeast(r)' BY <1>7, <1>18 DEF HeldAtLeast
  <2>4. Charged(r)' BY <1>7, <1>18 DEF Charged, Stages, SourceOf
  <2>5. NoResidueOf(r)' BY <1>7, <1>18 DEF NoResidueOf, Stages, SourceOf
  <2> QED BY <2>1, <2>2, <2>3, <2>4, <2>5
<1>19. CASE SettleError(r)
  <2>1. SourceOf(r)' BY <1>8, <1>19 DEF SourceOf, Stages
  <2>2. Stages(r)' BY <1>8, <1>19 DEF Stages, SourceOf
  <2>3. HeldAtLeast(r)' BY <1>8, <1>19 DEF HeldAtLeast, Stages, SourceOf
  <2>4. Charged(r)' BY <1>8, <1>19 DEF Charged, Stages, SourceOf
  <2>5. NoResidueOf(r)' BY <1>8, <1>19 DEF NoResidueOf, Stages, SourceOf
  <2> QED BY <2>1, <2>2, <2>3, <2>4, <2>5
<1>20. CASE SettleTokenError(r)
  <2>1. SourceOf(r)' BY <1>9, <1>20 DEF SourceOf, Stages
  <2>2. Stages(r)' BY <1>9, <1>20 DEF Stages, SourceOf
  <2>3. HeldAtLeast(r)' BY <1>9, <1>20 DEF HeldAtLeast, Stages, SourceOf
  <2>4. Charged(r)' BY <1>9, <1>20 DEF Charged, Stages, SourceOf
  <2>5. NoResidueOf(r)' BY <1>9, <1>20 DEF NoResidueOf, Stages, SourceOf
  <2> QED BY <2>1, <2>2, <2>3, <2>4, <2>5
<1>21. CASE RefundWalletError(r)
  <2>1. SourceOf(r)' BY <1>10, <1>21 DEF SourceOf, Stages
  <2>2. Stages(r)' BY <1>10, <1>21 DEF Stages, SourceOf
  <2>3. HeldAtLeast(r)' BY <1>10, <1>21 DEF HeldAtLeast, Stages, SourceOf
  <2>4. Charged(r)' BY <1>10, <1>21 DEF Charged, Stages, SourceOf
  <2>5. NoResidueOf(r)' BY <1>10, <1>21 DEF NoResidueOf, Stages, SourceOf
  <2> QED BY <2>1, <2>2, <2>3, <2>4, <2>5
<1>22. CASE RefundSubscriptionError(r)
  <2>1. SourceOf(r)' BY <1>11, <1>22 DEF SourceOf, Stages
  <2>2. Stages(r)' BY <1>11, <1>22 DEF Stages, SourceOf
  <2>3. HeldAtLeast(r)' BY <1>11, <1>22 DEF HeldAtLeast, Stages, SourceOf
  <2>4. Charged(r)' BY <1>11, <1>22 DEF Charged, Stages, SourceOf
  <2>5. NoResidueOf(r)' BY <1>11, <1>22 DEF NoResidueOf, Stages, SourceOf
  <2> QED BY <2>1, <2>2, <2>3, <2>4, <2>5
<1>23. CASE RefundRecordError(r)
  <2>1. SourceOf(r)' BY <1>12, <1>23 DEF SourceOf, Stages
  <2>2. Stages(r)' BY <1>12, <1>23 DEF Stages, SourceOf
  <2>3. HeldAtLeast(r)' BY <1>12, <1>23 DEF HeldAtLeast, Stages, SourceOf
  <2>4. Charged(r)' BY <1>12, <1>23 DEF Charged, Stages, SourceOf
  <2>5. NoResidueOf(r)' BY <1>12, <1>23 DEF NoResidueOf, Stages, SourceOf
  <2> QED BY <2>1, <2>2, <2>3, <2>4, <2>5
<1>24. CASE RefundTokenError(r)
  <2>1. SourceOf(r)' BY <1>13, <1>24 DEF SourceOf, Stages
  <2>2. Stages(r)' BY <1>13, <1>24 DEF Stages, SourceOf
  <2>3. HeldAtLeast(r)' BY <1>13, <1>24 DEF HeldAtLeast, Stages, SourceOf
  <2>4. Charged(r)' BY <1>13, <1>24 DEF Charged, Stages, SourceOf
  <2>5. NoResidueOf(r)' BY <1>13, <1>24 DEF NoResidueOf, Stages, SourceOf
  <2> QED BY <2>1, <2>2, <2>3, <2>4, <2>5
<1> QED
  BY <1>14, <1>15, <1>16, <1>17, <1>18, <1>19, <1>20, <1>21, <1>22, <1>23, <1>24 DEF Errors

\* A failing call of the fee.
LEMMA FeeErrorInv ==
  ASSUME TypeOK, NEW r \in Requests, SessionInv(r), ChargeFeeError(r)
  PROVE  SessionInv(r)'
<1>1. MoneyType /\ ControlType
  BY Numbers
<1>2. /\ pc'[r] = pc[r] /\ s'[r] = s[r] /\ r \in faulty'
      /\ feePc[r] # "none" /\ feePc'[r] \in {"refused", "paid"}
  BY <1>1 DEF ChargeFeeError, DBError, FeeGoto, ControlType
<1>3. \/ Still(r)
      \/ s[r].funding = "wallet" /\ Books(r, Fee, 0, 0, 0)
      \/ feePc[r] = "save" /\ Books(r, 0, 0, Fee, 0)
      \/ ~Playground(r) /\ Books(r, 0, Fee, 0, 0)
  BY <1>1, MoneyEffects, Amounts DEF ChargeFeeError, DBError, PostConsumeToken
<1>4. pc[r] \in Refunding /\ s[r].funding # "none"
  BY <1>2 DEF SessionInv, Stages, SourceOf, Opening, Refunding, Returning
<1> USE <1>1, <1>2, <1>3, <1>4, Numbers
    DEF SessionInv, Untouched, Playground, SettlesTokens, Books, Still, Opening, Before,
        Settling, Returning, Holding, TokenHeld, Refunding
<1>5. SourceOf(r)' BY DEF SourceOf
<1>6. Stages(r)' BY DEF Stages
<1>7. HeldAtLeast(r)' BY DEF HeldAtLeast
<1>8. Charged(r)' BY DEF Charged
<1>9. NoResidueOf(r)' BY DEF NoResidueOf, SourceOf
<1> QED
  BY <1>5, <1>6, <1>7, <1>8, <1>9

-----------------------------------------------------------------------------
(* The ceiling of a subscription.                                          *)

\* A row, or a copy of it, respects both ceilings.
Within(x) ==
    /\ AmountTotal > 0 => x.amount <= AmountTotal
    /\ TokensLimit > 0 => x.tokens <= TokensLimit

\* What a transaction saves was checked against the ceiling on the very copy it
\* changes, so it does not matter what the row has become.
CeilingOf(r) ==
    /\ Within(s[r].copy) /\ Within(feeCopy[r])
    /\ pc[r] = "savePre" => CanPreConsume(AmountTotal, s[r].copy.amount, s[r].pre)
    /\ pc[r] = "savePreTokens" =>
          CanPreConsume(TokensLimit, s[r].copy.tokens, SubConsume(s[r].est))
    /\ pc[r] = "saveSettle" /\ s[r].funding = "sub" =>
          CanPostConsume(AmountTotal, s[r].copy.amount, Delta(r))
    /\ pc[r] = "saveSettle" /\ s[r].funding # "sub" =>
          CanPostConsume(TokensLimit, s[r].copy.tokens, TokensDelta(r))
    /\ feePc[r] = "save" => CanPostConsume(AmountTotal, feeCopy[r].amount, Fee)

CeilingInv == Within(row) /\ Within(resetCopy) /\ \A r \in Requests : CeilingOf(r)

\* Moving a counter by the amount the code checked keeps it below its ceiling.
LEMMA CeilingKept ==
  ASSUME NEW total \in Nat, NEW used \in Nat, NEW n \in Int,
         total > 0 => used <= total,
         \/ n >= 0 /\ CanPreConsume(total, used, n)
         \/ CanPostConsume(total, used, n)
         \/ n <= 0
  PROVE  total > 0 => ClampedUsed(used, n) <= total
  BY DEF CanPreConsume, CanPostConsume, ClampedUsed

\* A reset, and a save of a checked change, stay within the ceilings.
LEMMA SavesWithin ==
  ASSUME NEW r, NEW x \in Row, Within(x), NEW n \in Int, now \in Nat
  PROVE  /\ Within(NoRow) /\ Within(MaybeReset(x))
         /\ /\ AddAmountUsed(r, x, n)
            /\ \/ n >= 0 /\ CanPreConsume(AmountTotal, x.amount, n)
               \/ CanPostConsume(AmountTotal, x.amount, n)
               \/ n <= 0
            => Within(row')
         /\ /\ AddTokensUsed(r, x, n)
            /\ \/ n >= 0 /\ CanPreConsume(TokensLimit, x.tokens, n)
               \/ CanPostConsume(TokensLimit, x.tokens, n)
               \/ n <= 0
            => Within(row')
<1>1. /\ AmountTotal \in Nat /\ TokensLimit \in Nat
      /\ x.amount \in Nat /\ x.tokens \in Nat
  BY SessionConstants DEF Row
<1>2. Within(NoRow)
  BY <1>1 DEF Within, NoRow
<1>3. Within(MaybeReset(x))
  BY <1>1 DEF Within, MaybeReset, Row
<1>4. ASSUME AddAmountUsed(r, x, n),
             \/ n >= 0 /\ CanPreConsume(AmountTotal, x.amount, n)
             \/ CanPostConsume(AmountTotal, x.amount, n)
             \/ n <= 0
      PROVE  Within(row')
  <2>1. AmountTotal > 0 => ClampedUsed(x.amount, n) <= AmountTotal
    BY <1>1, <1>4, CeilingKept DEF Within
  <2>2. row' = [x EXCEPT !.amount = ClampedUsed(x.amount, n)]
    BY <1>4 DEF AddAmountUsed, SaveRow
  <2>3. row'.amount = ClampedUsed(x.amount, n) /\ row'.tokens = x.tokens
    BY <2>2 DEF Row
  <2> QED BY <2>1, <2>3 DEF Within
<1>5. ASSUME AddTokensUsed(r, x, n),
             \/ n >= 0 /\ CanPreConsume(TokensLimit, x.tokens, n)
             \/ CanPostConsume(TokensLimit, x.tokens, n)
             \/ n <= 0
      PROVE  Within(row')
  <2>1. TokensLimit > 0 => ClampedUsed(x.tokens, n) <= TokensLimit
    BY <1>1, <1>5, CeilingKept DEF Within
  <2>2. row' = [x EXCEPT !.tokens = ClampedUsed(x.tokens, n)]
    BY <1>5 DEF AddTokensUsed, SaveRow
  <2>3. row'.tokens = ClampedUsed(x.tokens, n) /\ row'.amount = x.amount
    BY <2>2 DEF Row
  <2> QED BY <2>1, <2>3 DEF Within
<1> QED
  BY <1>2, <1>3, <1>4, <1>5

\* Every step of a request leaves a row within the ceilings ...
LEMMA StepWithinRow ==
  ASSUME TypeOK, CeilingInv, NEW r \in Requests, Step(r)
  PROVE  Within(row')
<1>1. MoneyType /\ ControlType /\ now \in Nat /\ Within(row) /\ CeilingOf(r)
  BY Numbers DEF TypeOK, CeilingInv
<1>2. /\ s[r].copy \in Row /\ feeCopy[r] \in Row /\ Within(s[r].copy) /\ Within(feeCopy[r])
      /\ s[r].pre \in Nat /\ s[r].consumed \in Nat /\ SubConsume(s[r].est) \in Nat
      /\ Delta(r) \in Int /\ TokensDelta(r) \in Int /\ Fee \in Nat
      /\ -s[r].consumed \in Int /\ -s[r].consumed <= 0
  BY <1>1, Amounts DEF CeilingOf
<1> DEFINE Saves ==
      \/ UNCHANGED row
      \/ AddTokensUsed(r, s[r].copy, SubConsume(s[r].est)) /\ pc[r] = "savePreTokens"
      \/ AddAmountUsed(r, s[r].copy, s[r].pre) /\ pc[r] = "savePre"
      \/ SaveSettled(r) /\ pc[r] = "saveSettle"
      \/ AddAmountUsed(r, s[r].copy, -s[r].consumed)
      \/ AddAmountUsed(r, feeCopy[r], Fee) /\ feePc[r] = "save"
<1>3. /\ NoMoney => UNCHANGED row
      /\ \A n : TakeQuota(r, n) \/ TakeToken(r, n) => UNCHANGED row
  BY DEF NoMoney, money, TakeQuota, TakeToken
<1>4. Saves
  <2>1. CASE Open(r)
    BY <1>3, <2>1 DEF Open, Choose, TryWallet, TrySubscription, PreConsumeTokens,
                      SavePreTokens, CheckToken, DecreaseToken, PreConsumeWallet,
                      PreConsumeSubscription, SavePre, Rollback
  <2>2. CASE Close(r)
    BY <1>3, <2>2 DEF Close, SettleTokens, SettleFunding, SaveSettle, SettleToken,
                      RefundWallet, RefundSubscription, SaveRefund, RefundRecord,
                      RefundTokenQuota
  <2>3. CASE Upstream(r) \/ ChargeFees(r)
    BY <1>3, <2>3 DEF Upstream, RelaySucceeds, RelayFails, ChargeFees, ChargeFee, SaveFee,
                      ChargeFeeToken, PostConsumeToken
  <2>4. CASE Errors(r)
    BY <1>3, <2>4 DEF Errors, PreConsumeTokensError, DecreaseTokenError,
                      PreConsumeWalletError, PreConsumeSubscriptionError, RollbackError,
                      SettleError, SettleTokenError, RefundWalletError,
                      RefundSubscriptionError, RefundRecordError, RefundTokenError,
                      ChargeFeeError, PostConsumeToken, DBError
  <2>5. ASSUME NEW pref, NEW kind, NEW est, Arrive(r, pref, kind, est)
        PROVE  Saves
    BY <1>3, <2>5 DEF Arrive
  <2> QED BY <2>1, <2>2, <2>3, <2>4, <2>5 DEF Step
<1>5. CASE UNCHANGED row
  BY <1>1, <1>5
<1>6. CASE AddTokensUsed(r, s[r].copy, SubConsume(s[r].est)) /\ pc[r] = "savePreTokens"
  BY <1>1, <1>2, <1>6, SavesWithin DEF CeilingOf
<1>7. CASE AddAmountUsed(r, s[r].copy, s[r].pre) /\ pc[r] = "savePre"
  BY <1>1, <1>2, <1>7, SavesWithin DEF CeilingOf
<1>8. CASE SaveSettled(r) /\ pc[r] = "saveSettle"
  BY <1>1, <1>2, <1>8, SavesWithin DEF CeilingOf, SaveSettled
<1>9. CASE AddAmountUsed(r, s[r].copy, -s[r].consumed)
  BY <1>1, <1>2, <1>9, SavesWithin
<1>10. CASE AddAmountUsed(r, feeCopy[r], Fee) /\ feePc[r] = "save"
  BY <1>1, <1>2, <1>10, SavesWithin DEF CeilingOf
<1> QED
  BY <1>4, <1>5, <1>6, <1>7, <1>8, <1>9, <1>10

\* ... and a copy within them, checked for the change that is to be saved.
LEMMA StepCeilingOf ==
  ASSUME TypeOK, CeilingInv, NEW r \in Requests, Step(r)
  PROVE  CeilingOf(r)'
<1>1. MoneyType /\ ControlType /\ now \in Nat /\ Within(row) /\ CeilingOf(r) /\ row \in Row
  BY Numbers DEF TypeOK, CeilingInv, MoneyType
<1>2. s[r] \in Session /\ Within(NoRow) /\ Within(MaybeReset(row))
  <2>1. 0 \in Int OBVIOUS
  <2> QED BY <1>1, <2>1, Amounts, SavesWithin
<1> DEFINE SameCopy == s'[r].copy = s[r].copy \/ s'[r].copy = NoRow
           SameFee  == feePc'[r] = feePc[r] /\ feeCopy'[r] = feeCopy[r]
           Saving   == {"savePre", "savePreTokens", "saveSettle"}
<1>3. ASSUME SameCopy, SameFee, pc'[r] \notin Saving PROVE CeilingOf(r)'
  BY <1>1, <1>2, <1>3 DEF CeilingOf
<1> USE DEF Goto
<1>4. CASE Open(r) /\ ~PreConsumeTokens(r) /\ ~PreConsumeSubscription(r)
  <2>1. SameFee /\ pc'[r] \notin Saving
    BY <1>1, <1>4 DEF Open, Choose, TryWallet, TrySubscription, PreConsumeTokens,
                      SavePreTokens, CheckToken, DecreaseToken, PreConsumeWallet,
                      PreConsumeSubscription, SavePre, Rollback, others, ControlType,
                      AfterShort, AfterRollback
  <2>2. SameCopy
    BY <1>1, <1>2, <1>4 DEF Open, Choose, TryWallet, TrySubscription, PreConsumeTokens,
                            SavePreTokens, CheckToken, DecreaseToken, PreConsumeWallet,
                            PreConsumeSubscription, SavePre, Rollback, ControlType,
                            Session
  <2> QED BY <1>3, <2>1, <2>2
<1>5. CASE PreConsumeTokens(r)
  <2>1. \/ SameCopy /\ pc'[r] \notin Saving
        \/ /\ pc'[r] = "savePreTokens" /\ s'[r].copy = row /\ s'[r].est = s[r].est
           /\ CanPreConsume(TokensLimit, row.tokens, SubConsume(s[r].est))
    BY <1>1, <1>2, <1>5 DEF PreConsumeTokens, ControlType, Session, AfterShort
  <2>2. SameFee
    BY <1>5 DEF PreConsumeTokens, others
  <2> QED BY <1>1, <1>3, <2>1, <2>2 DEF CeilingOf
<1>6. CASE PreConsumeSubscription(r)
  <2>1. \/ SameCopy /\ pc'[r] \notin Saving
        \/ /\ pc'[r] = "savePre" /\ s'[r].copy = MaybeReset(row) /\ s'[r].pre = s[r].pre
           /\ CanPreConsume(AmountTotal, MaybeReset(row).amount, s[r].pre)
    BY <1>1, <1>2, <1>6 DEF PreConsumeSubscription, ControlType, Session
  <2>2. SameFee
    BY <1>6 DEF PreConsumeSubscription, others
  <2> QED BY <1>1, <1>2, <1>3, <2>1, <2>2 DEF CeilingOf
<1>7. CASE Close(r) /\ ~SettleTokens(r) /\ ~SettleFunding(r)
  <2>1. SameFee /\ pc'[r] \notin Saving
    BY <1>1, <1>7 DEF Close, SettleTokens, SettleFunding, SaveSettle, SettleToken,
                      RefundWallet, RefundSubscription, SaveRefund, RefundRecord,
                      RefundTokenQuota, others, ControlType
  <2>2. SameCopy \/ (s'[r].copy = row /\ pc'[r] = "saveRefund")
    BY <1>1, <1>2, <1>7 DEF Close, SettleTokens, SettleFunding, SaveSettle, SettleToken,
                            RefundWallet, RefundSubscription, SaveRefund, RefundRecord,
                            RefundTokenQuota, ControlType, Session
  <2> QED BY <1>1, <1>3, <2>1, <2>2 DEF CeilingOf
<1>8. CASE SettleTokens(r)
  <2>1. \/ SameCopy /\ pc'[r] \notin Saving
        \/ /\ pc'[r] = "saveSettle" /\ s'[r].copy = row /\ s'[r].funding = s[r].funding
           /\ s[r].funding = "tokens"
           /\ s'[r].cost = s[r].cost /\ s'[r].consumed = s[r].consumed
           /\ CanPostConsume(TokensLimit, row.tokens, TokensDelta(r))
    BY <1>1, <1>2, <1>8 DEF SettleTokens, ControlType, Session, SettlesTokens
  <2>2. SameFee
    BY <1>8 DEF SettleTokens, others
  <2> QED BY <1>1, <1>3, <2>1, <2>2 DEF CeilingOf, TokensDelta
<1>9. CASE SettleFunding(r)
  <2>1. \/ SameCopy /\ pc'[r] \notin Saving
        \/ /\ pc'[r] = "saveSettle" /\ s'[r].copy = row /\ s'[r].funding = "sub"
           /\ s'[r].cost = s[r].cost /\ s'[r].pre = s[r].pre
           /\ CanPostConsume(AmountTotal, row.amount, Delta(r))
    BY <1>1, <1>2, <1>9 DEF SettleFunding, ControlType, Session
  <2>2. SameFee
    BY <1>9 DEF SettleFunding, others
  <2> QED BY <1>1, <1>3, <2>1, <2>2 DEF CeilingOf, Delta
<1>10. CASE Upstream(r)
  <2>1. SameFee \/ (feeCopy'[r] = feeCopy[r] /\ feePc'[r] # "save")
    BY <1>1, <1>2, <1>10
       DEF Upstream, RelaySucceeds, RelayFails, ControlType, Session, others
  <2>2. SameCopy /\ pc'[r] \notin Saving
    BY <1>1, <1>2, <1>10 DEF Upstream, RelaySucceeds, RelayFails, ControlType, Session
  <2> QED BY <1>1, <1>2, <2>1, <2>2 DEF CeilingOf
<1>11. CASE ChargeFees(r) \/ ChargeFeeError(r)
  <2>1. pc'[r] = pc[r] /\ s'[r] = s[r]
    BY <1>11 DEF ChargeFees, ChargeFee, SaveFee, ChargeFeeToken, ChargeFeeError
  <2>2. \/ feePc'[r] # "save" /\ (feeCopy'[r] = feeCopy[r] \/ feeCopy'[r] = NoRow)
        \/ feeCopy'[r] = row /\ CanPostConsume(AmountTotal, row.amount, Fee)
    BY <1>1, <1>11 DEF ChargeFees, ChargeFee, SaveFee, ChargeFeeToken, ChargeFeeError,
                       FeeGoto, ControlType
  <2> QED BY <1>1, <1>2, <2>1, <2>2 DEF CeilingOf, Delta, TokensDelta
<1>12. CASE Errors(r) /\ ~ChargeFeeError(r)
  <2>1. SameFee /\ pc'[r] \notin Saving
    BY <1>1, <1>12 DEF Errors, PreConsumeTokensError, DecreaseTokenError,
                       PreConsumeWalletError, PreConsumeSubscriptionError, RollbackError,
                       SettleError, SettleTokenError, RefundWalletError,
                       RefundSubscriptionError, RefundRecordError, RefundTokenError,
                       ChargeFeeError, others, ControlType, AfterShort, AfterRollback,
                       AfterAttempt
  <2>2. SameCopy
    <3>1. CASE PreConsumeSubscriptionError(r)
      <4>1. \/ s' = [s EXCEPT ![r].copy = NoRow]
            \/ \E reason : s' = [s EXCEPT ![r].reason = reason]
        BY <3>1 DEF PreConsumeSubscriptionError
      <4> QED BY <1>1, <1>2, <4>1 DEF ControlType, Session
    <3>5. CASE PreConsumeTokensError(r)
      <4>1. s' = [s EXCEPT ![r].copy = NoRow]
        BY <3>5 DEF PreConsumeTokensError
      <4> QED BY <1>1, <1>2, <4>1 DEF ControlType, Session
    <3>6. CASE RollbackError(r)
      <4>1. s' = [s EXCEPT ![r].tokenConsumed = 0, ![r].reason = "none"]
        BY <3>6 DEF RollbackError
      <4> QED BY <1>1, <1>2, <4>1 DEF ControlType, Session
    <3>2. CASE RefundSubscriptionError(r) \/ SettleError(r)
      BY <1>1, <1>2, <3>2 DEF RefundSubscriptionError, SettleError, ControlType, Session
    <3>3. CASE RefundRecordError(r)
      BY <1>1, <1>2, <3>3 DEF RefundRecordError, ControlType, Session
    <3>4. UNCHANGED s => SameCopy
      OBVIOUS
    <3> QED
      BY <1>12, <3>1, <3>2, <3>3, <3>4, <3>5, <3>6
         DEF Errors, DecreaseTokenError, PreConsumeWalletError, SettleTokenError,
             RefundWalletError, RefundTokenError
  <2> QED BY <1>3, <2>1, <2>2
<1>13. ASSUME NEW pref, NEW kind, NEW est, Arrive(r, pref, kind, est)
       PROVE  CeilingOf(r)'
  <2>1. SameCopy /\ SameFee /\ pc'[r] \notin Saving
    BY <1>1, <1>2, <1>13 DEF Arrive, ControlType, NewSession, others
  <2> QED BY <1>3, <2>1
<1> QED
  BY <1>4, <1>5, <1>6, <1>7, <1>8, <1>9, <1>10, <1>11, <1>12, <1>13
     DEF Step, Open, Close

\* WithinTotal, for every ceiling, any number of concurrent requests and failing
\* calls, and whatever the saves of other transactions overwrite.
THEOREM CeilingHolds == Spec => []WithinTotal
<1>1. Init => CeilingInv
  <2> SUFFICES ASSUME Init PROVE CeilingInv
    OBVIOUS
  <2>1. Within(NoRow) /\ Within(row)
    BY SessionConstants DEF Init, Within, NoRow
  <2>2. resetCopy = NoRow /\ \A r \in Requests : /\ pc[r] = "idle" /\ feePc[r] = "none"
                                                 /\ s[r].copy = NoRow /\ feeCopy[r] = NoRow
    BY DEF Init, NewSession
  <2> QED BY <2>1, <2>2 DEF CeilingInv, CeilingOf
<1>2. TypeOK /\ CeilingInv /\ [Next]_vars => CeilingInv'
  <2> SUFFICES ASSUME TypeOK, CeilingInv, [Next]_vars PROVE CeilingInv'
    OBVIOUS
  <2>1. ASSUME NEW r \in Requests, Step(r) PROVE CeilingInv'
    <3>1. Within(row') /\ CeilingOf(r)'
      BY <2>1, StepWithinRow, StepCeilingOf
    <3>2. Frame(r) /\ resetCopy' = resetCopy
      BY <2>1, StepFrame, StepFaults DEF task
    <3>3. \A q \in Requests \ {r} : CeilingOf(q)'
      BY <3>2 DEF Frame, CeilingInv, CeilingOf, Delta, TokensDelta
    <3> QED BY <3>1, <3>2, <3>3 DEF CeilingInv
  <2>2. CASE Lifecycle
    <3>1. UNCHANGED <<pc, s, feePc, feeCopy>>
      BY <2>2, LifecycleType
    <3>2. \A r \in Requests : CeilingOf(r)'
      BY <3>1 DEF CeilingInv, CeilingOf, Delta, TokensDelta
    <3>3. /\ row \in Row /\ resetCopy \in Row /\ Within(row) /\ Within(resetCopy)
          /\ Within(NoRow) /\ Within(MaybeReset(row))
      <4>1. 0 \in Int /\ now \in Nat /\ row \in Row BY DEF TypeOK
      <4> QED BY <4>1, SavesWithin DEF TypeOK, CeilingInv
    <3>4. Within(row') /\ Within(resetCopy')
      <4>1. CASE Tick
        BY <3>3, <4>1 DEF Tick, NoMoney, money
      <4>2. CASE AdminInvalidate
        BY <3>3, <4>2 DEF AdminInvalidate, Within, Row, task
      <4>3. CASE ResetDueSubscriptions
        BY <3>3, <4>3 DEF ResetDueSubscriptions, NoMoney, money
      <4>4. CASE SaveReset
        BY <3>3, <4>4 DEF SaveReset, SaveRow
      <4> QED BY <2>2, <4>1, <4>2, <4>3, <4>4 DEF Lifecycle
    <3> QED BY <3>2, <3>4 DEF CeilingInv
  <2>3. CASE UNCHANGED vars
    BY <2>3 DEF vars, money, task, CeilingInv, CeilingOf, Delta, TokensDelta
  <2> QED
    BY <2>1, <2>2, <2>3 DEF Next, Finished
<1>3. CeilingInv => WithinTotal
  BY DEF CeilingInv, Within, WithinTotal
<1> QED
  BY <1>1, <1>2, <1>3, TypeCorrect, PTL DEF Spec

-----------------------------------------------------------------------------
(* The theorems.                                                           *)

\* Every step of a request keeps the inductive invariant.
LEMMA StepInv ==
  ASSUME IInv, NEW r \in Requests, Step(r)
  PROVE  IInv'
<1>1. TypeOK /\ SessionInv(r)
  BY DEF IInv
<1>2. TypeOK'
  BY <1>1, StepType
<1>3. SessionInv(r)'
  BY <1>1, ArriveInv, OpenInv, UpstreamInv, CloseInv, FeeInv, ErrorInv, FeeErrorInv
     DEF Step
<1>4. Frame(r)
  BY <1>1, StepFrame
<1>5. \A q \in Requests \ {r} : SessionInv(q)'
  BY <1>4, FrameKeeps DEF IInv
<1>6. faults' = 0 => faulty' = {}
  <2>1. faults \in Nat BY <1>1 DEF TypeOK
  <2> QED BY <2>1, StepFaults DEF IInv
<1> QED
  BY <1>2, <1>3, <1>5, <1>6 DEF IInv

\* A step that leaves the sessions and their books alone keeps it.
LEMMA IdleInv ==
  ASSUME IInv, TypeOK', UNCHANGED <<pc, s, feePc, taken, faults, faulty>>
  PROVE  IInv'
<1>1. ASSUME NEW r \in Requests PROVE SessionInv(r)'
  <2> USE DEF IInv, SessionInv, Untouched, Playground, SettlesTokens, FeeTaken,
              FeeTokenTaken
  <2>1. SourceOf(r)' /\ Stages(r)' BY DEF SourceOf, Stages
  <2>2. HeldAtLeast(r)' /\ Charged(r)' BY DEF HeldAtLeast, Charged
  <2>3. NoResidueOf(r)' BY DEF NoResidueOf
  <2>4. r \notin faulty' => Exact(r)'
    BY DEF Exact, WalletLedger, SubLedger, TokensLedger, TokenLedger
  <2> QED BY <2>1, <2>2, <2>3, <2>4
<1> QED
  BY <1>1 DEF IInv

\* The inductive invariant holds initially.
LEMMA InitInv == Init => IInv
<1> SUFFICES ASSUME Init PROVE IInv
  OBVIOUS
<1>1. ASSUME NEW r \in Requests
      PROVE  SessionInv(r)
  BY DEF Init, NewSession, NothingTaken, SessionInv, SourceOf, Stages, Untouched,
         HeldAtLeast, Charged, NoResidueOf, Exact, WalletLedger, SubLedger, TokensLedger,
         TokenLedger, Playground, SettlesTokens, FeeTaken, FeeTokenTaken, Opening, Before,
         Settling, Returning, Holding, TokenHeld, Refunding
<1> QED
  BY <1>1, InitType DEF IInv, Init

\* The inductive invariant holds of every behaviour of the specification.
THEOREM SessionInvariant == Spec => []IInv
<1>1. Init => IInv
  BY InitInv
<1>2. IInv /\ [Next]_vars => IInv'
  <2> SUFFICES ASSUME IInv, [Next]_vars PROVE IInv'
    OBVIOUS
  <2>1. ASSUME NEW r \in Requests, Step(r) PROVE IInv'
    BY <2>1, StepInv
  <2>2. CASE Lifecycle
    BY <2>2, LifecycleType, IdleInv DEF IInv
  <2>3. CASE UNCHANGED vars
    <3>1. TypeOK' BY <2>3 DEF IInv, TypeOK, vars, money, task
    <3> QED BY <2>3, <3>1, IdleInv DEF vars, money
  <2> QED
    BY <2>1, <2>2, <2>3 DEF Next, Finished
<1> QED
  BY <1>1, <1>2, PTL DEF Spec

\* WalletExact: a settled session has paid the wallet its cost, whichever calls
\* failed, and a failed one nothing but its fee, however many requests interleave
\* and whichever calls of the other requests fail.
THEOREM WalletIsExact == Spec => []WalletExact
<1>1. ASSUME IInv, NEW r \in Requests, s[r].funding = "wallet"
      PROVE  /\ pc[r] = "settled" => taken[r].wallet = s[r].cost
             /\ pc[r] \in {"failed", "rejected"} /\ r \notin faulty =>
                   taken[r].wallet = FeeTaken(r)
  <2>1. /\ Charged(r) /\ (feePc[r] # "none" => pc[r] \in Refunding)
        /\ r \notin faulty => WalletLedger(r)
    BY <1>1 DEF IInv, SessionInv, Stages, Exact
  <2>2. pc[r] = "rejected" => FeeTaken(r) = 0
    BY <2>1 DEF FeeTaken, Refunding, Returning
  <2> QED BY <1>1, <2>1, <2>2 DEF WalletLedger, Charged
<1>2. IInv => WalletExact
  BY <1>1 DEF WalletExact
<1> QED
  BY <1>2, SessionInvariant, PTL

\* TokenExact: the same for the token's allowance, through pre-consumption,
\* rollback, fallback, settlement and refund.
THEOREM TokenIsExact == Spec => []TokenExact
<1>1. ASSUME IInv, NEW r \in Requests, r \notin faulty
      PROVE  /\ pc[r] = "settled" /\ s[r].funding \in {"wallet", "sub"} =>
                   taken[r].token = IF Playground(r) THEN 0 ELSE s[r].cost
             /\ pc[r] = "settled" /\ SettlesTokens(r) => taken[r].token = 0
             /\ pc[r] \in {"failed", "rejected"} => taken[r].token = FeeTokenTaken(r)
  <2>1. TokenLedger(r) /\ (feePc[r] # "none" => pc[r] \in Refunding)
    BY <1>1 DEF IInv, SessionInv, Stages, Exact
  <2>2. Playground(r) => taken[r].token = 0 /\ FeeTokenTaken(r) = 0
    BY <1>1 DEF IInv, SessionInv, HeldAtLeast, FeeTokenTaken
  <2>3. pc[r] = "rejected" => FeeTokenTaken(r) = 0
    BY <2>1 DEF FeeTokenTaken, Refunding, Returning
  <2> QED BY <2>1, <2>2, <2>3 DEF TokenLedger
<1>2. IInv => TokenExact
  BY <1>1 DEF TokenExact
<1> QED
  BY <1>2, SessionInvariant, PTL

\* SubscriptionExact: what the transactions of a session ask of its subscription
\* adds up to its cost, to its fee or, billed in tokens, to what is not refunded;
\* this holds of the session's own saves, however many are lost to others.
THEOREM SubscriptionIsExact == Spec => []SubscriptionExact
<1>1. ASSUME IInv, NEW r \in Requests
      PROVE  /\ pc[r] = "settled" /\ s[r].funding = "sub" => taken[r].sub = s[r].cost
             /\ pc[r] = "settled" /\ s[r].funding = "tokens" =>
                   taken[r].tokens = IF SettlesTokens(r) THEN s[r].cost ELSE s[r].consumed
             /\ pc[r] \in {"failed", "rejected"} /\ r \notin faulty =>
                   /\ s[r].funding = "sub" => taken[r].sub = FeeTaken(r)
                   /\ s[r].funding = "tokens" => taken[r].tokens = s[r].consumed
  <2>1. /\ Charged(r) /\ (feePc[r] # "none" => pc[r] \in Refunding)
        /\ r \notin faulty => SubLedger(r) /\ TokensLedger(r)
    BY <1>1 DEF IInv, SessionInv, Stages, Exact
  <2>2. pc[r] = "rejected" => FeeTaken(r) = 0
    BY <2>1 DEF FeeTaken, Refunding, Returning
  <2> QED BY <2>1, <2>2 DEF SubLedger, TokensLedger, Charged
<1>2. IInv => SubscriptionExact
  BY <1>1 DEF SubscriptionExact
<1> QED
  BY <1>2, SessionInvariant, PTL

\* NoResidue: the fallback of NewBillingSession never charges two sources.
THEOREM FallbackLeavesNothing == Spec => []NoResidue
<1>1. IInv => NoResidue
  BY DEF IInv, SessionInv, NoResidueOf, NoResidue
<1> QED
  BY <1>1, SessionInvariant, PTL

\* NeverOverRefunded: no sequence of failing calls makes a session give the
\* wallet or the token more than it took.
THEOREM RefundsAreBounded == Spec => []NeverOverRefunded
<1>1. IInv => NeverOverRefunded
  BY DEF IInv, SessionInv, HeldAtLeast, NeverOverRefunded
<1> QED
  BY <1>1, SessionInvariant, PTL

=============================================================================
