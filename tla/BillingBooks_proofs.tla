------------------------- MODULE BillingBooks_proofs ------------------------
(***************************************************************************)
(* The books behind BillingSession, for any number of requests: the wallet *)
(* is what the sessions took from it, unit by unit, and so are the         *)
(* counters of the subscription, as long as no save replaced a row other   *)
(* than the one it had read.  From that follow the balance of the wallet   *)
(* and of the counters, whose clamp at 0 could otherwise eat into another  *)
(* request's hold, and the refinement of QuotaHold, which speaks of what   *)
(* the sessions ask for and needs neither.                                 *)
(*                                                                         *)
(* A sum over the requests is the number of the units they hold: what a    *)
(* step does to it follows from the cardinality of finite sets.            *)
(***************************************************************************)
EXTENDS BillingSession_proofs, FunctionTheorems, FiniteSetTheorems

\* n units are booked by f.
Booked(f, n) == IsFiniteSet(Units(f)) /\ Cardinality(Units(f)) = n

WalletOf == [r \in Requests |-> taken[r].wallet]
SubOf    == [r \in Requests |-> taken[r].sub]
TokensOf == [r \in Requests |-> taken[r].tokens]

\* The wallet has lost what the sessions took, whichever calls failed.
WalletBooked == Booked(WalletOf, InitQuota - quota)

\* The counters of the row are what the sessions asked for ...
CountersBooked == Booked(SubOf, row.amount) /\ Booked(TokensOf, row.tokens)

\* ... if no call failed and no save overwrote another one or a reset.
CountersInv == faults = 0 /\ intact => CountersBooked

BooksInv == IInv /\ WalletBooked /\ CountersInv

-----------------------------------------------------------------------------
(* Counting units.                                                         *)

\* A request has as many units as f says.
LEMMA OneBooks ==
  ASSUME NEW r, NEW n \in Nat
  PROVE  IsFiniteSet({r} \X (1..n)) /\ Cardinality({r} \X (1..n)) = n
<1> DEFINE line == {r} \X (1..n)
           unit == [k \in 1..n |-> <<r, k>>]
<1>1. unit \in Bijection(1..n, line)
  <2>1. unit \in [1..n -> line]
    OBVIOUS
  <2>2. \A a, b \in 1..n : unit[a] = unit[b] => a = b
    OBVIOUS
  <2>3. \A t \in line : \E k \in 1..n : unit[k] = t
    OBVIOUS
  <2> QED BY <2>1, <2>2, <2>3, Fun_IsBij
<1>2. ExistsBijection(1..n, line)
  BY <1>1 DEF ExistsBijection
<1>3. IsFiniteSet(1..n) /\ Cardinality(1..n) = n
  BY FS_Interval
<1> QED
  BY <1>2, <1>3, FS_Bijection

\* What happens to the number of units when r books n instead of f[r].
LEMMA UnitsMove ==
  ASSUME NEW f \in [Requests -> Nat], NEW m, Booked(f, m),
         NEW r \in Requests, NEW n \in Nat
  PROVE  /\ m \in Nat /\ f[r] <= m
         /\ Booked([f EXCEPT ![r] = n], m - f[r] + n)
<1> DEFINE g == [f EXCEPT ![r] = n]
           mine == {r} \X (1 .. f[r])
           new == {r} \X (1..n)
           rest == Units(f) \ mine
<1>1. mine \subseteq Units(f)
  BY DEF Units
<1>2. /\ IsFiniteSet(mine) /\ Cardinality(mine) = f[r]
      /\ IsFiniteSet(new) /\ Cardinality(new) = n
  <2>1. f[r] \in Nat OBVIOUS
  <2> QED BY <2>1, OneBooks
<1>3. IsFiniteSet(Units(f)) /\ Cardinality(Units(f)) = m /\ m \in Nat
  BY FS_CardinalityType DEF Booked
<1>4. IsFiniteSet(rest) /\ Cardinality(rest) = m - f[r]
  <2>1. Units(f) \cap mine = mine BY <1>1
  <2>2. /\ IsFiniteSet(rest)
        /\ Cardinality(rest) = Cardinality(Units(f)) - Cardinality(Units(f) \cap mine)
    BY <1>3, FS_Difference
  <2> HIDE DEF rest, mine
  <2> QED BY <1>2, <1>3, <2>1, <2>2
<1>5. Cardinality(rest) \in Nat
  BY <1>4, FS_CardinalityType
<1>6. Units(g) = rest \cup new
  <2>1. ASSUME NEW u \in Units(g) PROVE u \in rest \cup new
    <3>1. PICK q \in Requests : u \in {q} \X (1 .. g[q])
      BY DEF Units
    <3>2. CASE q = r
      BY <3>1, <3>2
    <3>3. CASE q # r
      <4>1. u \in {q} \X (1 .. f[q]) /\ u[1] = q
        BY <3>1, <3>3
      <4>2. u \in Units(f) BY <4>1 DEF Units
      <4>3. u \notin mine BY <3>3, <4>1
      <4> QED BY <4>2, <4>3
    <3> QED BY <3>2, <3>3
  <2>2. ASSUME NEW u \in rest PROVE u \in Units(g)
    <3>1. PICK q \in Requests : u \in {q} \X (1 .. f[q])
      BY DEF Units
    <3>2. q # r BY <3>1
    <3>3. u \in {q} \X (1 .. g[q]) BY <3>1, <3>2
    <3> QED BY <3>3 DEF Units
  <2>3. ASSUME NEW u \in new PROVE u \in Units(g)
    <3>1. u \in {r} \X (1 .. g[r]) OBVIOUS
    <3> QED BY <3>1 DEF Units
  <2> QED BY <2>1, <2>2, <2>3
<1>7. rest \cap new = {}
  <2>1. ASSUME NEW u \in rest, u \in new PROVE FALSE
    <3>1. PICK q \in Requests : u \in {q} \X (1 .. f[q])
      BY DEF Units
    <3>2. q = r BY <2>1, <3>1
    <3> QED BY <3>1, <3>2
  <2> QED BY <2>1
<1>8. IsFiniteSet(Units(g)) /\ Cardinality(Units(g)) = m - f[r] + n
  <2>1. /\ IsFiniteSet(rest \cup new)
        /\ Cardinality(rest \cup new)
             = Cardinality(rest) + Cardinality(new) - Cardinality(rest \cap new)
    BY <1>2, <1>4, FS_Union
  <2>2. Cardinality(rest \cap new) = 0 BY <1>7, FS_EmptySet
  <2> HIDE DEF rest, new, g
  <2> QED BY <1>2, <1>3, <1>4, <1>5, <1>6, <2>1, <2>2
<1>9. f[r] \in Nat /\ f[r] <= m
  <2>1. f[r] \in Nat OBVIOUS
  <2> HIDE DEF rest
  <2> QED BY <1>3, <1>4, <1>5, <2>1
<1> QED
  BY <1>3, <1>8, <1>9 DEF Booked

\* Nobody has booked anything.
LEMMA NoUnits == Booked([r \in Requests |-> 0], 0)
<1>1. Units([r \in Requests |-> 0]) = {}
  BY DEF Units
<1> QED
  BY <1>1, FS_EmptySet DEF Booked

\* What a step takes from users.quota it books for its request.
LEMMA StepWallet ==
  ASSUME IInv, IInv', WalletBooked, NEW r \in Requests, Moves(r)
  PROVE  WalletBooked'
<1>1. /\ MoneyType /\ quota \in Int /\ InitQuota \in Nat
      /\ \A q \in Requests : taken[q] \in Ledger /\ taken[q].wallet \in Nat
      /\ \A q \in Requests : taken'[q] \in Ledger /\ taken'[q].wallet \in Nat
  BY SessionConstants
     DEF IInv, TypeOK, MoneyType, SessionInv, HeldAtLeast, Ledger
<1>2. WalletOf \in [Requests -> Nat]
  BY <1>1 DEF WalletOf
<1>3. CASE WalletOf' = WalletOf /\ quota' = quota
  BY <1>3 DEF WalletBooked, Booked, Units
<1>4. ASSUME NEW n \in Int, TakeQuota(r, n) PROVE WalletBooked'
  <2>1. WalletOf' = [WalletOf EXCEPT ![r] = taken'[r].wallet]
    BY <1>1, <1>4 DEF TakeQuota, WalletOf, MoneyType, Ledger
  <2>2. taken'[r].wallet = taken[r].wallet + n /\ quota' = quota - n
    BY <1>1, <1>4 DEF TakeQuota, MoneyType, Ledger
  <2>3. Booked([WalletOf EXCEPT ![r] = taken'[r].wallet],
               (InitQuota - quota) - WalletOf[r] + taken'[r].wallet)
    BY <1>1, <1>2, UnitsMove DEF WalletBooked
  <2>4. (InitQuota - quota) - WalletOf[r] + taken'[r].wallet = InitQuota - quota'
    BY <1>1, <2>2 DEF WalletOf
  <2> QED BY <2>1, <2>3, <2>4 DEF WalletBooked, Booked, Units
<1>5. NoMoney => WalletOf' = WalletOf /\ quota' = quota
  BY DEF NoMoney, money, WalletOf
<1>6. ASSUME NEW n \in Int, NEW x \in Row,
             TakeToken(r, n) \/ AddAmountUsed(r, x, n) \/ AddTokensUsed(r, x, n)
      PROVE  WalletOf' = WalletOf /\ quota' = quota
  <2>1. quota' = quota
    BY <1>6 DEF TakeToken, AddAmountUsed, AddTokensUsed
  <2>2. \A q \in Requests : taken'[q].wallet = taken[q].wallet
    BY <1>1, <1>6 DEF TakeToken, AddAmountUsed, AddTokensUsed, MoneyType, Ledger
  <2> QED BY <2>1, <2>2 DEF WalletOf
<1>7. NoRow \in Row
  BY DEF NoRow, Row
<1> QED
  BY <1>3, <1>4, <1>5, <1>6, <1>7 DEF Moves


-----------------------------------------------------------------------------
(* The counters of the subscription.                                       *)

\* A session that met no failing call has never given its subscription back more
\* than it took.
CountersNat ==
    \A r \in Requests : r \notin faulty => taken[r].sub \in Nat /\ taken[r].tokens \in Nat

\* It follows from the ledgers of the session.
LEMMA NonNegative == IInv => CountersNat
<1> SUFFICES ASSUME IInv, NEW r \in Requests, r \notin faulty
             PROVE  taken[r].sub \in Nat /\ taken[r].tokens \in Nat
  BY DEF CountersNat
<1>1. /\ SourceOf(r) /\ Stages(r) /\ Charged(r) /\ NoResidueOf(r)
      /\ WalletLedger(r) /\ SubLedger(r) /\ TokensLedger(r)
  BY DEF IInv, SessionInv, Exact
<1>2. /\ pc[r] \in PCs /\ s[r].funding \in Fundings /\ s[r].cost \in Nat
      /\ s[r].consumed \in Nat /\ FeeTaken(r) \in Nat
  BY SessionConstants DEF IInv, TypeOK, Session, FeeTaken
<1>3. CASE s[r].funding \in {"none", "wallet"} \/ pc[r] \in Before
  BY <1>1, <1>3 DEF SourceOf, Stages, NoResidueOf, Untouched
<1>4. CASE s[r].funding = "sub" /\ pc[r] \notin Before
  <2>1. taken[r].tokens = 0
    BY <1>1, <1>4 DEF NoResidueOf
  <2>2. pc[r] \in Settling \cup Refunding
                   \cup {"settleToken", "settled", "unsettled", "rejected", "rollback"}
    BY <1>2, <1>4 DEF PCs, Terminal, Before, Opening, Settling, Refunding, Returning
  <2>3. CASE pc[r] \in Settling \cup {"settleToken", "settled"}
    BY <1>1, <1>2, <1>4, <2>1, <2>3 DEF Charged
  <2>4. CASE pc[r] \in {"refund", "saveRefund"}
    BY <1>1, <1>2, <1>4, <2>1, <2>4 DEF SubLedger
  <2>5. CASE pc[r] \in {"refundRecord", "refundToken", "failed"}
    BY <1>1, <1>2, <1>4, <2>1, <2>5 DEF SubLedger
  <2>6. CASE pc[r] \in {"unsettled", "rejected", "rollback"}
    BY <1>1, <1>2, <1>4, <2>1, <2>6 DEF SubLedger
  <2> QED BY <2>2, <2>3, <2>4, <2>5, <2>6 DEF Refunding, Returning
<1>5. CASE s[r].funding = "tokens" /\ pc[r] \notin Before
  <2>1. taken[r].sub \in Nat
    BY <1>1, <1>2, <1>5 DEF TokensLedger
  <2>2. pc[r] \in Settling \cup {"settleToken", "settled", "failed", "unsettled", "rejected"}
    BY <1>1, <1>2, <1>5 DEF SourceOf, PCs, Terminal, Before, Opening, Settling, Returning
  <2>3. taken[r].tokens \in Nat
    BY <1>1, <1>2, <1>5, <2>2 DEF Charged, TokensLedger
  <2> QED BY <2>1, <2>3
<1> QED
  BY <1>2, <1>3, <1>4, <1>5 DEF Fundings

\* ... and so after a step.
LEMMA NonNegativeAfter == IInv' => CountersNat'
  BY NonNegative, PTL

\* As long as no session gives back more than it has, the clamp does nothing: the
\* counter is at least what the session holds.  A save of the very row it has read
\* then moves the counter and the books alike.
LEMMA CounterEffects ==
  ASSUME MoneyType, MoneyType', CountersBooked, NEW r \in Requests, NEW n \in Int,
         \A q \in Requests : taken[q].sub \in Nat /\ taken[q].tokens \in Nat,
         taken'[r].sub \in Nat, taken'[r].tokens \in Nat
  PROVE  /\ NoMoney \/ TakeQuota(r, n) \/ TakeToken(r, n) => CountersBooked'
         /\ AddAmountUsed(r, row, n) => CountersBooked'
         /\ AddTokensUsed(r, row, n) => CountersBooked'
<1>1. /\ row.amount \in Nat /\ row.tokens \in Nat /\ row \in Row
      /\ SubOf \in [Requests -> Nat] /\ TokensOf \in [Requests -> Nat]
      /\ SubOf[r] = taken[r].sub /\ TokensOf[r] = taken[r].tokens
      /\ taken \in [Requests -> Ledger] /\ taken' \in [Requests -> Ledger]
  BY DEF MoneyType, Row, SubOf, TokensOf
<1>2. SubOf' = SubOf /\ row'.amount = row.amount => Booked(SubOf, row.amount)'
  BY DEF CountersBooked, Booked, Units
<1>3. TokensOf' = TokensOf /\ row'.tokens = row.tokens => Booked(TokensOf, row.tokens)'
  BY DEF CountersBooked, Booked, Units
<1>4. ASSUME NoMoney \/ TakeQuota(r, n) \/ TakeToken(r, n)
      PROVE  CountersBooked'
  <2>1. \A q \in Requests : taken'[q].sub = taken[q].sub /\ taken'[q].tokens = taken[q].tokens
    BY <1>1, <1>4 DEF NoMoney, money, TakeQuota, TakeToken, Ledger
  <2>2. SubOf' = SubOf /\ TokensOf' = TokensOf
    BY <2>1 DEF SubOf, TokensOf
  <2>3. row' = row
    BY <1>4 DEF NoMoney, money, TakeQuota, TakeToken
  <2> QED BY <1>2, <1>3, <2>2, <2>3 DEF CountersBooked
<1>5. ASSUME AddAmountUsed(r, row, n)
      PROVE  CountersBooked'
  <2>1. Books(r, 0, 0, n, 0) /\ (\A q \in Requests \ {r} : taken'[q] = taken[q])
    BY <1>1, <1>5, MoneyEffects DEF Books
  <2>2. TokensOf' = TokensOf
    <3>1. \A q \in Requests : taken'[q].tokens = taken[q].tokens
      BY <1>1, <2>1 DEF Books, Ledger
    <3> QED BY <3>1 DEF TokensOf
  <2>3. SubOf' = [SubOf EXCEPT ![r] = taken'[r].sub]
    BY <2>1 DEF SubOf
  <2>4. row'.tokens = row.tokens /\ row'.amount = ClampedUsed(row.amount, n)
    BY <1>1, <1>5 DEF AddAmountUsed, SaveRow, Row
  <2>5. taken'[r].sub = SubOf[r] + n
    BY <1>1, <2>1 DEF Books
  <2>6. SubOf[r] <= row.amount
    BY <1>1, UnitsMove DEF CountersBooked
  <2>7. row'.amount = row.amount - SubOf[r] + taken'[r].sub
    BY <1>1, <2>4, <2>5, <2>6 DEF ClampedUsed
  <2>8. Booked([SubOf EXCEPT ![r] = taken'[r].sub], row.amount - SubOf[r] + taken'[r].sub)
    BY <1>1, UnitsMove DEF CountersBooked
  <2>9. Booked(SubOf, row.amount)'
    BY <2>3, <2>7, <2>8 DEF Booked, Units
  <2> QED BY <1>3, <2>2, <2>4, <2>9 DEF CountersBooked
<1>6. ASSUME AddTokensUsed(r, row, n)
      PROVE  CountersBooked'
  <2>1. Books(r, 0, 0, 0, n) /\ (\A q \in Requests \ {r} : taken'[q] = taken[q])
    BY <1>1, <1>6, MoneyEffects DEF Books
  <2>2. SubOf' = SubOf
    <3>1. \A q \in Requests : taken'[q].sub = taken[q].sub
      BY <1>1, <2>1 DEF Books, Ledger
    <3> QED BY <3>1 DEF SubOf
  <2>3. TokensOf' = [TokensOf EXCEPT ![r] = taken'[r].tokens]
    BY <2>1 DEF TokensOf
  <2>4. row'.amount = row.amount /\ row'.tokens = ClampedUsed(row.tokens, n)
    BY <1>1, <1>6 DEF AddTokensUsed, SaveRow, Row
  <2>5. taken'[r].tokens = TokensOf[r] + n
    BY <1>1, <2>1 DEF Books
  <2>6. TokensOf[r] <= row.tokens
    BY <1>1, UnitsMove DEF CountersBooked
  <2>7. row'.tokens = row.tokens - TokensOf[r] + taken'[r].tokens
    BY <1>1, <2>4, <2>5, <2>6 DEF ClampedUsed
  <2>8. Booked([TokensOf EXCEPT ![r] = taken'[r].tokens],
               row.tokens - TokensOf[r] + taken'[r].tokens)
    BY <1>1, UnitsMove DEF CountersBooked
  <2>9. Booked(TokensOf, row.tokens)'
    BY <2>3, <2>7, <2>8 DEF Booked, Units
  <2> QED BY <1>2, <2>2, <2>4, <2>9 DEF CountersBooked
<1> QED
  BY <1>4, <1>5, <1>6

\* A step of a request keeps the counters booked.
LEMMA StepCounters ==
  ASSUME BooksInv, IInv', NEW r \in Requests, Step(r)
  PROVE  CountersInv'
<1> SUFFICES ASSUME faults' = 0, intact' PROVE CountersBooked'
  BY DEF CountersInv
<1>1. /\ IInv /\ MoneyType /\ MoneyType' /\ ControlType /\ faults \in Nat
      /\ row \in Row /\ intact \in BOOLEAN
  BY DEF BooksInv, IInv, TypeOK, MoneyType, ControlType
<1>2. faults = 0 /\ faulty = {} /\ faulty' = {}
  BY <1>1, StepFaults DEF IInv
<1>3. Moves(r)
  BY <1>1, StepMoves
<1>4. /\ \A q \in Requests : taken[q].sub \in Nat /\ taken[q].tokens \in Nat
      /\ taken'[r].sub \in Nat /\ taken'[r].tokens \in Nat
  BY <1>1, <1>2, NonNegative, NonNegativeAfter DEF CountersNat
<1>5. /\ NoMoney => intact' = intact
      /\ \A n \in Int : TakeQuota(r, n) \/ TakeToken(r, n) => intact' = intact
      /\ \A n \in Int, x \in Row :
            AddAmountUsed(r, x, n) \/ AddTokensUsed(r, x, n) => intact /\ x = row
  BY <1>1 DEF NoMoney, money, TakeQuota, TakeToken, AddAmountUsed, AddTokensUsed, SaveRow
<1>6. intact
  BY <1>3, <1>5 DEF Moves
<1>7. CountersBooked
  BY <1>2, <1>6 DEF BooksInv, CountersInv
<1>8. ASSUME NEW n \in Int
      PROVE  /\ NoMoney \/ TakeQuota(r, n) \/ TakeToken(r, n) => CountersBooked'
             /\ AddAmountUsed(r, row, n) => CountersBooked'
             /\ AddTokensUsed(r, row, n) => CountersBooked'
  BY <1>1, <1>4, <1>7, CounterEffects
<1>9. CASE NoMoney
  <2>1. 0 \in Int OBVIOUS
  <2> QED BY <1>8, <1>9, <2>1
<1>10. CASE \E n \in Int : TakeQuota(r, n) \/ TakeToken(r, n)
  BY <1>8, <1>10
<1>11. CASE \E n \in Int, x \in Row : AddAmountUsed(r, x, n) \/ AddTokensUsed(r, x, n)
  BY <1>5, <1>8, <1>11
<1> QED
  BY <1>3, <1>9, <1>10, <1>11 DEF Moves

-----------------------------------------------------------------------------
(* The books.                                                              *)

\* Every step of a request keeps the books.
LEMMA StepBooks ==
  ASSUME BooksInv, NEW r \in Requests, Step(r)
  PROVE  BooksInv'
<1>1. IInv /\ IInv' /\ ControlType
  BY StepInv DEF BooksInv, IInv, TypeOK, ControlType
<1>2. WalletBooked'
  BY <1>1, StepMoves, StepWallet DEF BooksInv
<1>3. CountersInv'
  BY <1>1, StepCounters
<1> QED
  BY <1>1, <1>2, <1>3 DEF BooksInv

\* The books are balanced initially.
LEMMA InitBooks == Init => BooksInv
<1> SUFFICES ASSUME Init PROVE BooksInv
  OBVIOUS
<1>1. IInv
  BY InitInv
<1>2. \A r \in Requests : taken[r] = NothingTaken
  BY DEF Init
<1>3. /\ WalletOf = [r \in Requests |-> 0] /\ SubOf = [r \in Requests |-> 0]
      /\ TokensOf = [r \in Requests |-> 0]
  BY <1>2 DEF WalletOf, SubOf, TokensOf, NothingTaken
<1>4. quota = InitQuota /\ row.amount = 0 /\ row.tokens = 0 /\ InitQuota - quota = 0
  BY SessionConstants DEF Init, NoRow
<1>5. WalletBooked /\ CountersBooked
  BY <1>3, <1>4, NoUnits DEF WalletBooked, CountersBooked
<1> QED
  BY <1>1, <1>5 DEF BooksInv, CountersInv

\* So does the subscription's own life: a reset that is saved intact resets
\* nothing that was not already reset.
LEMMA IdleBooks ==
  ASSUME BooksInv, Lifecycle \/ UNCHANGED vars
  PROVE  BooksInv'
<1>1. /\ UNCHANGED <<pc, s, feePc, feeCopy, quota, remain, taken, faults, faulty>>
      /\ TypeOK'
  <2>1. CASE Lifecycle BY <2>1, LifecycleType DEF BooksInv, IInv
  <2>2. CASE UNCHANGED vars BY <2>2 DEF BooksInv, IInv, TypeOK, vars, money, task
  <2> QED BY <2>1, <2>2
<1>2. IInv'
  BY <1>1, IdleInv DEF BooksInv
<1>3. WalletBooked'
  BY <1>1 DEF BooksInv, WalletBooked, Booked, Units, WalletOf
<1>4. intact' => intact /\ row'.amount = row.amount /\ row'.tokens = row.tokens
  <2>1. row \in Row BY DEF BooksInv, IInv, TypeOK
  <2>2. CASE Tick \/ ResetDueSubscriptions
    BY <2>2 DEF Tick, ResetDueSubscriptions, NoMoney, money
  <2>3. CASE AdminInvalidate
    BY <2>1, <2>3 DEF AdminInvalidate, Row
  <2>4. CASE SaveReset
    BY <2>4 DEF SaveReset, SaveRow
  <2>5. CASE UNCHANGED vars
    BY <2>5 DEF vars, money
  <2> QED BY <2>2, <2>3, <2>4, <2>5 DEF Lifecycle
<1>5. CountersInv'
  <2> SUFFICES ASSUME faults' = 0, intact' PROVE CountersBooked'
    BY DEF CountersInv
  <2>1. CountersBooked
    BY <1>1, <1>4 DEF BooksInv, CountersInv
  <2>2. SubOf' = SubOf /\ TokensOf' = TokensOf
    BY <1>1 DEF SubOf, TokensOf
  <2> QED BY <1>4, <2>1, <2>2 DEF CountersBooked, Booked, Units
<1> QED
  BY <1>2, <1>3, <1>5 DEF BooksInv

\* BooksInv: in every reachable state users.quota has lost what the sessions took
\* from it, unit by unit, whichever database calls failed; and the counters of the
\* subscription are what the sessions asked for, if no call failed and every
\* transaction saved the very row it had read.
THEOREM BooksInvariant == Spec => []BooksInv
<1>1. BooksInv /\ [Next]_vars => BooksInv'
  BY StepBooks, IdleBooks DEF Next, Finished
<1> QED
  BY <1>1, InitBooks, PTL DEF Spec

\* What a request has paid in the end is what it has taken.
LEMMA PaidIsTaken ==
  ASSUME IInv, faults = 0, NEW r \in Requests, Ended(r)
  PROVE  /\ taken[r].wallet = QuotaPaid(r)
         /\ taken[r].sub = AmountPaid(r)
         /\ taken[r].tokens = TokensPaid(r)
<1>1. /\ SourceOf(r) /\ Stages(r) /\ Charged(r) /\ NoResidueOf(r)
      /\ WalletLedger(r) /\ SubLedger(r) /\ TokensLedger(r)
  BY DEF IInv, SessionInv, Exact
<1>2. /\ pc[r] \in Terminal /\ s[r].funding \in Fundings /\ s[r].cost \in Nat
      /\ s[r].consumed \in Nat /\ FeeTaken(r) \in Nat
  BY SessionConstants DEF Ended, IInv, TypeOK, Session, FeeTaken
<1>3. pc[r] # "failed" => FeeTaken(r) = 0
  BY <1>1, <1>2 DEF Stages, FeeTaken, Refunding, Returning, Terminal
<1>4. CASE s[r].funding = "none"
  BY <1>1, <1>2, <1>3, <1>4
     DEF SourceOf, Untouched, Opening, Terminal, QuotaPaid, AmountPaid, TokensPaid,
         SettlesTokens
<1>5. CASE s[r].funding = "wallet"
  <2>1. pc[r] \in {"settled", "failed", "rejected"}
    BY <1>1, <1>2, <1>5 DEF WalletLedger, Terminal
  <2>2. taken[r].wallet = QuotaPaid(r)
    BY <1>1, <1>2, <1>3, <1>5, <2>1 DEF WalletLedger, Charged, QuotaPaid
  <2>3. taken[r].sub = AmountPaid(r)
    BY <1>1, <1>2, <1>5, <2>1 DEF NoResidueOf, AmountPaid
  <2>4. taken[r].tokens = TokensPaid(r)
    BY <1>1, <1>2, <1>5 DEF NoResidueOf, TokensPaid, SettlesTokens
  <2> QED BY <2>2, <2>3, <2>4
<1>6. CASE s[r].funding = "sub"
  <2>1. taken[r].wallet = QuotaPaid(r) /\ taken[r].tokens = TokensPaid(r)
    BY <1>1, <1>2, <1>6 DEF NoResidueOf, QuotaPaid, TokensPaid, SettlesTokens
  <2>2. taken[r].sub = AmountPaid(r)
    BY <1>1, <1>2, <1>3, <1>6 DEF SubLedger, Charged, AmountPaid, Terminal
  <2> QED BY <2>1, <2>2
<1>7. CASE s[r].funding = "tokens"
  <2>1. taken[r].wallet = QuotaPaid(r)
    BY <1>1, <1>2, <1>7 DEF NoResidueOf, QuotaPaid
  <2>2. taken[r].sub = AmountPaid(r)
    <3>1. AmountPaid(r) = 0 + FeeTaken(r)
      BY <1>7 DEF AmountPaid
    <3>2. taken[r].sub = FeeTaken(r)
      BY <1>1, <1>7 DEF TokensLedger
    <3> QED BY <1>2, <3>1, <3>2
  <2>3. taken[r].tokens = TokensPaid(r)
    BY <1>1, <1>2, <1>7 DEF TokensLedger, Charged, TokensPaid, Terminal, SettlesTokens
  <2> QED BY <2>1, <2>2, <2>3
<1> QED
  BY <1>2, <1>4, <1>5, <1>6, <1>7 DEF Fundings

\* BooksBalance: once every session has ended and no call failed, users.quota has
\* lost exactly what the requests funded by it have cost.
THEOREM WalletBalances == Spec => []BooksBalance
<1>1. ASSUME BooksInv, AllDone, faults = 0
      PROVE  InitQuota - quota = Cardinality(Units([r \in Requests |-> QuotaPaid(r)]))
  <2>1. WalletOf = [r \in Requests |-> QuotaPaid(r)]
    BY <1>1, PaidIsTaken DEF WalletOf, AllDone, BooksInv
  <2> QED BY <1>1, <2>1 DEF BooksInv, WalletBooked, Booked
<1>2. BooksInv => BooksBalance
  BY <1>1 DEF BooksBalance
<1> QED
  BY <1>2, BooksInvariant, PTL

\* CountersBalance: once every session has ended and no call failed, the counters of
\* the row are exactly what the requests have cost it, unless a save has replaced a
\* row other than the one it had read.  Lost updates and resets are the only ways in
\* which PostConsumeUserSubscriptionDelta and its kin miscount: the clamp at 0 and
\* the refusal at the ceiling never do.
THEOREM CountersAreRight == Spec => []CountersBalance
<1>1. ASSUME BooksInv, AllDone, faults = 0, intact
      PROVE  RowCounts
  <2>1. SubOf = [r \in Requests |-> AmountPaid(r)] /\ TokensOf = [r \in Requests |-> TokensPaid(r)]
    BY <1>1, PaidIsTaken DEF SubOf, TokensOf, AllDone, BooksInv
  <2> QED BY <1>1, <2>1 DEF BooksInv, CountersInv, CountersBooked, Booked, RowCounts
<1>2. BooksInv => CountersBalance
  BY <1>1 DEF CountersBalance
<1> QED
  BY <1>2, BooksInvariant, PTL

-----------------------------------------------------------------------------
(* The promise of a session to its source.                                 *)

\* No call fails, no token belongs to a tokens-type subscription, and what is
\* settled is a cost the upstream reported.
QuotaFunded(r) ==
    /\ s[r].funding # "tokens"
    /\ pc[r] \in {"settle", "saveSettle", "settleToken", "settled"} => s[r].cost \in Costs

HoldInv == IInv /\ faults = 0 /\ \A r \in Requests : QuotaFunded(r)

\* What the source has lost to a session, fee aside, at each of its stages.
HeldIsDue ==
    \A r \in Requests :
        /\ SourceHeld(r) \in Nat
        /\ pc[r] \in {"settle", "unsettled"} => SourceHeld(r) = s[r].pre
        /\ SourcePhase(r) = "charged" => SourceHeld(r) = s[r].cost
        /\ SourcePhase(r) = "released" => SourceHeld(r) = 0

\* It follows from the invariant.
LEMMA HeldAtStage == HoldInv => HeldIsDue
<1> SUFFICES ASSUME HoldInv, NEW r \in Requests
             PROVE  /\ SourceHeld(r) \in Nat
                    /\ pc[r] \in {"settle", "unsettled"} => SourceHeld(r) = s[r].pre
                    /\ SourcePhase(r) = "charged" => SourceHeld(r) = s[r].cost
                    /\ SourcePhase(r) = "released" => SourceHeld(r) = 0
  BY DEF HeldIsDue
<1>1. /\ TypeOK /\ QuotaFunded(r) /\ SourceOf(r) /\ Stages(r) /\ Charged(r)
      /\ NoResidueOf(r) /\ WalletLedger(r) /\ SubLedger(r)
  BY DEF HoldInv, IInv, SessionInv, Exact
<1>2. /\ pc[r] \in PCs /\ s[r].funding \in Fundings /\ s[r].cost \in Nat /\ s[r].pre \in Nat
      /\ s[r].consumed \in Nat /\ FeeTaken(r) \in Nat
      /\ taken[r].wallet \in Int /\ taken[r].sub \in Int /\ taken[r].tokens \in Int
  BY <1>1, Numbers, SessionConstants DEF TypeOK, Session, FeeTaken
<1>3. pc[r] \notin Refunding => FeeTaken(r) = 0
  BY <1>1 DEF Stages, FeeTaken
<1>4. CASE Untouched(r) /\ pc[r] \in Before \cup {"rejected", "rollback"}
  <2>1. pc[r] \notin Refunding
    BY <1>4 DEF Before, Opening, Refunding, Returning
  <2>2. SourceHeld(r) = 0
    BY <1>2, <1>3, <1>4, <2>1 DEF SourceHeld, Untouched
  <2>3. pc[r] \notin {"settle", "saveSettle", "settleToken", "settled", "unsettled"}
    BY <1>4 DEF Before, Opening
  <2> QED BY <2>2, <2>3 DEF SourcePhase
<1>5. CASE s[r].funding = "wallet" /\ pc[r] \notin Before
  <2>1. pc[r] \in Settling \cup {"settleToken", "settled", "refund", "refundToken",
                                "failed", "rejected"}
    BY <1>1, <1>2, <1>5
       DEF WalletLedger, SourceOf, PCs, Terminal, Before, Opening, Settling
  <2>2. SourceHeld(r) = taken[r].wallet - FeeTaken(r)
    BY <1>1, <1>2, <1>5 DEF SourceHeld, NoResidueOf
  <2>3. pc[r] \in Settling =>
           SourceHeld(r) = s[r].pre /\ SourcePhase(r) = "open"
    BY <1>1, <1>2, <1>3, <1>5, <2>2
       DEF Charged, Stages, Holding, Settling, Refunding, Returning, SourcePhase
  <2>4. pc[r] = "refund" => SourceHeld(r) = s[r].consumed /\ SourcePhase(r) = "open"
    BY <1>1, <1>2, <1>5, <2>2 DEF WalletLedger, SourcePhase
  <2>5. pc[r] \in {"settleToken", "settled"} =>
           SourceHeld(r) = s[r].cost /\ SourcePhase(r) = "charged"
    BY <1>1, <1>2, <1>3, <1>5, <2>2 DEF Charged, Refunding, Returning, SourcePhase
  <2>6. pc[r] \in {"refundToken", "failed", "rejected"} =>
           SourceHeld(r) = 0 /\ SourcePhase(r) = "released"
    BY <1>1, <1>2, <1>3, <1>5, <2>2 DEF WalletLedger, Refunding, Returning, SourcePhase
  <2> QED BY <1>2, <2>1, <2>3, <2>4, <2>5, <2>6 DEF Settling
<1>6. CASE s[r].funding = "sub" /\ pc[r] \notin Before
  <2>1. pc[r] \in Settling \cup {"settleToken", "settled", "unsettled", "refund", "saveRefund",
                                "refundRecord", "refundToken", "failed", "rejected",
                                "rollback"}
    BY <1>2, <1>6 DEF PCs, Terminal, Before, Opening, Settling
  <2>2. SourceHeld(r) = taken[r].sub - FeeTaken(r)
    BY <1>1, <1>2, <1>6 DEF SourceHeld, NoResidueOf
  <2>3. pc[r] \in Settling =>
           SourceHeld(r) = s[r].pre /\ SourcePhase(r) = "open"
    BY <1>1, <1>2, <1>3, <1>6, <2>2
       DEF Charged, Stages, Holding, Settling, Refunding, Returning, SourcePhase
  <2>4. pc[r] = "unsettled" => SourceHeld(r) = s[r].pre /\ SourcePhase(r) = "kept"
    BY <1>1, <1>2, <1>3, <1>6, <2>2 DEF SubLedger, Refunding, Returning, SourcePhase
  <2>5. pc[r] \in {"refund", "saveRefund"} =>
           SourceHeld(r) = s[r].consumed /\ SourcePhase(r) = "open"
    BY <1>1, <1>2, <1>6, <2>2 DEF SubLedger, SourcePhase
  <2>6. pc[r] \in {"settleToken", "settled"} =>
           SourceHeld(r) = s[r].cost /\ SourcePhase(r) = "charged"
    BY <1>1, <1>2, <1>3, <1>6, <2>2 DEF Charged, Refunding, Returning, SourcePhase
  <2>7. /\ pc[r] \in {"refundToken", "failed", "rejected"} =>
              SourceHeld(r) = 0 /\ SourcePhase(r) = "released"
        /\ pc[r] \in {"refundRecord", "rollback"} =>
              SourceHeld(r) = 0 /\ SourcePhase(r) = "open"
    BY <1>1, <1>2, <1>3, <1>6, <2>2 DEF SubLedger, Refunding, Returning, SourcePhase
  <2> QED BY <1>2, <2>1, <2>3, <2>4, <2>5, <2>6, <2>7 DEF Settling
<1>7. pc[r] \in Before => Untouched(r)
  BY <1>1 DEF Stages
<1>8. s[r].funding = "none" => Untouched(r) /\ pc[r] \in Before \cup {"rejected"}
  BY <1>1 DEF SourceOf, Before
<1>9. s[r].funding \in {"none", "wallet", "sub"}
  BY <1>1, <1>2 DEF QuotaFunded, Fundings
<1> QED
  BY <1>4, <1>5, <1>6, <1>7, <1>8, <1>9

\* ... and so it does after a step.
LEMMA HeldAfterStep == HoldInv' => HeldIsDue'
  BY HeldAtStage, PTL

\* Settled is settled: a closed session keeps its phase, its cost and its
\* pre-consumption, and it is kept open-ended only by a refused settlement.
LEMMA PhaseSteps ==
  ASSUME IInv, NEW r \in Requests, Step(r), ~Errors(r)
  PROVE  /\ SourcePhase(r) # "open" =>
               /\ SourcePhase(r)' = SourcePhase(r)
               /\ s'[r].cost = s[r].cost /\ s'[r].pre = s[r].pre
         /\ SourcePhase(r) = "open" /\ SourcePhase(r)' = "kept" =>
               pc[r] = "settle" /\ pc'[r] = "unsettled" /\ s'[r] = s[r]
<1>1. ControlType /\ Stages(r)
  BY DEF IInv, SessionInv, TypeOK, ControlType
<1>2. ASSUME NEW pref \in Preferences, NEW kind \in Kinds, NEW est \in Estimates,
             Arrive(r, pref, kind, est)
      PROVE  pc[r] = "idle" /\ pc'[r] # "unsettled"
  BY <1>1, <1>2 DEF Arrive, Goto, ControlType
<1>3. ASSUME Open(r)
      PROVE  pc[r] \in Before \cup {"rollback"} /\ pc'[r] # "unsettled"
  BY <1>1, <1>3
     DEF Choose, TryWallet, TrySubscription, PreConsumeTokens, SavePreTokens, CheckToken,
         DecreaseToken, PreConsumeWallet, PreConsumeSubscription, SavePre, Rollback, Open,
         Goto, ControlType, Before, Opening, AfterShort, AfterRollback
<1>4. ASSUME Upstream(r)
      PROVE  pc[r] = "relay" /\ pc'[r] # "unsettled"
  BY <1>1, <1>4 DEF Upstream, RelaySucceeds, RelayFails, Goto, ControlType
<1>5. ASSUME Close(r)
      PROVE  \/ pc[r] = "settle" /\ (pc'[r] = "unsettled" => s'[r] = s[r])
             \/ pc[r] \in {"saveSettle", "refund", "saveRefund", "refundRecord"}
                   /\ pc'[r] # "unsettled"
             \/ pc[r] = "settleToken" /\ pc'[r] = "settled" /\ s'[r] = s[r]
             \/ pc[r] = "refundToken" /\ pc'[r] = "failed" /\ s'[r] = s[r]
  BY <1>1, <1>5
     DEF SettleTokens, SettleFunding, SaveSettle, SettleToken, RefundWallet,
         RefundSubscription, SaveRefund, RefundRecord, RefundTokenQuota, Close, Goto,
         ControlType
<1>6. ASSUME ChargeFees(r)
      PROVE  pc'[r] = pc[r] /\ s'[r] = s[r]
  BY <1>6 DEF ChargeFees, ChargeFee, SaveFee, ChargeFeeToken
<1>7. (SourcePhase(r)' = "kept") <=> (pc'[r] = "unsettled")
  BY DEF SourcePhase
<1>8. CASE Close(r)
  BY <1>5, <1>7, <1>8 DEF SourcePhase
<1>9. CASE ChargeFees(r)
  BY <1>6, <1>9 DEF SourcePhase
<1>10. CASE ~Close(r) /\ ~ChargeFees(r)
  <2>1. pc[r] \in Before \cup {"rollback", "relay"} /\ pc'[r] # "unsettled"
    BY <1>2, <1>3, <1>4, <1>10 DEF Step, Before, Opening
  <2>2. SourcePhase(r) = "open"
    BY <2>1 DEF SourcePhase, Before, Opening
  <2> QED BY <1>7, <2>1, <2>2
<1> QED
  BY <1>8, <1>9, <1>10

\* Database calls do not fail and tokens are not linked to a subscription.
QuotaOnly == MaxFaults = 0 /\ ~TokenLinked

\* HoldInv is kept by the steps of a request.
LEMMA StepHold ==
  ASSUME QuotaOnly, HoldInv, NEW r \in Requests, Step(r)
  PROVE  ~Errors(r) /\ HoldInv'
<1> DEFINE Priced == {"settle", "saveSettle", "settleToken", "settled"}
<1>1. IInv /\ TypeOK /\ ControlType /\ faults = 0
  BY DEF HoldInv, IInv, TypeOK, ControlType
<1>2. ~Errors(r) /\ faults' = 0
  BY <1>1, StepFaults DEF QuotaOnly
<1>3. IInv'
  BY <1>1, StepInv
<1>4. QuotaFunded(r)'
  <2>1. QuotaFunded(r) /\ SourceOf(r) /\ s[r] \in Session
    BY <1>1 DEF HoldInv, IInv, SessionInv, TypeOK
  <2>2. ASSUME NEW pref \in Preferences, NEW kind \in Kinds, NEW est \in Estimates,
               Arrive(r, pref, kind, est)
        PROVE  QuotaFunded(r)'
    BY <1>1, <2>2 DEF Arrive, Goto, ControlType, NewSession, QuotaFunded
  <2>3. ASSUME Open(r) PROVE QuotaFunded(r)'
    <3>1. pc'[r] \notin Priced
      BY <1>1, <2>3
         DEF Choose, TryWallet, TrySubscription, PreConsumeTokens, SavePreTokens,
             CheckToken, DecreaseToken, PreConsumeWallet, PreConsumeSubscription, SavePre,
             Rollback, Open, Goto, ControlType, AfterShort, AfterRollback
    <3>2. s'[r].funding \in {s[r].funding, "wallet", "sub"}
      <4>1. CASE TryWallet(r) \/ TrySubscription(r)
        BY <1>1, <2>1, <4>1
           DEF TryWallet, TrySubscription, ControlType, Session, Linked, QuotaOnly
      <4>2. CASE PreConsumeTokens(r) \/ SavePreTokens(r)
        BY <2>1, <4>2 DEF PreConsumeTokens, SavePreTokens, SourceOf, QuotaFunded
      <4>3. CASE Choose(r) \/ CheckToken(r) \/ DecreaseToken(r) \/ PreConsumeWallet(r)
        BY <1>1, <2>1, <4>3
           DEF Choose, CheckToken, DecreaseToken, PreConsumeWallet, ControlType, Session
      <4>4. CASE PreConsumeSubscription(r) \/ SavePre(r) \/ Rollback(r)
        BY <1>1, <2>1, <4>4
           DEF PreConsumeSubscription, SavePre, Rollback, ControlType, Session
      <4> QED BY <2>3, <4>1, <4>2, <4>3, <4>4 DEF Open
    <3> QED BY <2>1, <3>1, <3>2 DEF QuotaFunded
  <2>4. ASSUME Upstream(r) PROVE QuotaFunded(r)'
    <3>1. ASSUME NEW cost \in Costs, RelaySucceeds(r, cost) PROVE QuotaFunded(r)'
      BY <1>1, <2>1, <3>1 DEF RelaySucceeds, Goto, ControlType, Session, QuotaFunded
    <3>2. ASSUME NEW violation \in BOOLEAN, RelayFails(r, violation) PROVE QuotaFunded(r)'
      BY <1>1, <2>1, <3>2 DEF RelayFails, Goto, ControlType, QuotaFunded
    <3> QED BY <2>4, <3>1, <3>2 DEF Upstream
  <2>5. ASSUME Close(r) PROVE QuotaFunded(r)'
    <3>1. s'[r].funding = s[r].funding /\ s'[r].cost = s[r].cost
      BY <1>1, <2>1, <2>5
         DEF SettleTokens, SettleFunding, SaveSettle, SettleToken, RefundWallet,
             RefundSubscription, SaveRefund, RefundRecord, RefundTokenQuota, Close,
             ControlType, Session
    <3>2. pc'[r] \in Priced => pc[r] \in Priced
      BY <1>1, <2>5
         DEF SettleTokens, SettleFunding, SaveSettle, SettleToken, RefundWallet,
             RefundSubscription, SaveRefund, RefundRecord, RefundTokenQuota, Close, Goto,
             ControlType
    <3> QED BY <2>1, <3>1, <3>2 DEF QuotaFunded
  <2>6. ASSUME ChargeFees(r) PROVE QuotaFunded(r)'
    BY <2>1, <2>6 DEF ChargeFees, ChargeFee, SaveFee, ChargeFeeToken, QuotaFunded
  <2> QED BY <1>2, <2>2, <2>3, <2>4, <2>5, <2>6 DEF Step
<1>5. \A q \in Requests \ {r} : QuotaFunded(q)'
  BY <1>1, StepFrame DEF HoldInv, Frame, QuotaFunded
<1> QED
  BY <1>2, <1>3, <1>4, <1>5 DEF HoldInv

\* A step of a request is a step of QuotaHold, or none.
LEMMA StepRefines ==
  ASSUME QuotaOnly, HoldInv, NEW r \in Requests, Step(r)
  PROVE  [Source!HoldNext]_(Source!holdVars)
<1> DEFINE phase == [q \in Requests |-> SourcePhase(q)]
           held == [q \in Requests |-> SourceHeld(q)]
<1>1. IInv /\ TypeOK /\ ~Errors(r) /\ HoldInv' /\ HeldIsDue /\ HeldIsDue'
  BY StepHold, HeldAtStage, HeldAfterStep DEF HoldInv, IInv
<1>2. \A q \in Requests \ {r} :
         SourcePhase(q)' = SourcePhase(q) /\ SourceHeld(q)' = SourceHeld(q)
  <2>1. Frame(r)
    BY <1>1, StepFrame
  <2> QED BY <2>1 DEF Frame, SourcePhase, SourceHeld, FeeTaken
<1>3. /\ phase' = [phase EXCEPT ![r] = SourcePhase(r)']
      /\ held' = [held EXCEPT ![r] = SourceHeld(r)']
      /\ phase[r] = SourcePhase(r) /\ held[r] = SourceHeld(r) /\ held'[r] = SourceHeld(r)'
  BY <1>2
<1>4. SourcePhase(r) \in {"open", "charged", "released", "kept"}
  BY DEF SourcePhase
<1>5. SourcePhase(r)' \in {"open", "charged", "released", "kept"}
  BY DEF SourcePhase
<1>6. CASE SourcePhase(r) # "open"
  <2>1. SourcePhase(r)' = SourcePhase(r) /\ SourceHeld(r)' = SourceHeld(r)
    <3>1. /\ SourcePhase(r)' = SourcePhase(r)
          /\ s'[r].cost = s[r].cost /\ s'[r].pre = s[r].pre
      BY <1>1, <1>6, PhaseSteps
    <3>2. /\ SourcePhase(r) = "kept" => pc[r] = "unsettled"
          /\ SourcePhase(r)' = "kept" => pc'[r] = "unsettled"
      BY DEF SourcePhase
    <3>3. /\ pc'[r] \in {"settle", "unsettled"} => SourceHeld(r)' = s'[r].pre
          /\ SourcePhase(r)' = "charged" => SourceHeld(r)' = s'[r].cost
          /\ SourcePhase(r)' = "released" => SourceHeld(r)' = 0
      BY <1>1 DEF HeldIsDue
    <3>4. /\ pc[r] \in {"settle", "unsettled"} => SourceHeld(r) = s[r].pre
          /\ SourcePhase(r) = "charged" => SourceHeld(r) = s[r].cost
          /\ SourcePhase(r) = "released" => SourceHeld(r) = 0
      BY <1>1 DEF HeldIsDue
    <3> QED BY <1>4, <1>6, <3>1, <3>2, <3>3, <3>4
  <2>2. phase' = phase /\ held' = held
    BY <1>3, <2>1
  <2> QED BY <2>2 DEF Source!holdVars
<1>7. CASE SourcePhase(r) = "open" /\ SourcePhase(r)' = "open"
  <2>1. SourceHeld(r)' \in Nat
    BY <1>1 DEF HeldIsDue
  <2>2. phase' = phase
    BY <1>3, <1>7
  <2>3. Source!Hold(r)
    BY <1>3, <1>7, <2>1, <2>2 DEF Source!Hold
  <2> QED BY <2>3 DEF Source!HoldNext
<1>8. CASE SourcePhase(r) = "open" /\ SourcePhase(r)' = "charged"
  <2>1. SourceHeld(r)' = s'[r].cost /\ s'[r].cost \in Costs
    <3>1. pc'[r] \in {"settleToken", "settled"}
      BY <1>8 DEF SourcePhase
    <3> QED BY <1>1, <1>8, <3>1 DEF HeldIsDue, HoldInv, QuotaFunded
  <2>2. Source!Charge(r, s'[r].cost)
    BY <1>3, <1>8, <2>1 DEF Source!Charge
  <2> QED BY <2>1, <2>2 DEF Source!HoldNext
<1>9. CASE SourcePhase(r) = "open" /\ SourcePhase(r)' = "released"
  <2>1. SourceHeld(r)' = 0
    BY <1>1, <1>9 DEF HeldIsDue
  <2>2. Source!Release(r)
    BY <1>3, <1>9, <2>1 DEF Source!Release
  <2> QED BY <2>2 DEF Source!HoldNext
<1>10. CASE SourcePhase(r) = "open" /\ SourcePhase(r)' = "kept"
  <2>1. SourceHeld(r)' = SourceHeld(r)
    <3>1. pc[r] = "settle" /\ pc'[r] = "unsettled" /\ s'[r] = s[r]
      BY <1>1, <1>10, PhaseSteps
    <3>2. SourceHeld(r)' = s'[r].pre
      BY <1>1, <3>1 DEF HeldIsDue
    <3>3. SourceHeld(r) = s[r].pre
      BY <1>1, <3>1 DEF HeldIsDue
    <3> QED BY <3>1, <3>2, <3>3
  <2>2. held' = held
    BY <1>3, <2>1
  <2>3. Source!Keep(r)
    BY <1>3, <1>10, <2>2 DEF Source!Keep
  <2> QED BY <2>3 DEF Source!HoldNext
<1> QED
  BY <1>4, <1>5, <1>6, <1>7, <1>8, <1>9, <1>10

\* NewBillingSession ... Settle / Refund implement QuotaHold: when no database call
\* fails, what a session charged in quota asks of its source ends once, as its cost,
\* as nothing, or as the hold a refused settlement leaves; after that it asks for
\* nothing more, however the requests, their fees and the resets interleave.
THEOREM SessionsImplementHold == QuotaOnly => (Spec => ImplementsHold)
<1> SUFFICES ASSUME QuotaOnly PROVE Spec => ImplementsHold
  OBVIOUS
<1>1. Init => HoldInv /\ Source!HoldInit
  <2> SUFFICES ASSUME Init PROVE HoldInv /\ Source!HoldInit
    OBVIOUS
  <2>1. \A r \in Requests : /\ pc[r] = "idle" /\ s[r] = NewSession /\ feePc[r] = "none"
                            /\ taken[r] = NothingTaken
    BY DEF Init
  <2>2. \A r \in Requests : SourcePhase(r) = "open" /\ SourceHeld(r) = 0
    BY <2>1 DEF SourcePhase, SourceHeld, FeeTaken, NothingTaken
  <2>3. \A r \in Requests : QuotaFunded(r)
    BY <2>1 DEF QuotaFunded, NewSession
  <2>4. IInv /\ faults = 0
    BY InitInv DEF Init
  <2> QED BY <2>2, <2>3, <2>4 DEF HoldInv, Source!HoldInit
<1>2. HoldInv /\ [Next]_vars => HoldInv' /\ [Source!HoldNext]_(Source!holdVars)
  <2> SUFFICES ASSUME HoldInv, [Next]_vars
               PROVE  HoldInv' /\ [Source!HoldNext]_(Source!holdVars)
    OBVIOUS
  <2>1. ASSUME NEW r \in Requests, Step(r)
        PROVE  HoldInv' /\ [Source!HoldNext]_(Source!holdVars)
    BY <2>1, StepHold, StepRefines
  <2>2. CASE Lifecycle \/ UNCHANGED vars
    <3>1. TypeOK' /\ UNCHANGED <<pc, s, feePc, taken, faults, faulty>>
      <4>1. CASE Lifecycle BY <4>1, LifecycleType DEF HoldInv, IInv
      <4>2. CASE UNCHANGED vars BY <4>2 DEF HoldInv, IInv, TypeOK, vars, money, task
      <4> QED BY <2>2, <4>1, <4>2
    <3>2. HoldInv'
      BY <3>1, IdleInv DEF HoldInv, QuotaFunded
    <3>3. UNCHANGED Source!holdVars
      BY <3>1 DEF Source!holdVars, SourcePhase, SourceHeld, FeeTaken
    <3> QED BY <3>2, <3>3
  <2> QED
    BY <2>1, <2>2 DEF Next, Finished
<1> QED
  BY <1>1, <1>2, PTL DEF Spec, ImplementsHold, Source!HoldSpec

=============================================================================
