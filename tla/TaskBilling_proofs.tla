------------------------- MODULE TaskBilling_proofs -------------------------
(***************************************************************************)
(* The billing of a task.  One whose status moves by compare-and-set alone *)
(* (the video platforms, on a channel that can be read and whose tasks     *)
(* users do not fetch in real time): for every number of pollers, every    *)
(* quota and any number of failing calls and restarts, it is settled or    *)
(* refunded at most once and stays final; if its submission was settled,   *)
(* it is never refunded beyond what was charged and costs what is due.  Of *)
(* every platform, when no call fails: Suno refunds once with one poller,  *)
(* and funding source and token agree.                                     *)
(***************************************************************************)
EXTENDS TaskBilling, FiniteSetTheorems, TLAPS

\* The configuration in which UpdateWithStatus is the only way to write.
CasOnly == Platforms = {"video"} /\ RealtimeFetch = FALSE /\ ChannelErrors = FALSE

Deciding == {"settle", "refund"}
Billing  == Deciding \cup {"settleToken", "refundToken"}
Reading  == {"sweepCas", "fetch", "write", "htmlCas"}

\* The types the argument needs.
Shapes ==
    /\ task.platform = "video" /\ task.actual \in Nat /\ task.pre \in Nat
    /\ row \in Row
    /\ pc \in [Pollers -> PollerPCs \ {"save"}]
    /\ mem \in [Pollers -> Copy]
    /\ userPc = "idle"
    /\ upstream \in {"IN_PROGRESS"} \cup Final
    /\ paid \in Int /\ tokenPaid \in Int /\ bills \in {0, 1}
    /\ ~unsettled => paid \in Nat /\ tokenPaid \in Nat

\* A status that was read to be replaced was not final.
ReadOpen == \A p \in Pollers : pc[p] \in Reading => mem[p].from \notin Final

\* The process that bills won the row: it is alone, nothing was billed before
\* it, and the token has not been touched since the submission.
OneBiller ==
    \A p \in Pollers : pc[p] \in Billing =>
        /\ row.status \in Final
        /\ ~unsettled => tokenPaid = Quota
        /\ pc[p] \in Deciding => bills = 0 /\ (~unsettled => paid = Quota)
        /\ pc[p] \notin Deciding => bills = 1
        /\ \A q \in Pollers : pc[q] \in Billing => q = p

\* A billed task has a final status; one that was not still has its charge.
Charges ==
    /\ bills = 1 => row.status \in Final
    /\ row.status # "ABSENT" /\ bills = 0 /\ ~unsettled => paid = Quota /\ tokenPaid = Quota
    /\ submitPc # "done" => row.status = "ABSENT"
    /\ submitPc = "insert" /\ ~unsettled => paid = Quota /\ tokenPaid = Quota
    /\ submitPc = "charge" => bills = 0

TInv == Shapes /\ ReadOpen /\ OneBiller /\ Charges

-----------------------------------------------------------------------------
(* Three ways in which a poller's step changes what TInv speaks of.        *)

\* What a step of p does not touch.
Alone(p) ==
    /\ UNCHANGED <<task, submitPc, upstream, userPc, unsettled>>
    /\ pc' = [pc EXCEPT ![p] = pc'[p]] /\ pc'[p] \in PollerPCs \ {"save"}
    /\ mem' = [mem EXCEPT ![p] = mem'[p]] /\ mem'[p] \in Copy
    /\ pc'[p] \in Reading => mem'[p].from \notin Final

SameAmounts == paid' = paid /\ tokenPaid' = tokenPaid /\ bills' = bills

\* A step that writes nothing and leaves the poller with nothing to bill.
Looks(p) ==
    /\ Alone(p) /\ SameAmounts
    /\ row' = row
    /\ pc'[p] \notin Billing

\* A compare-and-set that succeeds; only a final status makes p bill.
Moves(p) ==
    /\ Alone(p) /\ SameAmounts
    /\ pc[p] \in Reading /\ Wins(mem[p])
    /\ row' \in Row /\ row'.status \in Statuses
    /\ pc'[p] \in Billing => pc'[p] \in Deciding /\ row'.status \in Final

\* The funding half of a bill, then the token half.
BillsFunding(p) ==
    /\ Alone(p)
    /\ row' = row /\ tokenPaid' = tokenPaid
    /\ pc[p] \in Deciding
    /\ bills' = bills + 1 /\ paid' \in Int /\ (~unsettled => paid' \in Nat)
    /\ pc'[p] \notin Deciding

BillsToken(p) ==
    /\ Alone(p)
    /\ row' = row /\ paid' = paid /\ bills' = bills
    /\ pc[p] \in Billing \ Deciding
    /\ tokenPaid' \in Int /\ (~unsettled => tokenPaid' \in Nat)
    /\ pc'[p] \notin Billing

Effect(p) == Looks(p) \/ Moves(p) \/ BillsFunding(p) \/ BillsToken(p)

\* Each of them keeps the invariant: a row is won only while nobody has billed.
LEMMA EffectKeeps ==
  ASSUME TInv, NEW p \in Pollers, Effect(p)
  PROVE  TInv'
<1> USE DEF TInv, Shapes, ReadOpen, OneBiller, Charges, Alone, SameAmounts, Deciding, Billing
<1>1. CASE Looks(p)
  BY <1>1 DEF Looks
<1>2. CASE Moves(p)
  <2>1. row.status \in Statuses /\ row.status \notin Final
    BY <1>2 DEF Moves, Wins, Reading, Copy
  <2>2. bills = 0 /\ (~unsettled => paid = Quota /\ tokenPaid = Quota)
    BY <2>1 DEF Statuses
  <2>3. \A q \in Pollers : pc[q] \notin Billing
    BY <2>1
  <2>4. Shapes' /\ ReadOpen'
    BY <1>2 DEF Moves
  <2>5. OneBiller'
    BY <1>2, <2>2, <2>3 DEF Moves
  <2>6. Charges'
    BY <1>2, <2>1, <2>2 DEF Moves, Statuses, Final
  <2> QED
    BY <2>4, <2>5, <2>6
<1>3. CASE BillsFunding(p)
  <2>1. /\ bills = 0 /\ bills' = 1
        /\ row.status \in Final /\ (~unsettled => tokenPaid = Quota)
        /\ \A q \in Pollers : pc[q] \in Billing => q = p
    BY <1>3 DEF BillsFunding
  <2>2. \A q \in Pollers : q # p => pc'[q] = pc[q]
    BY <1>3 DEF BillsFunding
  <2>3. Shapes' /\ ReadOpen'
    BY <1>3, <2>1 DEF BillsFunding
  <2>4. OneBiller'
    BY <1>3, <2>1, <2>2 DEF BillsFunding
  <2>5. Charges'
    BY <1>3, <2>1 DEF BillsFunding, Final
  <2> QED
    BY <2>3, <2>4, <2>5
<1>4. CASE BillsToken(p)
  <2>1. /\ bills = 1 /\ row.status \in Final
        /\ \A q \in Pollers : pc[q] \in Billing => q = p
    BY <1>4 DEF BillsToken
  <2>2. \A q \in Pollers : pc'[q] \notin Billing
    BY <1>4, <2>1 DEF BillsToken
  <2>3. Shapes' /\ ReadOpen'
    BY <1>4 DEF BillsToken
  <2>4. OneBiller'
    BY <2>2
  <2>5. Charges'
    BY <1>4, <2>1 DEF BillsToken, Final
  <2> QED
    BY <2>3, <2>4, <2>5
<1> QED
  BY <1>1, <1>2, <1>3, <1>4 DEF Effect

\* The steps of a round that bill nothing are of the first two kinds.
LEMMA RoundEffect ==
  ASSUME TInv, CasOnly, NEW p \in Pollers,
         \/ Sweep(p) \/ SweepCas(p) \/ List(p) \/ Answer(p) \/ HtmlCas(p)
         \/ WriteVideo(p) \/ SaveSuno(p) \/ UpdateError(p) \/ Restart(p)
  PROVE  Effect(p)
<1> USE DEF TInv, Shapes, ReadOpen, Goto, NoBilling, amounts, Others, user, table,
            Alone, SameAmounts, PollerPCs, Reading, Billing, Deciding, Copy, Statuses
<1>1. CASE Sweep(p)
  <2>1. mem'[p] \in Copy
    BY <1>1 DEF Sweep, TimedOut, Unfinished, Row, Final
  <2> QED
    BY <1>1, <2>1 DEF Sweep, TimedOut, Unfinished, Row, Effect, Looks
<1>2. CASE SweepCas(p)
  BY <1>2 DEF SweepCas, SetRow, Row, Final, Effect, Looks, Moves
<1>3. CASE List(p)
  BY <1>3 DEF List, Unfinished, Row, Effect, Looks
<1>4. CASE Answer(p)
  <2>1. CASE \E status \in {upstream, "FAILURE"} : VideoAnswer(p, status)
    <3>1. PICK status \in {upstream, "FAILURE"} : VideoAnswer(p, status)
      BY <2>1
    <3>2. status \in Statuses /\ Progress(status \in Final) \in {"partial", "100%"}
      BY DEF Progress, Final
    <3>3. mem' = [mem EXCEPT ![p] = [mem[p] EXCEPT !.to = status,
                                                   !.progress = Progress(status \in Final)]]
      BY <3>1 DEF VideoAnswer
    <3>4. mem'[p] \in Copy /\ mem'[p].from = mem[p].from
      BY <3>2, <3>3
    <3> QED
      BY <3>1, <3>3, <3>4 DEF VideoAnswer, Effect, Looks
  <2>2. CASE HtmlAnswer(p) \/ FetchFails(p)
    BY <2>2 DEF HtmlAnswer, FetchFails, Effect, Looks
  <2>3. ~ChannelGone(p) /\ \A reason \in BOOLEAN : ~SunoAnswer(p, upstream, reason)
    BY DEF CasOnly, ChannelGone, SunoAnswer
  <2> QED
    BY <1>4, <2>1, <2>2, <2>3 DEF Answer
<1>5. CASE HtmlCas(p)
  BY <1>5 DEF HtmlCas, SetRow, Row, Final, Effect, Looks, Moves
<1>6. CASE WriteVideo(p)
  BY <1>6 DEF WriteVideo, SetRow, Row, Final, Effect, Looks, Moves
<1>7. CASE SaveSuno(p)
  BY <1>7 DEF SaveSuno
<1>8. CASE UpdateError(p)
  BY <1>8 DEF UpdateError, SetRow, Row, Final, Effect, Looks, Moves
<1>9. CASE Restart(p)
  BY <1>9 DEF Restart, Effect, Looks
<1> QED
  BY <1>1, <1>2, <1>3, <1>4, <1>5, <1>6, <1>7, <1>8, <1>9

\* The steps of task_billing.go are of the other two.
LEMMA BillEffect ==
  ASSUME TInv, CasOnly, NEW p \in Pollers,
         \/ Settle(p) \/ SettleTaskToken(p) \/ Refund(p) \/ RefundToken(p)
         \/ FundingError(p) \/ TokenError(p)
  PROVE  Effect(p)
<1> USE TaskConstants
    DEF TInv, Shapes, OneBiller, Goto, Others, user, table, Alone, PollerPCs, Reading,
        Billing, Deciding, AdjustFunding, AdjustToken, QuotaDelta
<1>0. AfterBilling(p) \in {"list", "sleep"}
  BY DEF AfterBilling
<1>1. CASE Settle(p)
  BY <1>1 DEF Settle, Effect, BillsFunding
<1>2. CASE SettleTaskToken(p)
  BY <1>2 DEF SettleTaskToken, Effect, BillsToken
<1>3. CASE Refund(p)
  BY <1>3 DEF Refund, Effect, BillsFunding
<1>4. CASE RefundToken(p)
  BY <1>0, <1>4 DEF RefundToken, Effect, BillsToken
<1>5. CASE FundingError(p)
  BY <1>0, <1>5 DEF FundingError, Effect, BillsFunding
<1>6. CASE TokenError(p)
  BY <1>0, <1>6 DEF TokenError, Effect, BillsToken
<1> QED
  BY <1>1, <1>2, <1>3, <1>4, <1>5, <1>6

\* The submission, the provider and the clock keep the invariant.
LEMMA OutsideKeeps ==
  ASSUME TInv, CasOnly,
         \/ Submission
         \/ \E status \in Final : UpstreamEnds(status)
         \/ TimePasses \/ UserFetch \/ UNCHANGED vars
  PROVE  TInv'
<1> USE TaskConstants DEF TInv, Shapes, ReadOpen, OneBiller, Charges, NoBilling, amounts, user,
            table, Deciding, Billing, Reading
<1>1. CASE Charge \/ ChargeRefused \/ ChargeError
  BY <1>1 DEF Charge, ChargeRefused, ChargeError, Charged
<1>2. CASE InsertTask
  BY <1>2 DEF InsertTask, Row, Statuses, Final
<1>3. CASE InsertError
  BY <1>3 DEF InsertError, Row, Statuses, Final
<1>4. CASE \E status \in Final : UpstreamEnds(status)
  BY <1>4 DEF UpstreamEnds
<1>5. CASE TimePasses
  BY <1>5 DEF TimePasses
<1>6. CASE UserFetch
  BY <1>6 DEF UserFetch, FetchRead, FetchAnswer, FetchNoAnswer, FetchWrite, CasOnly
<1>7. CASE UNCHANGED vars
  BY <1>7 DEF vars
<1> QED
  BY <1>1, <1>2, <1>3, <1>4, <1>5, <1>6, <1>7 DEF Submission

\* Every step keeps the invariant.
LEMMA TaskStep == ASSUME CasOnly, TInv, [Next]_vars PROVE TInv'
<1>1. ASSUME NEW p \in Pollers, Work(p) \/ Faults(p) PROVE TInv'
  BY <1>1, RoundEffect, BillEffect, EffectKeeps DEF Work, Round, Faults
<1> QED
  BY <1>1, OutsideKeeps DEF Next

\* The invariant holds initially.
LEMMA TaskInit == ASSUME CasOnly, Init PROVE TInv
<1> USE DEF CasOnly, Init, NoCopy, Copy, Row, Statuses, Final, PollerPCs
<1>1. NoCopy \in Copy
  OBVIOUS
<1>2. Shapes
  <2>1. task.platform = "video" /\ task.actual \in Nat /\ task.pre \in Nat
    BY TaskConstants
  <2> QED
    BY <1>1, <2>1 DEF Shapes
<1>3. ReadOpen /\ OneBiller
  BY DEF ReadOpen, OneBiller, Reading, Billing, Deciding
<1>4. Charges
  BY DEF Charges
<1> QED
  BY <1>2, <1>3, <1>4 DEF TInv

\* TInv is an invariant of every behaviour in which the row moves by
\* compare-and-set alone.
THEOREM TaskInvariant == CasOnly => (Spec => []TInv)
<1> SUFFICES ASSUME CasOnly PROVE Spec => []TInv
  OBVIOUS
<1>1. Init => TInv
  BY TaskInit
<1>2. TInv /\ [Next]_vars => TInv'
  BY TaskStep
<1> QED
  BY <1>1, <1>2, PTL DEF Spec

\* BilledOnce: for every number of pollers, a task is settled or refunded at
\* most once, whichever calls fail and whichever poller restarts.
THEOREM BilledAtMostOnce == CasOnly => (Spec => []BilledOnce)
<1>1. TInv => BilledOnce
  BY DEF TInv, Shapes, BilledOnce
<1> QED
  BY <1>1, TaskInvariant, PTL

\* TaskNeverOverRefunded: what is given back never exceeds what a settled
\* submission charged.
THEOREM RefundWithinCharge == CasOnly => (Spec => []TaskNeverOverRefunded)
<1>1. TInv => TaskNeverOverRefunded
  BY DEF TInv, Shapes, TaskNeverOverRefunded, RefundsThePreCharge
<1> QED
  BY <1>1, TaskInvariant, PTL

-----------------------------------------------------------------------------
(* A final status never changes.                                           *)

\* A poller's step leaves the row alone or won it while it was open.
LEMMA EffectIsFinal ==
  ASSUME TInv, NEW p \in Pollers, Effect(p)
  PROVE  row.status \in Final => row'.status = row.status
BY DEF TInv, Shapes, ReadOpen, Effect, Looks, Moves, BillsFunding, BillsToken, Wins

\* The only other write is the insertion of the row.
LEMMA OutsideIsFinal ==
  ASSUME TInv, CasOnly,
         \/ Submission
         \/ \E status \in Final : UpstreamEnds(status)
         \/ TimePasses \/ UserFetch \/ UNCHANGED vars
  PROVE  row.status \in Final => row'.status = row.status
BY DEF TInv, Shapes, Charges, Submission, Charge, ChargeRefused, ChargeError, Charged, InsertTask, InsertError, UpstreamEnds,
       TimePasses, UserFetch, FetchRead, FetchAnswer, FetchNoAnswer, FetchWrite, CasOnly,
       table, vars, Final

\* FinalIsFinal: with compare-and-set updates no sweep, poll, error page,
\* failing call or restart ever moves a task out of a final status.
THEOREM FinalStatusStays == CasOnly => (Spec => FinalIsFinal)
<1> SUFFICES ASSUME CasOnly PROVE Spec => FinalIsFinal
  OBVIOUS
<1>1. ASSUME TInv, [Next]_vars PROVE row.status \in Final => row'.status = row.status
  <2>1. ASSUME NEW p \in Pollers, Work(p) \/ Faults(p)
        PROVE  row.status \in Final => row'.status = row.status
    BY <1>1, <2>1, RoundEffect, BillEffect, EffectIsFinal DEF Work, Round, Faults
  <2> QED
    BY <1>1, <2>1, OutsideIsFinal DEF Next
<1>2. TInv /\ [Next]_vars => [row.status \in Final => row'.status = row.status]_vars
  BY <1>1
<1> QED
  BY <1>2, TaskInvariant, PTL DEF Spec, FinalIsFinal

-----------------------------------------------------------------------------
(* What a task has cost.                                                   *)

\* A poller that bills is about to make, or is half way through, the change
\* that brings the charge from the quota to what is due.
Owed(p) ==
    /\ pc[p] \in Billing => writer \in {"sweep", "poll"}
    /\ pc[p] \in {"refund", "refundToken"} =>
           row.status = "FAILURE" /\ ~(writer = "sweep" /\ task.legacy)
    /\ pc[p] \in {"settle", "settleToken"} => row.status = "SUCCESS"
    /\ pc[p] = "settleToken" => task.actual > 0 /\ ~refused
    /\ faults = 0 /\ ~unsettled /\ pc[p] = "settleToken" => paid = task.actual
    /\ faults = 0 /\ ~unsettled /\ pc[p] = "refundToken" => paid = 0

NobodyBills == \A p \in Pollers : pc[p] \notin Billing

\* A bill that is over without a fault has charged what is due.
Closed ==
    /\ faults = 0 /\ ~unsettled /\ NobodyBills
    /\ row.status \in Final /\ writer \in {"sweep", "poll"}
    => paid = Due /\ tokenPaid = Due

TaskLedger ==
    /\ bills = 0 => refused = FALSE
    /\ faults \in Nat
    /\ \A p \in Pollers : Owed(p)
    /\ Closed

\* A step that writes and charges nothing, and neither begins nor ends a bill.
LEMMA LedgerQuiet ==
  ASSUME TInv, TaskLedger, task' = task, table' = table, amounts' = amounts,
         faults' \in Nat, faults = 0 \/ faults' # 0,
         \A p \in Pollers : pc'[p] \in Billing => pc'[p] = pc[p],
         faults' # 0 \/ \A p \in Pollers : pc[p] \in Billing => pc'[p] = pc[p]
  PROVE  TaskLedger'
<1>1. \A p \in Pollers : Owed(p)'
  BY DEF TaskLedger, Owed, table, amounts, Billing, Deciding
<1>2. Closed'
  BY DEF TaskLedger, Closed, NobodyBills, Due, table, amounts
<1> QED
  BY <1>1, <1>2 DEF TaskLedger, amounts

\* A compare-and-set that succeeds.  Nothing was billed, so a new final status
\* either has a biller or the charge it leaves is what is due.
LEMMA LedgerMove ==
  ASSUME TInv, TaskLedger, NEW p \in Pollers, Moves(p), task' = task, refused' = refused,
         faults' \in Nat,
         pc'[p] \in Billing => writer' \in {"sweep", "poll"},
         pc'[p] = "refund" => row'.status = "FAILURE" /\ ~(writer' = "sweep" /\ task.legacy),
         pc'[p] = "settle" => row'.status = "SUCCESS",
         \/ faults' # 0
         \/ row'.status \notin Final
         \/ writer' \notin {"sweep", "poll"}
         \/ pc'[p] \in Billing
         \/ row'.status = "FAILURE" /\ ((writer' = "sweep" /\ task.legacy) \/ Quota = 0)
  PROVE  TaskLedger'
<1> USE DEF TInv, Shapes
<1>1. row.status \in Statuses /\ row.status \notin Final
  BY DEF ReadOpen, Moves, Wins, Reading, Copy
<1>2. bills = 0 /\ (~unsettled => paid = Quota /\ tokenPaid = Quota)
  BY <1>1 DEF Charges, Statuses
<1>3. \A q \in Pollers : pc[q] \notin Billing
  BY <1>1 DEF OneBiller
<1>4. \A q \in Pollers : q # p => pc'[q] \notin Billing
  BY <1>3 DEF Moves, Alone
<1>5. (~unsettled' => paid' = Quota /\ tokenPaid' = Quota) /\ bills' = 0 /\ ~refused'
  BY <1>2 DEF Moves, Alone, SameAmounts, TaskLedger
<1>6. pc'[p] \in Billing => pc'[p] \in Deciding
  BY DEF Moves
<1>7. \A q \in Pollers : Owed(q)'
  BY <1>4, <1>6 DEF Owed, Billing, Deciding
<1>8. Closed'
  BY <1>5 DEF Closed, NobodyBills, Due, Final
<1> QED
  BY <1>5, <1>7, <1>8 DEF TaskLedger

\* UpdateWithStatus, when the row still has the status that was read.
LEMMA CasMoves ==
  ASSUME TInv, NEW p \in Pollers, pc[p] \in {"sweepCas", "write", "htmlCas"}, Wins(mem[p]),
         row' \in Row, row'.status \in Statuses,
         NEW l \in {"list", "sleep", "refund", "settle"}, pc' = [pc EXCEPT ![p] = l],
         l \in {"refund", "settle"} => row'.status \in Final,
         mem' = mem, Others, NoBilling
  PROVE  Moves(p)
BY DEF TInv, Shapes, Moves, Alone, SameAmounts, Others, NoBilling, user, amounts, Reading,
       Billing, Deciding, PollerPCs

\* The steps of a round that bill nothing.
LEMMA LedgerRound ==
  ASSUME TInv, CasOnly, TaskLedger, NEW p \in Pollers,
         \/ Sweep(p) \/ SweepCas(p) \/ List(p) \/ Answer(p) \/ HtmlCas(p)
         \/ WriteVideo(p) \/ SaveSuno(p) \/ UpdateError(p) \/ Restart(p)
  PROVE  TaskLedger'
<1> USE DEF Goto, NoBilling, Others, NoFault, Fault
<1>a. pc \in [Pollers -> PollerPCs \ {"save"}] /\ faults \in Nat
  BY DEF TInv, Shapes, TaskLedger
<1>1. CASE Sweep(p) \/ List(p)
  BY <1>a, <1>1, LedgerQuiet DEF Sweep, List, Billing, Deciding
<1>2. CASE Restart(p)
  BY <1>a, <1>2, LedgerQuiet DEF Restart, Billing, Deciding
<1>3. CASE Answer(p)
  <2>1. /\ task' = task /\ table' = table /\ amounts' = amounts /\ faults' = faults
        /\ pc[p] = "fetch" /\ \E l \in {"write", "htmlCas", "sleep"} : Goto(p, l)
    BY <1>3 DEF TInv, Shapes, Answer, VideoAnswer, HtmlAnswer, SunoAnswer, FetchFails, ChannelGone,
                CasOnly
  <2> QED
    BY <1>a, <2>1, LedgerQuiet DEF Billing, Deciding
<1>4. CASE SweepCas(p)
  <2>1. CASE Wins(mem[p])
    <3>1. row'.status = "FAILURE" /\ writer' = "sweep" /\ row' \in Row
      BY <1>4, <2>1 DEF SweepCas, SetRow, Row, Statuses, Final
    <3>2. Moves(p)
      BY <1>4, <2>1, <3>1, CasMoves DEF SweepCas, Statuses, Final
    <3> QED
      BY <1>a, <1>4, <2>1, <3>1, <3>2, LedgerMove
      DEF SweepCas, SweepRefunds, amounts, Billing, Deciding
  <2>2. CASE ~Wins(mem[p])
    BY <1>a, <1>4, <2>2, LedgerQuiet DEF SweepCas, Billing, Deciding
  <2> QED
    BY <2>1, <2>2
<1>5. CASE HtmlCas(p)
  <2>1. CASE Wins(mem[p])
    <3>1. row'.status = "FAILURE" /\ writer' = "html" /\ row' \in Row
      BY <1>5, <2>1 DEF HtmlCas, SetRow, Row, Statuses, Final
    <3>2. Moves(p)
      BY <1>5, <2>1, <3>1, CasMoves DEF HtmlCas, Statuses, Final
    <3> QED
      BY <1>a, <1>5, <2>1, <3>1, <3>2, LedgerMove DEF HtmlCas, amounts, Billing, Deciding
  <2>2. CASE ~Wins(mem[p])
    BY <1>a, <1>5, <2>2, LedgerQuiet DEF HtmlCas, Billing, Deciding
  <2> QED
    BY <2>1, <2>2
<1>6. CASE WriteVideo(p)
  <2>1. CASE Wins(mem[p])
    <3>1. row'.status = mem[p].to /\ writer' = "poll" /\ row' \in Row /\ mem[p].to \in Statuses
      BY <1>6, <2>1 DEF TInv, Shapes, WriteVideo, SetRow, Row, Copy
    <3>2. PICK l \in {"settle", "refund", "sleep"} :
            /\ pc' = [pc EXCEPT ![p] = l]
            /\ l = "settle" => mem[p].to = "SUCCESS"
            /\ l = "refund" => mem[p].to = "FAILURE"
            /\ l = "sleep" => mem[p].to \notin Final \/ (mem[p].to = "FAILURE" /\ Quota = 0)
      BY <1>6, <2>1 DEF WriteVideo, Final
    <3>3. Moves(p)
      BY <1>6, <2>1, <3>1, <3>2, CasMoves DEF WriteVideo, Final
    <3> QED
      BY <1>a, <1>6, <2>1, <3>1, <3>2, <3>3, LedgerMove
      DEF WriteVideo, amounts, Billing, Deciding
  <2>2. CASE ~Wins(mem[p])
    BY <1>a, <1>6, <2>2, LedgerQuiet DEF WriteVideo, Billing, Deciding
  <2> QED
    BY <2>1, <2>2
<1>7. ~SaveSuno(p)
  BY <1>a DEF SaveSuno
<1>8. CASE UpdateError(p)
  <2>1. PICK l \in {"list", "sleep"} :
          pc' = [pc EXCEPT ![p] = l] /\ pc[p] \in {"sweepCas", "write", "htmlCas"}
    BY <1>8 DEF UpdateError
  <2>2. CASE UNCHANGED table
    BY <1>a, <1>8, <2>1, <2>2, LedgerQuiet DEF UpdateError, Billing, Deciding
  <2>3. CASE ~UNCHANGED table
    <3>1. Wins(mem[p]) /\ row' \in Row /\ row'.status \in Statuses
      BY <1>8, <2>3 DEF UpdateError, TInv, Shapes, SetRow, Row, Copy, Statuses, Final
    <3>2. Moves(p)
      BY <1>8, <2>1, <3>1, CasMoves DEF UpdateError
    <3> QED
      BY <1>a, <1>8, <2>1, <3>2, LedgerMove DEF UpdateError, amounts, Billing, Deciding
  <2> QED
    BY <2>2, <2>3
<1> QED
  BY <1>1, <1>2, <1>3, <1>4, <1>5, <1>6, <1>7, <1>8

\* The steps of task_billing.go.
LEMMA LedgerBill ==
  ASSUME TInv, CasOnly, TaskLedger, NEW p \in Pollers,
         \/ Settle(p) \/ SettleTaskToken(p) \/ Refund(p) \/ RefundToken(p)
         \/ FundingError(p) \/ TokenError(p)
  PROVE  TaskLedger'
<1> USE TaskConstants
    DEF Goto, Others, NoFault, Fault, table, amounts, AdjustFunding, AdjustToken, QuotaDelta
<1>a. /\ pc \in [Pollers -> PollerPCs \ {"save"}] /\ faults \in Nat
      /\ task.actual \in Nat /\ paid \in Int /\ tokenPaid \in Int /\ Quota \in Nat
      /\ bills \in {0, 1} /\ task.platform = "video"
  BY DEF TInv, Shapes, TaskLedger
<1>b. pc[p] \in Billing
  BY DEF Settle, SettleTaskToken, Refund, RefundToken, FundingError, TokenError,
         Billing, Deciding
<1>c. /\ row.status \in Final /\ (~unsettled => tokenPaid = Quota)
      /\ pc[p] \in Deciding => bills = 0 /\ (~unsettled => paid = Quota)
      /\ \A q \in Pollers : pc[q] \in Billing => q = p
  BY <1>b DEF TInv, OneBiller
<1>d. Owed(p) /\ (bills = 0 => refused = FALSE)
  BY DEF TaskLedger
<1>e. AfterBilling(p) \in {"list", "sleep"}
  BY <1>a DEF AfterBilling
<1>f. \A q \in Pollers : q # p => pc'[q] = pc[q] /\ pc'[q] \notin Billing
  BY <1>a, <1>c DEF Settle, SettleTaskToken, Refund, RefundToken, FundingError, TokenError
<1>g. /\ task' = task /\ row' = row /\ writer' = writer /\ faults' \in Nat
      /\ unsettled' = unsettled
      /\ bills' \in Nat
      /\ pc[p] \in Deciding => bills' # 0
      /\ pc[p] \notin Deciding => refused' = refused /\ bills' = bills
  BY <1>a DEF Settle, SettleTaskToken, Refund, RefundToken, FundingError, TokenError, Deciding
<1>h. bills' = 0 => refused' = FALSE
  BY <1>d, <1>g
<1>1. Owed(p)'
  <2>1. CASE Settle(p)
    BY <1>a, <1>c, <1>d, <2>1 DEF Settle, Owed, Billing, Deciding
  <2>2. CASE Refund(p)
    BY <1>a, <1>c, <1>d, <2>2 DEF Refund, Owed, Billing, Deciding
  <2>3. CASE SettleTaskToken(p) \/ RefundToken(p) \/ FundingError(p) \/ TokenError(p)
    <3>1. pc'[p] \in {"list", "sleep"}
      BY <1>a, <1>e, <2>3 DEF SettleTaskToken, RefundToken, FundingError, TokenError
    <3> QED
      BY <3>1 DEF Owed, Billing, Deciding
  <2> QED
    BY <2>1, <2>2, <2>3
<1>2. \A q \in Pollers : Owed(q)'
  BY <1>1, <1>f DEF Owed, Billing, Deciding
<1>3. Closed'
  <2>1. CASE Settle(p)
    BY <1>a, <1>b, <1>c, <1>d, <2>1 DEF Settle, Owed, Closed, NobodyBills, Due, Final, Billing, Deciding
  <2>2. CASE Refund(p)
    BY <1>a, <2>2 DEF Refund, Closed, NobodyBills, Billing, Deciding
  <2>3. CASE SettleTaskToken(p)
    BY <1>a, <1>c, <1>d, <2>3 DEF SettleTaskToken, Owed, Closed, Due
  <2>4. CASE RefundToken(p)
    BY <1>a, <1>c, <1>d, <2>4 DEF RefundToken, Owed, Closed, Due
  <2>5. CASE FundingError(p) \/ TokenError(p)
    BY <1>a, <2>5 DEF FundingError, TokenError, Closed
  <2> QED
    BY <2>1, <2>2, <2>3, <2>4, <2>5
<1> QED
  BY <1>g, <1>h, <1>2, <1>3 DEF TaskLedger

\* The submission, the provider and the clock.
LEMMA LedgerOutside ==
  ASSUME TInv, CasOnly, TaskLedger,
         \/ Submission
         \/ \E status \in Final : UpstreamEnds(status)
         \/ TimePasses \/ UserFetch \/ UNCHANGED vars
  PROVE  TaskLedger'
<1>a. pc' = pc /\ task' = task
  BY DEF Submission, Charge, ChargeRefused, ChargeError, Charged, InsertTask, InsertError, UpstreamEnds, TimePasses, UserFetch,
         FetchRead, FetchAnswer, FetchNoAnswer, FetchWrite, UserStep, vars
<1>b. faults \in Nat
  BY DEF TaskLedger
<1>1. CASE Submission
  <2>1. row.status = "ABSENT" /\ NobodyBills
    BY <1>1 DEF TInv, Charges, OneBiller, Submission, Charge, ChargeRefused, ChargeError, Charged, InsertTask, InsertError,
                NobodyBills, Final
  <2>2. /\ row'.status \notin Final /\ faults' \in Nat
        /\ bills' = bills /\ refused' = refused
    BY <1>b, <1>1, <2>1 DEF Submission, Charge, ChargeRefused, ChargeError, Charged, InsertTask, InsertError, Final, NoFault, Fault,
                            NoBilling, amounts, table
  <2> QED
    BY <1>a, <2>1, <2>2 DEF TaskLedger, Owed, Closed, NobodyBills, Billing, Deciding
<1>2. CASE ~Submission
  <2>1. table' = table /\ amounts' = amounts /\ faults' = faults
    BY <1>2 DEF UpstreamEnds, TimePasses, UserFetch, FetchRead, FetchAnswer, FetchNoAnswer,
                FetchWrite, UserStep, CasOnly, TInv, Shapes, NoBilling, NoFault, vars
  <2> QED
    BY <1>a, <1>b, <2>1, LedgerQuiet
<1> QED
  BY <1>1, <1>2

\* The inductive invariant of what a task has cost.
THEOREM TaskLedgerInvariant == CasOnly => (Spec => []TaskLedger)
<1> SUFFICES ASSUME CasOnly PROVE Spec => []TaskLedger
  OBVIOUS
<1>1. Init => TaskLedger
  BY DEF Init, TaskLedger, Owed, Closed, Final, Billing, Deciding
<1>2. TInv /\ TaskLedger /\ [Next]_vars => TaskLedger'
  BY LedgerRound, LedgerBill, LedgerOutside DEF Next, Work, Round, Faults
<1> QED
  BY <1>1, <1>2, TaskInvariant, PTL DEF Spec

\* TaskExact: when all pollers sleep, no call has failed and the submission was
\* settled, a task ended by a poll or by the sweep has cost the user and the token exactly what is due.
THEOREM TasksCostTheirDue == CasOnly => (Spec => []TaskExact)
<1>1. TaskLedger => TaskExact
  BY DEF TaskLedger, Closed, NobodyBills, TaskExact, AllAsleep, Billing, Deciding
<1> QED
  BY <1>1, TaskLedgerInvariant, PTL

-----------------------------------------------------------------------------
(* One poller and no fault: Suno's unconditional Save.                     *)

\* A refund of the sweep leaves a failed row; one of the poll comes before the
\* row is saved.
SweepRefunding(p) == pc[p] \in {"refund", "refundToken"} /\ mem[p].stage = "sweep"
PollRefunding(p)  == pc[p] \in {"refund", "refundToken"} /\ mem[p].stage = "poll"

\* Where the poller of a Suno task may be and what it holds.
SunoShapes(p) ==
    /\ task.platform = "suno" /\ userPc = "idle" /\ faults = 0
    /\ row \in Row /\ mem[p] \in Copy
    /\ pc \in [Pollers -> PollerPCs \ {"write", "htmlCas", "settle", "settleToken"}]
    /\ mem \in [Pollers -> Copy]
    /\ upstream \in {"IN_PROGRESS"} \cup Final
    /\ pc[p] \in {"fetch", "save"} => mem[p].stage = "poll"
    /\ pc[p] = "sweepCas" => mem[p].stage = "sweep"

\* Before the row exists.
SunoSubmission(p) ==
    submitPc # "done" =>
        /\ row.status = "ABSENT" /\ row.progress = "partial" /\ writer = "none"
        /\ pc[p] \in {"sleep", "list"}
        /\ bills = 0
        /\ submitPc = "insert" /\ ~unsettled => paid = Quota

\* The refund happens at most once, and before it everything is charged.
SunoCharges(p) ==
    submitPc = "done" =>
        /\ bills \in {0, 1} /\ (~unsettled => paid = (IF bills = 1 THEN 0 ELSE Quota))
        /\ pc[p] \in {"sweepCas", "fetch", "refund"} => bills = 0
        /\ pc[p] = "refundToken" => bills = 1
        /\ row.progress # "100%" /\ pc[p] \notin {"refundToken", "save"} => bills = 0

\* A row at 100% is polled no more; what will be saved is at 100% if it was
\* refunded, and refunded if it failed.
SunoRow(p) ==
    submitPc = "done" =>
        /\ row.status = "FAILURE" => row.progress = "100%"
        /\ pc[p] \in {"sweepCas", "fetch", "save"} \/ PollRefunding(p) => row.progress # "100%"
        /\ SweepRefunding(p) => row.progress = "100%"
        /\ PollRefunding(p) => mem[p].progress = "100%"
        /\ pc[p] = "save" =>
              /\ bills = 1 \/ mem[p].to = "FAILURE" => mem[p].progress = "100%"
              /\ mem[p].to = "FAILURE" => bills = 1 \/ Quota = 0
        /\ row.status = "FAILURE" /\ writer \in {"suno", "sweep"} /\ ~task.legacy =>
              bills = 1 \/ Quota = 0 \/ pc[p] = "refund"

SunoInv(p) == SunoShapes(p) /\ SunoSubmission(p) /\ SunoCharges(p) /\ SunoRow(p)
TSuno == task.platform = "suno" => \A p \in Pollers : SunoInv(p)

\* What the poller of a Suno task does next keeps the invariant.
LEMMA SunoWork ==
  ASSUME NEW p \in Pollers, SunoInv(p), Work(p)
  PROVE  SunoInv(p)'
<1> USE TaskConstants
    DEF SunoInv, SunoShapes, SunoSubmission, SunoCharges, SunoRow, SweepRefunding, PollRefunding,
        Goto, NoBilling, NoFault, Others, user, table, amounts, SetRow, PollerPCs, Row, Copy,
        Statuses, Final
<1>1. CASE Sweep(p)
  <2>1. mem'[p] \in Copy /\ mem' \in [Pollers -> Copy]
    BY <1>1 DEF Sweep, TimedOut, Unfinished
  <2> QED
    BY <1>1, <2>1 DEF Sweep, TimedOut, Unfinished
<1>2. CASE SweepCas(p)
  BY <1>2 DEF SweepCas, SweepRefunds
<1>3. CASE List(p)
  <2>1. mem'[p] \in Copy /\ mem' \in [Pollers -> Copy]
    BY <1>3, SMTT(30) DEF List, Unfinished
  <2>2. CASE Unfinished
    <3>1. mem'[p].stage = "poll" /\ pc'[p] = "fetch" /\ submitPc = "done" /\ bills = 0
      BY <1>3, <2>2 DEF List, Unfinished
    <3> QED
      BY <1>3, <2>1, <2>2, <3>1, SMTT(60) DEF List, Unfinished
  <2>3. CASE ~Unfinished
    BY <1>3, <2>1, <2>3 DEF List
  <2> QED
    BY <2>2, <2>3
<1>4. CASE Answer(p)
  <2>1. CASE FetchFails(p)
    BY <2>1 DEF FetchFails
  <2>2. CASE ChannelGone(p)
    BY <2>2 DEF ChannelGone
  <2>3. ASSUME NEW reason \in BOOLEAN, SunoAnswer(p, upstream, reason) PROVE SunoInv(p)'
    <3>1. mem' = [mem EXCEPT ![p] = [mem[p] EXCEPT !.to = upstream,
                                         !.progress = Progress(SunoDone(upstream, reason))]]
      BY <2>3 DEF SunoAnswer
    <3>2. /\ mem'[p] \in Copy /\ mem' \in [Pollers -> Copy]
          /\ mem'[p].stage = mem[p].stage /\ mem'[p].to = upstream
          /\ upstream \in Final \/ reason => mem'[p].progress = "100%"
      BY <3>1 DEF Progress, SunoDone
    <3> QED
      BY <2>3, <3>2 DEF SunoAnswer
  <2>4. /\ \A status \in {upstream, "FAILURE"} : ~VideoAnswer(p, status)
        /\ ~HtmlAnswer(p)
    BY DEF VideoAnswer, HtmlAnswer
  <2> QED
    BY <1>4, <2>1, <2>2, <2>3, <2>4 DEF Answer
<1>5. CASE SaveSuno(p)
  BY <1>5 DEF SaveSuno
<1>6. CASE Refund(p)
  BY <1>6 DEF Refund, AdjustFunding
<1>7. CASE RefundToken(p)
  <2>1. pc'[p] = IF mem[p].stage = "sweep" THEN "list" ELSE "save"
    BY <1>7 DEF RefundToken, AfterBilling
  <2> QED
    BY <1>7, <2>1 DEF RefundToken, AdjustToken, AfterBilling
<1>8. ~HtmlCas(p) /\ ~WriteVideo(p) /\ ~Settle(p) /\ ~SettleTaskToken(p)
  BY DEF HtmlCas, WriteVideo, Settle, SettleTaskToken
<1> QED
  BY <1>1, <1>2, <1>3, <1>4, <1>5, <1>6, <1>7, <1>8 DEF Work, Round

\* So do the submission, the provider and the clock.
LEMMA SunoOutside ==
  ASSUME NEW p \in Pollers, SunoInv(p), MaxFaults = 0,
         \/ Submission
         \/ \E status \in Final : UpstreamEnds(status)
         \/ TimePasses \/ UserFetch \/ UNCHANGED vars
  PROVE  SunoInv(p)'
<1> USE TaskConstants
    DEF SunoInv, SunoShapes, SunoSubmission, SunoCharges, SunoRow, SweepRefunding, PollRefunding,
        NoBilling, NoFault, Fault, user, table, amounts, Row, Statuses, Final
<1>1. CASE Charge \/ ChargeRefused
  BY <1>1 DEF Charge, ChargeRefused, Charged
<1>2. CASE InsertTask
  BY <1>2 DEF InsertTask
<1>3. ~InsertError /\ ~ChargeError
  BY DEF InsertError, ChargeError
<1>4. CASE \E status \in Final : UpstreamEnds(status)
  BY <1>4 DEF UpstreamEnds
<1>5. CASE TimePasses
  BY <1>5 DEF TimePasses
<1>6. ~UserFetch
  BY DEF UserFetch, FetchRead, FetchAnswer, FetchNoAnswer, FetchWrite
<1>7. CASE UNCHANGED vars
  BY <1>7 DEF vars
<1> QED
  BY <1>1, <1>2, <1>3, <1>4, <1>5, <1>6, <1>7 DEF Submission

\* SunoExact: with one poller and no failing call, a Suno task that failed is
\* refunded once before its row is saved, and one that ended otherwise keeps
\* its charge, that of a settled submission, whatever the sweep, the provider and the channel do.
THEOREM SunoIsExact == MaxFaults = 0 /\ (\E p : Pollers = {p}) => (Spec => []SunoExact)
<1> SUFFICES ASSUME MaxFaults = 0, \E p : Pollers = {p} PROVE Spec => []SunoExact
  OBVIOUS
<1>0. PICK p : Pollers = {p}
  OBVIOUS
<1> DEFINE SInv == task.platform = "suno" => SunoInv(p)
<1>1. Init => SInv
  <2>1. NoCopy \in Copy
    BY DEF NoCopy, Copy, Statuses
  <2> QED
    BY <1>0, <2>1 DEF Init, SunoInv, SunoShapes, SunoSubmission, SunoCharges, SunoRow,
                      PollerPCs, Row, Statuses
<1>2. SInv /\ [Next]_vars => SInv'
  <2> SUFFICES ASSUME SInv, [Next]_vars, task'.platform = "suno" PROVE SunoInv(p)'
    OBVIOUS
  <2>1. task' = task
    BY DEF Next, vars, Submission, Charge, ChargeRefused, ChargeError, Charged, InsertTask, InsertError, UpstreamEnds, TimePasses,
           Work, Round, Faults, Sweep, SweepCas, List, Answer, VideoAnswer, HtmlAnswer, SunoAnswer,
           FetchFails, ChannelGone, HtmlCas, WriteVideo, SaveSuno, Settle, SettleTaskToken,
           Refund, RefundToken, UpdateError, FundingError, TokenError, Restart, Others,
           UserFetch, FetchRead, FetchAnswer, FetchNoAnswer, FetchWrite, UserStep
  <2>2. SunoInv(p)
    BY <2>1
  <2>3. ~Faults(p)
    BY <2>2 DEF SunoInv, SunoShapes, Faults, UpdateError, FundingError, TokenError, Restart, Fault
  <2> QED
    BY <1>0, <2>2, <2>3, SunoWork, SunoOutside DEF Next
<1>3. SInv => SunoExact
  BY <1>0 DEF SunoExact, AllAsleep, SunoInv, SunoShapes, SunoSubmission, SunoCharges, SunoRow
<1> QED
  BY <1>1, <1>2, <1>3, PTL DEF Spec

-----------------------------------------------------------------------------
(* Funding source and token, for any platforms and any number of pollers.  *)

At(label) == {p \in Pollers : pc[p] = label}

\* What the two charges differ by is what is in hand: one adjustment for each
\* poller between its two calls.
InHand ==
    paid - tokenPaid = QuotaDelta * Cardinality(At("settleToken"))
                           - Quota * Cardinality(At("refundToken"))

AgreeShapes ==
    /\ pc \in [Pollers -> PollerPCs]
    /\ task.actual \in Nat /\ task.pre \in Nat
    /\ paid \in Int /\ tokenPaid \in Int
    /\ faults = 0
    /\ submitPc = "charge" =>
          row.status = "ABSENT" /\ userPc = "idle" /\ \A p \in Pollers : pc[p] \in {"sleep", "list"}

Agree == AgreeShapes /\ InHand

\* How many pollers are at a label, after one of them has moved.
LEMMA Arrives ==
  ASSUME IsFiniteSet(Pollers), pc \in [Pollers -> PollerPCs],
         NEW p \in Pollers, NEW l \in PollerPCs, pc' = [pc EXCEPT ![p] = l],
         NEW label \in PollerPCs
  PROVE  /\ Cardinality(At(label)) \in Nat
         /\ Cardinality(At(label)') =
              IF l = label /\ pc[p] # label THEN Cardinality(At(label)) + 1
              ELSE IF l # label /\ pc[p] = label THEN Cardinality(At(label)) - 1
              ELSE Cardinality(At(label))
<1>1. IsFiniteSet(At(label)) /\ Cardinality(At(label)) \in Nat
  BY FS_Subset, FS_CardinalityType DEF At
<1>2. CASE l = label /\ pc[p] # label
  <2>1. At(label)' = At(label) \cup {p} /\ p \notin At(label)
    BY <1>2 DEF At
  <2> QED
    BY <1>1, <1>2, <2>1, FS_AddElement
<1>3. CASE l # label /\ pc[p] = label
  <2>1. At(label)' = At(label) \ {p} /\ p \in At(label)
    BY <1>3 DEF At
  <2> QED
    BY <1>1, <1>3, <2>1, FS_RemoveElement
<1>4. CASE ~(l = label /\ pc[p] # label) /\ ~(l # label /\ pc[p] = label)
  <2>1. At(label)' = At(label)
    BY <1>4 DEF At
  <2> QED
    BY <1>1, <1>4, <2>1
<1> QED
  BY <1>2, <1>3, <1>4

\* One adjustment more, and one less.
LEMMA OneMore == \A a \in Int, n \in Nat : a * (n + 1) = a * n + a /\ a * (n - 1) = a * n - a
  OBVIOUS

\* No adjustment in hand.
LEMMA NoneInHand == \A a \in Int : a * 0 = 0
  OBVIOUS

Halves == {"settleToken", "refundToken"}

\* A step of a poller that is outside the two halves of a bill and stays there.
LEMMA AgreeQuiet ==
  ASSUME IsFiniteSet(Pollers), InHand, pc \in [Pollers -> PollerPCs],
         NEW p \in Pollers, NEW l \in PollerPCs \ Halves, pc' = [pc EXCEPT ![p] = l],
         pc[p] \notin Halves,
         task' = task, paid' = paid, tokenPaid' = tokenPaid
  PROVE  InHand'
<1>1. \A label \in Halves : Cardinality(At(label)') = Cardinality(At(label))
  BY Arrives DEF Halves, PollerPCs
<1> QED
  BY <1>1 DEF InHand, Halves, QuotaDelta

\* What a poller does keeps the difference in hand.
LEMMA AgreeWork ==
  ASSUME IsFiniteSet(Pollers), Agree, NEW p \in Pollers, Work(p)
  PROVE  Agree'
<1> USE TaskConstants DEF Goto, NoBilling, NoFault, Others, amounts, AdjustFunding, AdjustToken
<1>a. AgreeShapes /\ InHand /\ faults = 0 /\ pc \in [Pollers -> PollerPCs]
  BY DEF Agree, AgreeShapes
<1>b. AfterBilling(p) \in {"list", "save", "sleep"}
  BY DEF AfterBilling
<1>c. /\ Quota \in Nat /\ task.actual \in Nat /\ paid \in Int /\ tokenPaid \in Int
      /\ QuotaDelta \in Int
  BY <1>a DEF AgreeShapes, QuotaDelta
<1>1. CASE Sweep(p) \/ SweepCas(p) \/ List(p) \/ Answer(p) \/ HtmlCas(p) \/ WriteVideo(p)
           \/ SaveSuno(p)
  <2>1. /\ task' = task /\ paid' = paid /\ tokenPaid' = tokenPaid /\ faults' = faults
        /\ pc[p] \notin Halves
        /\ \E l \in PollerPCs \ Halves : pc' = [pc EXCEPT ![p] = l]
    BY <1>1 DEF Sweep, SweepCas, List, Answer, VideoAnswer, HtmlAnswer, SunoAnswer, FetchFails,
                ChannelGone, HtmlCas, WriteVideo, SaveSuno, Halves, PollerPCs
  <2>2. InHand'
    BY <1>a, <2>1, AgreeQuiet
  <2>3. AgreeShapes'
    <3>1. CASE submitPc # "charge"
      BY <1>a, <1>1, <2>1, <3>1 DEF AgreeShapes, Sweep, SweepCas, List, Answer, VideoAnswer,
           HtmlAnswer, SunoAnswer, FetchFails, ChannelGone, HtmlCas, WriteVideo, SaveSuno
    <3>2. CASE submitPc = "charge"
      <4>1. row.status = "ABSENT" /\ pc[p] \in {"sleep", "list"}
        BY <1>a, <3>2 DEF AgreeShapes
      <4>2. Sweep(p) \/ List(p)
        BY <1>1, <4>1 DEF SweepCas, Answer, VideoAnswer, HtmlAnswer, SunoAnswer, FetchFails,
                          ChannelGone, HtmlCas, WriteVideo, SaveSuno
      <4> QED
        BY <1>a, <2>1, <3>2, <4>1, <4>2
        DEF AgreeShapes, Sweep, List, TimedOut, Unfinished, user, table, PollerPCs
    <3> QED
      BY <3>1, <3>2
  <2> QED
    BY <2>2, <2>3 DEF Agree
<1>2. CASE Settle(p) \/ SettleTaskToken(p) \/ Refund(p) \/ RefundToken(p)
  <2>1. PICK l \in PollerPCs : pc' = [pc EXCEPT ![p] = l]
    BY <1>b, <1>2 DEF Settle, SettleTaskToken, Refund, RefundToken, PollerPCs
  <2>2. /\ task' = task /\ faults' = faults /\ submitPc' = submitPc
        /\ pc[p] \in {"settle", "refund", "settleToken", "refundToken"}
        /\ paid' \in Int /\ tokenPaid' \in Int
    BY <1>a, <1>c, <1>2 DEF Settle, SettleTaskToken, Refund, RefundToken
  <2>3. AgreeShapes'
    BY <1>a, <2>1, <2>2 DEF AgreeShapes
  <2> DEFINE S == Cardinality(At("settleToken"))
             R == Cardinality(At("refundToken"))
  <2>4. S \in Nat /\ R \in Nat
    BY <1>a, <2>1, Arrives DEF PollerPCs
  <2>5. /\ QuotaDelta * (S + 1) = QuotaDelta * S + QuotaDelta
        /\ QuotaDelta * (S - 1) = QuotaDelta * S - QuotaDelta
        /\ Quota * (R + 1) = Quota * R + Quota
        /\ Quota * (R - 1) = Quota * R - Quota
    BY <1>c, <2>4, OneMore
  <2>6. QuotaDelta' = QuotaDelta
    BY <2>2 DEF QuotaDelta
  <2>7. /\ S' = IF l = "settleToken" /\ pc[p] # "settleToken" THEN S + 1
                ELSE IF l # "settleToken" /\ pc[p] = "settleToken" THEN S - 1 ELSE S
        /\ R' = IF l = "refundToken" /\ pc[p] # "refundToken" THEN R + 1
                ELSE IF l # "refundToken" /\ pc[p] = "refundToken" THEN R - 1 ELSE R
    <3>1. "settleToken" \in PollerPCs /\ "refundToken" \in PollerPCs
      BY DEF PollerPCs
    <3>4. ASSUME NEW label \in PollerPCs
          PROVE  Cardinality(At(label)') =
                   IF l = label /\ pc[p] # label THEN Cardinality(At(label)) + 1
                   ELSE IF l # label /\ pc[p] = label THEN Cardinality(At(label)) - 1
                   ELSE Cardinality(At(label))
      BY <1>a, <2>1, Arrives, ZenonT(30)
    <3>2. S' = IF l = "settleToken" /\ pc[p] # "settleToken" THEN S + 1
               ELSE IF l # "settleToken" /\ pc[p] = "settleToken" THEN S - 1 ELSE S
      BY <3>1, <3>4
    <3>3. R' = IF l = "refundToken" /\ pc[p] # "refundToken" THEN R + 1
               ELSE IF l # "refundToken" /\ pc[p] = "refundToken" THEN R - 1 ELSE R
      BY <3>1, <3>4
    <3> QED BY <3>2, <3>3
  <2>8. l = pc'[p]
    BY <1>a, <2>1
  <2>9. paid - tokenPaid = QuotaDelta * S - Quota * R
    BY <1>a DEF InHand
  <2>10. QuotaDelta * S \in Int /\ Quota * R \in Int
    BY <1>c, <2>4
  <2> HIDE DEF S, R
  <2>11. paid' - tokenPaid' = QuotaDelta * S' - Quota * R'
    <3>1. CASE Settle(p)
      <4>1. /\ pc[p] = "settle" /\ tokenPaid' = tokenPaid
            /\ \/ l = "sleep" /\ paid' = paid
               \/ l = "settleToken" /\ paid' = paid + QuotaDelta
        BY <1>a, <2>8, <3>1 DEF Settle
      <4> QED
        BY <1>c, <2>4, <2>5, <2>7, <2>9, <2>10, <4>1
    <3>2. CASE SettleTaskToken(p)
      <4>1. /\ pc[p] = "settleToken" /\ l = "sleep"
            /\ paid' = paid /\ tokenPaid' = tokenPaid + QuotaDelta
        BY <1>a, <2>8, <3>2 DEF SettleTaskToken
      <4> QED
        BY <1>c, <2>4, <2>5, <2>7, <2>9, <2>10, <4>1
    <3>3. CASE Refund(p)
      <4>1. /\ pc[p] = "refund" /\ l = "refundToken"
            /\ paid' = paid - Quota /\ tokenPaid' = tokenPaid
        BY <1>a, <1>c, <2>8, <3>3 DEF Refund
      <4> QED
        BY <1>c, <2>4, <2>5, <2>7, <2>9, <2>10, <4>1
    <3>4. CASE RefundToken(p)
      BY <1>a, <1>b, <1>c, <2>2, <2>4, <2>5, <2>7, <2>8, <2>9, <2>10, <3>4 DEF RefundToken
    <3> QED
      BY <1>2, <3>1, <3>2, <3>3, <3>4
  <2>12. InHand'
    BY <2>6, <2>11 DEF InHand, S, R
  <2> QED
    BY <2>3, <2>12 DEF Agree
<1> QED
  BY <1>1, <1>2 DEF Work, Round

\* So do the submission, which charges both, and everything outside.
LEMMA AgreeOutside ==
  ASSUME IsFiniteSet(Pollers), MaxFaults = 0, Agree,
         \/ Submission
         \/ \E status \in Final : UpstreamEnds(status)
         \/ TimePasses \/ UserFetch \/ UNCHANGED vars
  PROVE  Agree'
<1> USE TaskConstants DEF NoBilling, NoFault, Fault, user, table, amounts
<1>a. AgreeShapes /\ InHand /\ faults = 0
  BY DEF Agree, AgreeShapes
<1>b. pc' = pc /\ task' = task /\ faults' = faults
  BY <1>a DEF Submission, Charge, ChargeRefused, ChargeError, Charged, InsertTask, InsertError, UpstreamEnds, TimePasses, UserFetch,
              FetchRead, FetchAnswer, FetchNoAnswer, FetchWrite, UserStep, vars
<1>c. QuotaDelta' = QuotaDelta /\ \A label : At(label)' = At(label)
  BY <1>b DEF QuotaDelta, At
<1>1. CASE Charge \/ ChargeRefused
  <2>1. At("settleToken") = {} /\ At("refundToken") = {}
    BY <1>a, <1>1 DEF AgreeShapes, Charge, ChargeRefused, Charged, At
  <2>2. InHand'
    <3>1. Cardinality(At("settleToken")') = 0 /\ Cardinality(At("refundToken")') = 0
      BY <1>c, <2>1, FS_EmptySet
    <3>2. QuotaDelta \in Int
      BY <1>a DEF AgreeShapes, QuotaDelta
    <3>3. QuotaDelta * 0 = 0 /\ Quota * 0 = 0
      BY <3>2, NoneInHand
    <3>4. /\ QuotaDelta' * Cardinality(At("settleToken")') = 0
          /\ Quota * Cardinality(At("refundToken")') = 0
      BY <1>c, <3>1, <3>3
    <3>5. paid' - tokenPaid' = 0
      BY <1>a, <1>1 DEF AgreeShapes, Charge, ChargeRefused, Charged
    <3> QED
      BY <3>4, <3>5 DEF InHand
  <2> QED
    BY <1>a, <1>b, <1>1, <2>2 DEF Agree, AgreeShapes, Charge, ChargeRefused, Charged
<1>2. CASE ~Charge /\ ~ChargeRefused
  <2>1. /\ paid' = paid /\ tokenPaid' = tokenPaid
        /\ submitPc' = "charge" => submitPc = "charge" /\ (row.status = "ABSENT" /\ userPc = "idle"
                                                 => row'.status = "ABSENT" /\ userPc' = "idle")
    BY <1>a, <1>2 DEF Submission, ChargeError, InsertTask, InsertError, UpstreamEnds, TimePasses,
         UserFetch, FetchRead, FetchAnswer, FetchNoAnswer, FetchWrite, UserStep, vars
  <2>2. InHand'
    BY <1>a, <1>c, <2>1 DEF InHand
  <2>3. AgreeShapes'
    BY <1>a, <1>b, <2>1 DEF AgreeShapes
  <2> QED
    BY <2>2, <2>3 DEF Agree
<1> QED
  BY <1>1, <1>2

\* ChargesAgree: as long as no call fails, funding source and token have been
\* charged the same whenever all pollers sleep, for every platform, however
\* many pollers settle or refund the same task and however often a user's
\* query reopens it.
THEOREM FundingAndTokenAgree ==
  IsFiniteSet(Pollers) /\ MaxFaults = 0 => (Spec => []ChargesAgree)
<1> SUFFICES ASSUME IsFiniteSet(Pollers), MaxFaults = 0 PROVE Spec => []ChargesAgree
  OBVIOUS
<1>1. Init => Agree
  <2> SUFFICES ASSUME Init PROVE Agree
    OBVIOUS
  <2>1. AgreeShapes
    <3>1. task.actual \in Nat /\ task.pre \in Nat
      BY TaskConstants DEF Init
    <3> QED
      BY <3>1 DEF Init, AgreeShapes, PollerPCs
  <2>2. At("settleToken") = {} /\ At("refundToken") = {} /\ QuotaDelta \in Int
    BY <2>1, TaskConstants DEF Init, At, QuotaDelta, AgreeShapes
  <2>3. QuotaDelta * 0 = 0 /\ Quota * 0 = 0
    BY <2>2, TaskConstants
  <2>4. /\ QuotaDelta * Cardinality(At("settleToken")) = 0
        /\ Quota * Cardinality(At("refundToken")) = 0
    BY <2>2, <2>3, FS_EmptySet
  <2>5. paid - tokenPaid = 0
    BY DEF Init
  <2> QED
    BY <2>1, <2>4, <2>5 DEF Agree, InHand
<1>2. Agree /\ [Next]_vars => Agree'
  <2> SUFFICES ASSUME Agree, [Next]_vars PROVE Agree'
    OBVIOUS
  <2>1. \A p \in Pollers : ~Faults(p)
    BY DEF Agree, AgreeShapes, Faults, UpdateError, FundingError, TokenError, Restart, Fault
  <2> QED
    BY <2>1, AgreeWork, AgreeOutside DEF Next
<1>3. Agree => ChargesAgree
  <2> SUFFICES ASSUME Agree, AllAsleep PROVE paid = tokenPaid
    BY DEF ChargesAgree
  <2>1. At("settleToken") = {} /\ At("refundToken") = {} /\ QuotaDelta \in Int
    BY TaskConstants DEF Agree, AgreeShapes, AllAsleep, At, QuotaDelta
  <2>2. QuotaDelta * 0 = 0 /\ Quota * 0 = 0
    BY <2>1, TaskConstants
  <2>3. paid - tokenPaid = 0
    BY <2>1, <2>2, FS_EmptySet DEF Agree, InHand
  <2> QED
    BY <2>3 DEF Agree, AgreeShapes
<1> QED
  BY <1>1, <1>2, <1>3, PTL DEF Spec

-----------------------------------------------------------------------------
(* Types, for every platform, channel and user query.                      *)

\* The step of a poller keeps the types.
LEMMA PollerTypes ==
  ASSUME TypeOK, NEW p \in Pollers, Work(p) \/ Faults(p)
  PROVE  TypeOK'
<1>1. UNCHANGED <<task, submitPc, upstream, late, userPc, userMem, fetches>>
  BY DEF Work, Round, Faults, Answer, Others, user, Sweep, SweepCas, List, ChannelGone, FetchFails,
         VideoAnswer, HtmlAnswer, HtmlCas, WriteVideo, SunoAnswer, SaveSuno, Settle,
         SettleTaskToken, Refund, RefundToken, UpdateError, FundingError, TokenError, Restart
<1>2. /\ mem[p] \in Copy /\ row \in Row /\ upstream \in Statuses
      /\ (Unfinished => row.status \in Statuses)
  BY DEF TypeOK, Statuses, Unfinished, Row
<1>3. AfterBilling(p) \in PollerPCs
  BY DEF AfterBilling, PollerPCs
<1>4. pc' \in [Pollers -> PollerPCs]
  <2>1. ASSUME NEW label \in PollerPCs, Goto(p, label) PROVE pc' \in [Pollers -> PollerPCs]
    BY <2>1 DEF Goto, TypeOK
  <2>2. {"sleep", "sweepCas", "list", "fetch", "htmlCas", "write", "settle",
          "settleToken", "refund", "refundToken", "save"} = PollerPCs
    BY DEF PollerPCs
  <2>3. CASE Work(p)
    <3>1. \E label \in PollerPCs : Goto(p, label)
      BY <1>3, <2>2, <2>3
         DEF Work, Round, Answer, Sweep, SweepCas, List, ChannelGone, FetchFails, VideoAnswer,
             HtmlAnswer, HtmlCas, WriteVideo, SunoAnswer, SaveSuno, Settle, SettleTaskToken,
             Refund, RefundToken
    <3> QED BY <2>1, <3>1
  <2>4. CASE Faults(p)
    <3>1. \E label \in PollerPCs : Goto(p, label)
      BY <1>3, <2>2, <2>4 DEF Faults, UpdateError, FundingError, TokenError, Restart
    <3> QED BY <2>1, <3>1
  <2> QED BY <2>3, <2>4
<1>5. mem' \in [Pollers -> Copy]
  <2>1. mem \in [Pollers -> Copy] BY DEF TypeOK
  <2>2. CASE mem' = mem BY <2>1, <2>2
  <2>3. ASSUME NEW copy \in Copy, mem' = [mem EXCEPT ![p] = copy]
        PROVE  mem' \in [Pollers -> Copy]
    BY <2>1, <2>3
  <2>4. CASE Sweep(p) \/ List(p)
    BY <1>2, <2>2, <2>3, <2>4 DEF Sweep, List, TimedOut, Copy, Statuses, Final
  <2>5. ASSUME NEW status \in Statuses, NEW complete,
               mem' = [mem EXCEPT ![p].to = status, ![p].progress = Progress(complete)]
        PROVE  mem' \in [Pollers -> Copy]
    <3>1. Progress(complete) \in {"partial", "100%"} BY DEF Progress
    <3>2. [mem[p] EXCEPT !.to = status, !.progress = Progress(complete)] \in Copy
      BY <1>2, <3>1 DEF Copy
    <3>3. mem' = [mem EXCEPT ![p] = [mem[p] EXCEPT !.to = status, !.progress = Progress(complete)]]
      BY <2>1, <2>5
    <3> QED BY <2>3, <3>2, <3>3
  <2>6. "FAILURE" \in Statuses BY DEF Statuses, Final
  <2>7. CASE Answer(p)
    BY <1>2, <2>2, <2>5, <2>6, <2>7
       DEF Answer, VideoAnswer, HtmlAnswer, SunoAnswer, FetchFails, ChannelGone
  <2> QED
    BY <2>2, <2>4, <2>7
       DEF Work, Round, Faults, SweepCas, HtmlCas, WriteVideo, SaveSuno, Settle, SettleTaskToken,
           Refund, RefundToken, UpdateError, FundingError, TokenError, Restart
<1>6. row' \in Row /\ writer' \in Writers
  <2>1. ASSUME UNCHANGED table PROVE row' \in Row /\ writer' \in Writers
    BY <2>1 DEF table, TypeOK
  <2>2. ASSUME NEW status \in Statuses, NEW progress \in {"partial", "100%"}, NEW who \in Writers,
               SetRow(status, progress, who)
        PROVE  row' \in Row /\ writer' \in Writers
    BY <2>2 DEF SetRow, Row
  <2>3. /\ mem[p].to \in Statuses /\ mem[p].progress \in {"partial", "100%"}
        /\ "FAILURE" \in Statuses /\ "100%" \in {"partial", "100%"}
        /\ {"sweep", "poll", "html", "bulk", "suno"} \subseteq Writers
    BY <1>2 DEF Copy, Statuses, Final, Writers
  <2>4. CASE Work(p)
    BY <2>1, <2>2, <2>3, <2>4
       DEF Work, Round, Answer, Sweep, SweepCas, List, ChannelGone, FetchFails, VideoAnswer, HtmlAnswer,
           HtmlCas, WriteVideo, SunoAnswer, SaveSuno, Settle, SettleTaskToken, Refund, RefundToken
  <2>5. CASE Faults(p)
    BY <2>1, <2>2, <2>3, <2>5 DEF Faults, UpdateError, FundingError, TokenError, Restart
  <2> QED BY <2>4, <2>5
<1>7. /\ paid' \in Int /\ tokenPaid' \in Int /\ bills' \in Nat /\ refused' \in BOOLEAN
      /\ unsettled' \in BOOLEAN
  <2>1. Quota \in Int /\ -Quota \in Int /\ QuotaDelta \in Int
    <3>1. task.actual \in Nat BY TaskConstants DEF TypeOK
    <3> QED BY <3>1, TaskConstants DEF QuotaDelta
  <2>2. paid \in Int /\ tokenPaid \in Int /\ bills \in Nat /\ refused \in BOOLEAN
    BY DEF TypeOK
  <2>3. \A delta \in Int : /\ AdjustFunding(delta) => paid' \in Int /\ tokenPaid' \in Int
                           /\ AdjustToken(delta) => paid' \in Int /\ tokenPaid' \in Int
    BY <2>2 DEF AdjustFunding, AdjustToken
  <2>4. paid' \in Int /\ tokenPaid' \in Int
    <3>1. CASE UNCHANGED <<paid, tokenPaid>> BY <2>2, <3>1
    <3>2. CASE Work(p)
      BY <2>1, <2>3, <3>1, <3>2
         DEF Work, Round, Answer, NoBilling, amounts, Sweep, SweepCas, List, ChannelGone, FetchFails,
             VideoAnswer, HtmlAnswer, HtmlCas, WriteVideo, SunoAnswer, SaveSuno, Settle,
             SettleTaskToken, Refund, RefundToken
    <3>3. CASE Faults(p)
      BY <2>1, <2>3, <3>1, <3>3
         DEF Faults, NoBilling, amounts, UpdateError, FundingError, TokenError, Restart
    <3> QED BY <3>2, <3>3
  <2>5. bills' \in {bills, bills + 1} /\ refused' \in {refused, TRUE} /\ unsettled' = unsettled
    BY DEF Work, Round, Faults, Answer, NoBilling, amounts, Sweep, SweepCas, List, ChannelGone, FetchFails,
           VideoAnswer, HtmlAnswer, HtmlCas, WriteVideo, SunoAnswer, SaveSuno, Settle,
           SettleTaskToken, Refund, RefundToken, UpdateError, FundingError, TokenError, Restart
  <2>6. bills' \in Nat
    BY <2>2, <2>5
  <2>7. refused' \in BOOLEAN /\ unsettled' \in BOOLEAN
    BY <2>2, <2>5, Zenon DEF TypeOK
  <2> QED BY <2>4, <2>6, <2>7
<1>8. faults' \in Nat
  <2>1. faults' \in {faults, faults + 1}
    BY DEF Work, Round, Faults, Answer, NoFault, Fault, Sweep, SweepCas, List, ChannelGone, FetchFails,
           VideoAnswer, HtmlAnswer, HtmlCas, WriteVideo, SunoAnswer, SaveSuno, Settle,
           SettleTaskToken, Refund, RefundToken, UpdateError, FundingError, TokenError, Restart
  <2> QED BY <2>1 DEF TypeOK
<1> QED
  BY <1>1, <1>4, <1>5, <1>6, <1>7, <1>8 DEF TypeOK

\* The steps of the submission, the provider, the clock and the user.
LEMMA OtherTypes ==
  ASSUME TypeOK,
         \/ Submission \/ TimePasses \/ UserFetch
         \/ \E status \in Final : UpstreamEnds(status)
  PROVE  TypeOK'
<1>1. CASE Submission
  <2>1. [status |-> "NOT_START", progress |-> "partial"] \in Row
    BY DEF Row, Statuses
  <2>2. task.pre \in Nat BY TaskConstants DEF TypeOK
  <2>3. Quota \in Int /\ task.pre \in Int BY <2>2, TaskConstants
  <2>4. CASE Charge \/ ChargeRefused \/ ChargeError
    <3>1. /\ paid' \in {Quota, task.pre} /\ tokenPaid' \in {Quota, task.pre}
          /\ unsettled' \in {unsettled, TRUE} /\ faults' \in {faults, faults + 1}
          /\ submitPc' = "insert"
      BY <2>4 DEF Charge, ChargeRefused, ChargeError, Charged, NoFault, Fault
    <3>2. UNCHANGED <<task, row, writer, upstream, late, pc, mem, userPc, userMem, fetches, bills,
                      refused>>
      BY <2>4 DEF Charge, ChargeRefused, ChargeError, Charged, table, user
    <3>3. unsettled' \in BOOLEAN
      BY <3>1, Zenon DEF TypeOK
    <3>4. paid' \in Int /\ tokenPaid' \in Int /\ faults' \in Nat
      BY <2>3, <3>1 DEF TypeOK
    <3> QED BY <3>1, <3>2, <3>3, <3>4 DEF TypeOK
  <2>5. CASE InsertTask \/ InsertError
    BY <2>1, <2>5 DEF InsertTask, InsertError, TypeOK, NoFault, Fault, NoBilling, amounts, user
  <2> QED BY <1>1, <2>4, <2>5 DEF Submission
<1>2. CASE TimePasses
  BY <1>2 DEF TimePasses, TypeOK, NoFault, NoBilling, amounts, table, user
<1>3. CASE \E status \in Final : UpstreamEnds(status)
  BY <1>3 DEF UpstreamEnds, TypeOK, NoFault, NoBilling, amounts, table, user
<1>4. CASE UserFetch
  <2>1. UNCHANGED <<task, submitPc, upstream, late, pc, mem, paid, tokenPaid, bills, refused, unsettled,
                  faults>>
    BY <1>4 DEF UserFetch, FetchRead, FetchAnswer, FetchNoAnswer, FetchWrite, UserStep, NoFault,
           NoBilling, amounts
  <2>2. userPc' \in {"idle", "ask", "write"} /\ fetches' \in Nat
    BY <1>4 DEF UserFetch, FetchRead, FetchAnswer, FetchNoAnswer, FetchWrite, TypeOK
  <2>3. NoCopy \in Copy
    BY DEF NoCopy, Copy, Statuses
  <2>4. userMem' \in Copy
    <3>1. CASE FetchRead
      <4>1. row.status \in Statuses BY <3>1 DEF FetchRead, TypeOK, Row
      <4> QED BY <2>3, <3>1, <4>1 DEF FetchRead, Copy
    <3>2. ASSUME NEW status \in {upstream, "FAILURE"}, FetchAnswer(status)
          PROVE  userMem' \in Copy
      <4>1. status \in Statuses BY <3>2 DEF TypeOK, Statuses, Final
      <4>2. Progress(status \in Final) \in {"partial", "100%"} BY DEF Progress
      <4> QED BY <3>2, <4>1, <4>2 DEF FetchAnswer, TypeOK, Copy
    <3> QED BY <1>4, <2>3, <3>1, <3>2 DEF UserFetch, FetchNoAnswer, FetchWrite
  <2>5. row' \in Row /\ writer' \in Writers
    <3>1. CASE UNCHANGED table BY <3>1 DEF table, TypeOK
    <3>2. CASE SetRow(userMem.to, userMem.progress, "fetch")
      BY <3>2 DEF SetRow, TypeOK, Row, Copy, Writers
    <3> QED BY <1>4, <3>1, <3>2 DEF UserFetch, FetchRead, FetchAnswer, FetchNoAnswer, FetchWrite
  <2> QED BY <2>1, <2>2, <2>4, <2>5 DEF TypeOK
<1> QED
  BY <1>1, <1>2, <1>3, <1>4

\* Type correctness of the task row, of every copy of it and of the charges, on all
\* platforms, with user queries, missing channels and any number of faults.
THEOREM TaskTypes == Spec => []TypeOK
<1>1. Init => TypeOK
  <2> SUFFICES ASSUME Init PROVE TypeOK
    OBVIOUS
  <2>1. row \in Row /\ writer \in Writers /\ userMem \in Copy /\ NoCopy \in Copy
    BY DEF Init, Row, Statuses, Copy, NoCopy, Writers
  <2>2. pc \in [Pollers -> PollerPCs] /\ mem \in [Pollers -> Copy]
    BY <2>1 DEF Init, PollerPCs
  <2>3. late \in BOOLEAN /\ refused \in BOOLEAN /\ unsettled \in BOOLEAN
    BY DEF Init
  <2> QED BY <2>1, <2>2, <2>3 DEF Init, TypeOK
<1>2. TypeOK /\ [Next]_vars => TypeOK'
  <2> SUFFICES ASSUME TypeOK, [Next]_vars PROVE TypeOK'
    OBVIOUS
  <2>1. CASE UNCHANGED vars
    BY <2>1 DEF vars, table, user, amounts, TypeOK
  <2> QED BY <2>1, PollerTypes, OtherTypes DEF Next
<1> QED
  BY <1>1, <1>2, PTL DEF Spec

=============================================================================
