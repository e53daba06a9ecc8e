---------------------------- MODULE TaskBilling -----------------------------
(***************************************************************************)
(* The life of an asynchronous task (video, Suno) after its submission:    *)
(* the polling loop of service/task_polling.go with its timeout sweep, the *)
(* task billing of service/task_billing.go, and the realtime fetch of      *)
(* relay/relay_task.go, by which a user's query moves the task row too.    *)
(*                                                                         *)
(* Tasks do not share state, so the module follows one task.  Its row is   *)
(* read and written by several pollers (every instance that is not a       *)
(* slave runs the loop) and by the user's query; the upstream finishes     *)
(* when it likes, and the response may be an error page.  What the task    *)
(* has been charged is kept in two amounts, one for the funding source     *)
(* and one for the API token.                                              *)
(***************************************************************************)
EXTENDS Integers

CONSTANTS
    Pollers,        \* processes that run TaskPollingLoop
    Platforms,      \* "video": compare-and-set updates; "suno": plain Save
    Estimates,      \* quota the submission pre-consumes
    Quota,          \* task.Quota: the submission's quota after its adjustment
    Actuals,        \* quota computed on completion (0: no adjustment)
    Sources,        \* funding sources of the task
    Legacies,       \* whether the row may come from the old system
    RealtimeFetch,  \* the channel is Gemini or Vertex
    ChannelErrors,  \* CacheGetChannel may fail
    MaxFetches,     \* bound: realtime fetches
    MaxFaults       \* bound: failing database calls and poller crashes

ASSUME TaskConstants ==
    /\ Platforms \subseteq {"video", "suno"}
    /\ Sources \subseteq {"wallet", "subscription"}
    /\ Legacies \subseteq BOOLEAN
    /\ Quota \in Nat /\ Estimates \subseteq Nat /\ Actuals \subseteq Nat
    /\ RealtimeFetch \in BOOLEAN /\ ChannelErrors \in BOOLEAN
    /\ MaxFetches \in Nat /\ MaxFaults \in Nat

VARIABLES
    task,       \* what does not change: platform, source, estimate, actual cost, legacy
    row,        \* the row of the tasks table
    submitPc,   \* the request that submits the task
    upstream,   \* the task at the provider
    late,       \* submit_time is before the timeout cutoff
    pc, mem,    \* each poller: control, and its copy of the row
    userPc, userMem, fetches,    \* the user's realtime fetch
    paid,       \* charged to the funding source, net
    tokenPaid,  \* charged to the token, net
    bills,      \* history: final settlements and refunds begun
    writer,     \* history: who wrote the status last
    refused,    \* history: the subscription refused the adjustment
    unsettled,  \* history: the settlement of the submission failed
    faults      \* history: faults so far

amounts == <<paid, tokenPaid, bills, refused, unsettled>>
user    == <<userPc, userMem, fetches>>
table   == <<row, writer>>
vars    == <<task, table, submitPc, upstream, late, pc, mem, user, amounts, faults>>

Final == {"SUCCESS", "FAILURE"}
\* SUBMITTED and QUEUED are treated like IN_PROGRESS.
Statuses == {"NOT_START", "IN_PROGRESS"} \cup Final

Row == [status : Statuses \cup {"ABSENT"}, progress : {"partial", "100%"}]
\* The copy a process works on: the status it read, the one it will write.
Copy == [from : Statuses, to : Statuses, progress : {"partial", "100%"},
         stage : {"sweep", "poll"}]
NoCopy == [from |-> "NOT_START", to |-> "NOT_START", progress |-> "partial",
           stage |-> "poll"]
Progress(complete) == IF complete THEN "100%" ELSE "partial"

PollerPCs == {"sleep", "sweepCas", "list", "fetch", "htmlCas", "write", "settle",
              "settleToken", "refund", "refundToken", "save"}
Writers == {"none", "sweep", "poll", "html", "bulk", "suno", "fetch"}

Init ==
    /\ task \in [platform : Platforms, source : Sources, pre : Estimates,
                 actual : Actuals, legacy : Legacies]
    /\ row = [status |-> "ABSENT", progress |-> "partial"]
    /\ submitPc = "charge"
    /\ upstream = "IN_PROGRESS"
    /\ late = FALSE
    /\ pc = [p \in Pollers |-> "sleep"]
    /\ mem = [p \in Pollers |-> NoCopy]
    /\ userPc = "idle" /\ userMem = NoCopy /\ fetches = 0
    /\ paid = 0 /\ tokenPaid = 0 /\ bills = 0 /\ refused = FALSE /\ unsettled = FALSE
    /\ writer = "none"
    /\ faults = 0

Goto(p, label) == pc' = [pc EXCEPT ![p] = label]
NoBilling == UNCHANGED amounts
NoFault == UNCHANGED faults
Fault == faults < MaxFaults /\ faults' = faults + 1

\* What one poller's step leaves alone.
Others == UNCHANGED <<task, submitPc, upstream, late, user>>

SetRow(status, progress, who) ==
    /\ row' = [status |-> status, progress |-> progress]
    /\ writer' = who

\* GetAllUnFinishSyncTasks, GetTimedOutUnfinishedTasks: the row is listed.
Unfinished == row.status \notin Final \cup {"ABSENT"} /\ row.progress # "100%"

\* Mutant of Wins: UPDATE without the status condition.
AlwaysWins(copy) == TRUE

\* UpdateWithStatus(from): the row still has the status that was read.
Wins(copy) == row.status = copy.from

-----------------------------------------------------------------------------
(* RelayTask: the session, which has pre-consumed the estimate, is settled  *)
(* with task.Quota; an error of the settlement is only logged.  Then the    *)
(* row is inserted.                                                         *)

Charged(funding, token) ==
    /\ submitPc = "charge"
    /\ submitPc' = "insert"
    /\ paid' = funding /\ tokenPaid' = token
    /\ UNCHANGED <<task, table, upstream, late, pc, mem, user, bills, refused>>

Charge ==
    /\ Charged(Quota, Quota)
    /\ NoFault /\ UNCHANGED unsettled

\* The subscription has not enough left for the difference.
ChargeRefused ==
    /\ task.source = "subscription" /\ task.pre < Quota
    /\ Charged(task.pre, task.pre)
    /\ unsettled' = TRUE
    /\ NoFault

\* A call of the settlement fails; it may have been applied.
ChargeError ==
    /\ task.pre # Quota
    /\ \E funding \in {task.pre, Quota} : \E token \in {task.pre, funding} :
           Charged(funding, token)
    /\ unsettled' = TRUE
    /\ Fault

InsertTask ==
    /\ submitPc = "insert"
    /\ submitPc' = "done"
    /\ row' = [status |-> "NOT_START", progress |-> "partial"]
    /\ NoFault /\ NoBilling
    /\ UNCHANGED <<task, writer, upstream, late, pc, mem, user>>

\* The insertion fails: the error is logged, the charge stays.
InsertError ==
    /\ submitPc = "insert"
    /\ submitPc' = "done"
    /\ row' \in {row, [status |-> "NOT_START", progress |-> "partial"]}
    /\ Fault /\ NoBilling
    /\ UNCHANGED <<task, writer, upstream, late, pc, mem, user>>

UpstreamEnds(status) ==
    /\ submitPc # "charge"
    /\ upstream = "IN_PROGRESS"
    /\ upstream' = status
    /\ NoFault /\ NoBilling
    /\ UNCHANGED <<task, table, submitPc, late, pc, mem, user>>

TimePasses ==
    /\ submitPc = "done" /\ ~late
    /\ late' = TRUE
    /\ NoFault /\ NoBilling
    /\ UNCHANGED <<task, table, submitPc, upstream, pc, mem, user>>

-----------------------------------------------------------------------------
(* A round of TaskPollingLoop: first the sweep.                            *)

AfterBilling(p) ==
    IF mem[p].stage = "sweep" THEN "list"
    ELSE IF task.platform = "suno" THEN "save" ELSE "sleep"

\* Mutant of TimedOut: tasks that never started are forgotten.
TimedOutStarted == late /\ Unfinished /\ row.status # "NOT_START"

TimedOut == late /\ Unfinished

\* sweepTimedOutTasks reads the row ...
Sweep(p) ==
    /\ pc[p] = "sleep"
    /\ IF TimedOut
       THEN /\ mem' = [mem EXCEPT ![p] = [from |-> row.status, to |-> "FAILURE",
                                          progress |-> "100%", stage |-> "sweep"]]
            /\ Goto(p, "sweepCas")
       ELSE UNCHANGED mem /\ Goto(p, "list")
    /\ NoFault /\ NoBilling /\ Others /\ UNCHANGED table

\* Mutant of SweepRefunds: no refund after a timeout.
SweepNeverRefunds == FALSE

\* A task of the old system is not refunded.
SweepRefunds == ~task.legacy /\ Quota # 0

\* ... and fails it if its status has not changed since.
SweepCas(p) ==
    /\ pc[p] = "sweepCas"
    /\ IF Wins(mem[p])
       THEN /\ SetRow("FAILURE", "100%", "sweep")
            /\ Goto(p, IF SweepRefunds THEN "refund" ELSE "list")
       ELSE UNCHANGED table /\ Goto(p, "list")
    /\ NoFault /\ NoBilling /\ Others /\ UNCHANGED mem

-----------------------------------------------------------------------------
(* Then the poll.                                                          *)

List(p) ==
    /\ pc[p] = "list"
    /\ IF Unfinished
       THEN /\ mem' = [mem EXCEPT ![p] = [from |-> row.status, to |-> row.status,
                                          progress |-> "partial", stage |-> "poll"]]
            /\ Goto(p, "fetch")
       ELSE UNCHANGED mem /\ Goto(p, "sleep")
    /\ NoFault /\ NoBilling /\ Others /\ UNCHANGED table

\* CacheGetChannel fails: TaskBulkUpdateByID, whatever the status is by now.
ChannelGone(p) ==
    /\ ChannelErrors /\ pc[p] = "fetch"
    /\ SetRow("FAILURE", "100%", "bulk")
    /\ Goto(p, "sleep")
    /\ NoFault /\ NoBilling /\ Others /\ UNCHANGED mem

\* FetchTask or ParseTaskResult fails, or the provider limits the rate.
FetchFails(p) ==
    /\ pc[p] = "fetch"
    /\ Goto(p, "sleep")
    /\ NoFault /\ NoBilling /\ Others /\ UNCHANGED <<table, mem>>

\* The provider answers with the task's status, or with an error body, which
\* counts as a failure.
VideoAnswer(p, status) ==
    /\ pc[p] = "fetch" /\ task.platform = "video"
    /\ mem' = [mem EXCEPT ![p].to = status, ![p].progress = Progress(status \in Final)]
    /\ Goto(p, "write")
    /\ NoFault /\ NoBilling /\ Others /\ UNCHANGED table

\* An HTML page fails a task that has not started.
HtmlAnswer(p) ==
    /\ pc[p] = "fetch" /\ task.platform = "video"
    /\ Goto(p, IF mem[p].from = "NOT_START" THEN "htmlCas" ELSE "sleep")
    /\ NoFault /\ NoBilling /\ Others /\ UNCHANGED <<table, mem>>

HtmlCas(p) ==
    /\ pc[p] = "htmlCas"
    /\ IF Wins(mem[p]) THEN SetRow("FAILURE", "100%", "html") ELSE UNCHANGED table
    /\ Goto(p, "sleep")
    /\ NoFault /\ NoBilling /\ Others /\ UNCHANGED mem

\* updateVideoSingleTask: whoever moves the row to a final status bills it.
WriteVideo(p) ==
    /\ pc[p] = "write"
    /\ IF Wins(mem[p])
       THEN /\ SetRow(mem[p].to, mem[p].progress, "poll")
            /\ Goto(p, CASE mem[p].to = "SUCCESS" -> "settle"
                         [] mem[p].to = "FAILURE" /\ Quota # 0 -> "refund"
                         [] OTHER -> "sleep")
       ELSE UNCHANGED table /\ Goto(p, "sleep")
    /\ NoFault /\ NoBilling /\ Others /\ UNCHANGED mem

\* Mutant of SunoDone: a failed task keeps its progress.
SunoDoneOnSuccess(status, reason) == status = "SUCCESS"

\* updateSunoTasks sets progress to 100% on success and on a failure reason.
SunoDone(status, reason) == status \in Final \/ reason

\* updateSunoTasks: a failed task, or one with a failure reason, is refunded
\* before the row is saved.
SunoAnswer(p, status, reason) ==
    /\ pc[p] = "fetch" /\ task.platform = "suno"
    /\ mem' = [mem EXCEPT ![p].to = status,
                            ![p].progress = Progress(SunoDone(status, reason))]
    /\ Goto(p, IF (reason \/ status = "FAILURE") /\ Quota # 0 THEN "refund" ELSE "save")
    /\ NoFault /\ NoBilling /\ Others /\ UNCHANGED table

\* task.Update(): DB.Save without a condition.
SaveSuno(p) ==
    /\ pc[p] = "save"
    /\ SetRow(mem[p].to, mem[p].progress, "suno")
    /\ Goto(p, "sleep")
    /\ NoFault /\ NoBilling /\ Others /\ UNCHANGED mem

-----------------------------------------------------------------------------
(* task_billing.go.                                                        *)

\* Mutant of QuotaDelta: charges the actual quota on top of the pre-charge.
FullActual == task.actual

QuotaDelta == task.actual - Quota

AdjustFunding(delta) == paid' = paid + delta /\ UNCHANGED tokenPaid
AdjustToken(delta) == tokenPaid' = tokenPaid + delta /\ UNCHANGED paid

\* settleTaskBillingOnComplete, RecalculateTaskQuota: the funding source.
Settle(p) ==
    /\ pc[p] = "settle"
    /\ bills' = bills + 1 /\ UNCHANGED unsettled
    /\ \/ /\ task.actual = 0 \/ QuotaDelta = 0
          /\ Goto(p, "sleep")
          /\ UNCHANGED <<paid, tokenPaid, refused>>
       \/ /\ task.actual > 0 /\ QuotaDelta # 0
          /\ Goto(p, "settleToken")
          /\ AdjustFunding(QuotaDelta) /\ UNCHANGED refused
       \* the subscription has not enough left
       \/ /\ task.actual > 0 /\ QuotaDelta > 0 /\ task.source = "subscription"
          /\ Goto(p, "sleep")
          /\ refused' = TRUE /\ UNCHANGED <<paid, tokenPaid>>
    /\ NoFault /\ Others /\ UNCHANGED <<table, mem>>

SettleTaskToken(p) ==
    /\ pc[p] = "settleToken"
    /\ AdjustToken(QuotaDelta) /\ UNCHANGED <<bills, refused, unsettled>>
    /\ Goto(p, "sleep")
    /\ NoFault /\ Others /\ UNCHANGED <<table, mem>>

\* RefundTaskQuota: the funding source, then the token.
Refund(p) ==
    /\ pc[p] = "refund"
    /\ bills' = bills + 1
    /\ AdjustFunding(-Quota) /\ UNCHANGED <<refused, unsettled>>
    /\ Goto(p, "refundToken")
    /\ NoFault /\ Others /\ UNCHANGED <<table, mem>>

\* Mutant of RefundToken: the token keeps the charge.
RefundTokenSkipped(p) ==
    /\ pc[p] = "refundToken"
    /\ NoBilling
    /\ Goto(p, AfterBilling(p))
    /\ NoFault /\ Others /\ UNCHANGED <<table, mem>>

RefundToken(p) ==
    /\ pc[p] = "refundToken"
    /\ AdjustToken(-Quota) /\ UNCHANGED <<bills, refused, unsettled>>
    /\ Goto(p, AfterBilling(p))
    /\ NoFault /\ Others /\ UNCHANGED <<table, mem>>

-----------------------------------------------------------------------------
(* Faults.  A call that returns an error may have been applied.            *)

UpdateError(p) ==
    /\ \/ /\ pc[p] = "sweepCas" /\ Goto(p, "list")
          /\ UNCHANGED table \/ (Wins(mem[p]) /\ SetRow("FAILURE", "100%", "sweep"))
       \/ /\ pc[p] = "write" /\ Goto(p, "sleep")
          /\ UNCHANGED table \/ (Wins(mem[p]) /\ SetRow(mem[p].to, mem[p].progress, "poll"))
       \/ /\ pc[p] = "htmlCas" /\ Goto(p, "sleep")
          /\ UNCHANGED table \/ (Wins(mem[p]) /\ SetRow("FAILURE", "100%", "html"))
    /\ Fault /\ NoBilling /\ Others /\ UNCHANGED mem

\* taskAdjustFunding fails: the token is left alone.
FundingError(p) ==
    /\ bills' = bills + 1
    /\ \/ /\ pc[p] = "refund" /\ Goto(p, AfterBilling(p))
          /\ UNCHANGED <<paid, tokenPaid>> \/ AdjustFunding(-Quota)
       \/ /\ pc[p] = "settle" /\ task.actual > 0 /\ QuotaDelta # 0 /\ Goto(p, "sleep")
          /\ UNCHANGED <<paid, tokenPaid>> \/ AdjustFunding(QuotaDelta)
    /\ Fault /\ Others /\ UNCHANGED <<table, mem, refused, unsettled>>

\* The token was deleted, or the call fails: logged and ignored.
TokenError(p) ==
    /\ \/ /\ pc[p] = "refundToken" /\ Goto(p, AfterBilling(p))
          /\ UNCHANGED <<paid, tokenPaid>> \/ AdjustToken(-Quota)
       \/ /\ pc[p] = "settleToken" /\ Goto(p, "sleep")
          /\ UNCHANGED <<paid, tokenPaid>> \/ AdjustToken(QuotaDelta)
    /\ Fault /\ Others /\ UNCHANGED <<table, mem, bills, refused, unsettled>>

\* The process of a poller stops between two calls and is started again.
Restart(p) ==
    /\ pc[p] # "sleep"
    /\ Goto(p, "sleep")
    /\ Fault /\ NoBilling /\ Others /\ UNCHANGED <<table, mem>>

-----------------------------------------------------------------------------
(* tryRealtimeFetch: reads the row whatever its status, asks the provider   *)
(* and writes the answer back, without billing.                            *)

UserStep == UNCHANGED <<task, submitPc, upstream, late, pc, mem>> /\ NoFault /\ NoBilling

FetchRead ==
    /\ RealtimeFetch /\ task.platform = "video"
    /\ userPc = "idle" /\ row.status # "ABSENT" /\ fetches < MaxFetches
    /\ fetches' = fetches + 1
    /\ userMem' = [NoCopy EXCEPT !.from = row.status]
    /\ userPc' = "ask"
    /\ UserStep /\ UNCHANGED table

FetchAnswer(status) ==
    /\ userPc = "ask"
    /\ userMem' = [userMem EXCEPT !.to = status, !.progress = Progress(status \in Final)]
    /\ userPc' = "write"
    /\ UserStep /\ UNCHANGED <<table, fetches>>

FetchNoAnswer ==
    /\ userPc = "ask"
    /\ userPc' = "idle" /\ userMem' = NoCopy
    /\ UserStep /\ UNCHANGED <<table, fetches>>

FetchWrite ==
    /\ userPc = "write"
    /\ IF Wins(userMem) /\ userMem.to # userMem.from
       THEN SetRow(userMem.to, userMem.progress, "fetch")
       ELSE UNCHANGED table
    /\ userPc' = "idle" /\ userMem' = NoCopy
    /\ UserStep /\ UNCHANGED fetches

-----------------------------------------------------------------------------

Submission == Charge \/ ChargeRefused \/ ChargeError \/ InsertTask \/ InsertError

Answer(p) ==
    \/ \E status \in {upstream, "FAILURE"} : VideoAnswer(p, status)
    \/ HtmlAnswer(p)
    \/ \E reason \in BOOLEAN : SunoAnswer(p, upstream, reason)
    \/ FetchFails(p)
    \/ ChannelGone(p)

\* What the poller does by itself, without waiting for the provider.
Round(p) ==
    \/ Sweep(p) \/ SweepCas(p) \/ List(p)
    \/ HtmlCas(p) \/ WriteVideo(p) \/ SaveSuno(p)
    \/ Settle(p) \/ SettleTaskToken(p) \/ Refund(p) \/ RefundToken(p)

Work(p) == Round(p) \/ Answer(p)

Faults(p) == UpdateError(p) \/ FundingError(p) \/ TokenError(p) \/ Restart(p)

UserFetch ==
    \/ FetchRead
    \/ \E status \in {upstream, "FAILURE"} : FetchAnswer(status)
    \/ FetchNoAnswer
    \/ FetchWrite

Next ==
    \/ Submission
    \/ \E status \in Final : UpstreamEnds(status)
    \/ TimePasses
    \/ \E p \in Pollers : Work(p) \/ Faults(p)
    \/ UserFetch

\* The polling loops run for ever and time passes.  The provider owes nothing,
\* not even an error: by default the HTTP client has no timeout.
Fairness == WF_vars(TimePasses) /\ \A p \in Pollers : WF_vars(Round(p))

Spec == Init /\ [][Next]_vars /\ Fairness

-----------------------------------------------------------------------------
(* Properties.                                                             *)

\* Every variable has its type.
TypeOK ==
    /\ task \in [platform : Platforms, source : Sources, pre : Estimates,
                 actual : Actuals, legacy : Legacies]
    /\ row \in Row /\ writer \in Writers
    /\ submitPc \in {"charge", "insert", "done"}
    /\ upstream \in {"IN_PROGRESS"} \cup Final
    /\ late \in BOOLEAN /\ refused \in BOOLEAN /\ unsettled \in BOOLEAN
    /\ pc \in [Pollers -> PollerPCs] /\ mem \in [Pollers -> Copy]
    /\ userPc \in {"idle", "ask", "write"} /\ userMem \in Copy /\ fetches \in Nat
    /\ paid \in Int /\ tokenPaid \in Int
    /\ bills \in Nat /\ faults \in Nat

\* Several pollers and a sweep may reach the end of a task together, and any
\* of them may stop half way; the compare-and-set of UpdateWithStatus lets one
\* settle or refund it.
BilledOnce == bills <= 1

\* What task_billing.go says of a failed task: the pre-charged quota is
\* returned, so no more than it ever is.
RefundsThePreCharge == paid >= 0 /\ tokenPaid >= 0

\* If the submission was settled, neither the funding source nor the token is
\* given back more than it took, whichever calls fail and whoever restarts.
TaskNeverOverRefunded == ~unsettled => RefundsThePreCharge

AllAsleep == \A p \in Pollers : pc[p] = "sleep"

\* What a finished task should have cost.
Due ==
    IF row.status = "FAILURE"
    THEN IF writer = "sweep" /\ task.legacy THEN Quota ELSE 0
    ELSE IF task.actual = 0 \/ refused \/ task.platform = "suno" THEN Quota ELSE task.actual

\* A task whose submission was settled and whose end was written by the sweep
\* or by a poll has cost its user and its token the recalculated quota on
\* success and nothing on failure.
TaskExact ==
    AllAsleep /\ faults = 0 /\ ~unsettled /\ row.status \in Final /\ writer \in {"sweep", "poll"}
        => paid = Due /\ tokenPaid = Due

\* Once final, a status never changes.
FinalIsFinal == [][row.status \in Final => row'.status = row.status]_vars

\* The comment of TaskPollingLoop: overdue tasks are cleared independently of
\* the polling.
TaskEndsAnyway == row.status # "ABSENT" ~> row.status \in Final

\* Every task that has a row ends, if the calls of some poller to the provider
\* end, with an answer or an error: the sweep of that poller fails the task
\* once it is too old.  A call that hangs stops the loop and with it the sweep.
TaskEnds == (\E p \in Pollers : []<>(pc[p] # "fetch")) => TaskEndsAnyway

\* A failure found by a poll or by the sweep is refunded in the end, unless the
\* submission was not settled, or a fault or a restart comes between the status
\* and the refund.
FailureRefunded ==
    row.status = "FAILURE" /\ writer \in {"sweep", "poll"} /\ ~task.legacy /\ ~unsettled
        ~> (paid = 0 /\ tokenPaid = 0) \/ faults > 0

\* With one poller, Suno's refund before the unconditional Save happens once,
\* and returns what a settled submission charged.
SunoExact ==
    task.platform = "suno" /\ AllAsleep /\ writer \in {"suno", "sweep"}
        => /\ bills <= 1
           /\ row.progress = "100%" /\ ~unsettled => paid = (IF bills = 1 THEN 0 ELSE Quota)
           /\ row.status = "FAILURE" /\ ~task.legacy => bills = 1 \/ Quota = 0

\* Funding source and token move together: between two rounds they have been
\* charged the same.
ChargesAgree == AllAsleep /\ submitPc # "charge" => paid = tokenPaid

\* What task_billing.go says of RefundTaskQuota: when a task fails, what was
\* pre-charged is returned.
FailedTasksAreRefunded ==
    AllAsleep /\ faults = 0 /\ ~unsettled /\ row.status = "FAILURE" /\ ~task.legacy => paid = 0

=============================================================================
