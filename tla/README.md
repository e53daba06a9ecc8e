# tokengine: specification of billing, desktop shell and console pages

tokengine is a gateway to AI providers: it authenticates a request, chooses a
provider channel, relays the request and charges the user for it. This directory
specifies the parts in which order and failure decide and tests reach little:

- **charging** requests and asynchronous tasks, by concurrent requests, goroutines,
  pollers and user queries, with database calls that fail (Go);
- the **desktop shell**, which starts, watches and takes down the server (Electron);
- the **pages of the console that keep state across awaits**: the chat of the
  playground, the tests of a channel's models and the table of channels (React).

Paths are relative to the repository root. `PROJECT.json` gives, for every
definition, the lines it models (`map`), every run, mutant, finding, hazard and
theorem.

## 1. Inventory

| Component | State | Operations | Hard behaviour | What makes it correct |
|---|---|---|---|---|
| Billing session (`service/billing_session.go`) | settled/refunded flags, held quota, held token quota | `NewBillingSession`, `preConsume`, `Settle`, `SettleTokens`, `Refund` | rollback, fallback between sources, trust bypass, refund goroutine beside the fee | a request pays its cost, or its fee, once, from one source |
| Funding sources (`service/funding_source.go`) | amount consumed, subscription id | `PreConsume`, `Settle`, `Refund`, `refundWithRetry` | repeated refunds | no more is returned than was taken |
| Subscription counters (`model/subscription.go`) | the row with `amount_used`, `tokens_used`, status, period; pre-consume records | pre-consume, delta, refund, reset, invalidate | read, change and save of a whole row without a lock; ceilings, clamp at 0, nested transactions, reset beside open holds | counters stay within the ceiling; only an overwritten save or a reset makes them differ from what was billed |
| Quota helpers (`service/quota.go`, `billing.go`, `text_quota.go`, `violation_fee.go`) | - | `PreConsumeTokenQuota`, `PostConsumeQuota`, `PreWssConsumeQuota`, `SettleBilling*`, `ChargeViolationFeeIfNeeded` | check then decrease, two balances in two calls | funding source and token are charged alike |
| Relay controller (`controller/relay.go`) | - | `Relay`, `RelayTask` | deferred refund, order of settlement and insertion | every session is settled or refunded |
| Realtime session (`relay/channel/openai/relay-openai.go`) | `usage`, `localUsage` shared by three goroutines | client reader, target reader, final charge | data races, double charge at the end | what was reported is paid; the session stops |
| Tasks (`service/task_polling.go`, `task_billing.go`, `model/task.go`) | the task row | sweep, poll, settle, refund, compare-and-set | several pollers, crash between status and refund | one settlement or refund per task; final is final |
| Task query (`relay/relay_task.go`) | the same row | `tryRealtimeFetch` | writes the row beside the pollers | should not lose or repeat a refund |
| Subscription lifecycle (`service/subscription_reset_task.go`, `controller/subscription*.go`) | rows, plans, user groups | background reset, invalidation; purchase, deletion, downgrade | reset and invalidation beside running sessions | reset, end and invalidation are in `BillingSession`; the rest is not modelled yet |
| Midjourney (`controller/midjourney.go`) | the midjourney row | poll, refund | compare-and-set, bulk failure | not modelled yet |
| Batch update, caches (`model/utils.go`, `*_cache.go`) | sums in memory, Redis copies | add, flush, load, invalidate | stale reads, lost flush | not modelled yet |
| Channel choice (`service/channel_select.go`, `model/channel_cache.go`) | channel cache, multi-key index | select, retry, disable | retry over priorities and groups | not modelled yet |
| Top-up, redemption, check-in | orders, codes | pay, redeem | repeated callbacks | not modelled yet |
| Rate limiters | windows, buckets | request | boundary of the window | not modelled yet |
| Desktop shell (`electron/main.js`) | child process, promise of the start, windows, tray, dialogs, quit timers | start, poll, boot, tray, activate, close, quit, kill | timers and events of child, window and HTTP request in any order | the child never outlives the shell; the shell can be reached or ends |
| Playground (`web/src/hooks/playground`, `pages/Playground`, `configStorage.js`) | list of messages with ids that may repeat, current stream, stored copy, timers, dialogs | send, stream, stop, clear, resend, delete, edit, reset, reload | every handler writes to the last message; snapshots held by dialogs and timers | an answer reaches its own message and is stored |
| Channel tests (`useChannelsData.jsx`, `ModelTestModal.jsx`) | results, signs, stop flag, batches under way | test, batch, close | a coroutine outlives its dialog; stale closures | slices wait for their own calls; stop stops |
| Channel table (`useChannelsData.jsx`, `components/table/channels`) | rows, pager, filters, form, spinners, lists under way | load, search, refresh, page, narrow, sort, row operations | answers out of order, captured state | the rows are those the controls name |

Interactions in the front ends: the shell talks to the server by its port and its
process only. The pages call the server through `helpers/api.js`, where equal GETs
that are under way share one request; both channel modules model that sharing.

Interactions: `Relay`/`RelayTask` open a session; the session calls a funding
source and the token helpers; a successful handler settles it, the deferred
function of `Relay` refunds it in a goroutine and charges a violation fee. A task
request settles its session and inserts a row, from which point the pollers, the
sweep and the user's queries share the row. A realtime session opens a billing
session too, but pays through `PostConsumeQuota` while it runs.

## 2. Modules

| Module | What it is |
|---|---|
| `FundingOps` | the arithmetic of a subscription row: check, clamp, ceiling |
| `QuotaHold` | abstract: a hold that is open, then ends once as charged, released or kept |
| `BillingSession` | requests of one user on one token sharing wallet, allowance and a subscription row; its resets and its invalidation |
| `MCBillingSession` | TLC: symmetry |
| `BillingSession_proofs` | theorems about one session of `BillingSession` |
| `BillingBooks_proofs` | theorems about the balances the sessions share, and the refinement of `QuotaHold` |
| `TaskBilling` | one task, its pollers, the provider, the user's query |
| `TaskBilling_proofs` | theorems about `TaskBilling` |
| `Realtime`, `Realtime_proofs` | one realtime session, three goroutines |
| `DesktopShell`, `DesktopShell_proofs` | the Electron main process |
| `Playground`, `Playground_proofs` | one page of the playground |
| `ChannelTests`, `ChannelTests_proofs` | the dialog that tests a channel's models |
| `ChannelTable`, `ChannelTable_proofs` | the table of channels |

Operators whose comment begins with "Mutant of X" are deliberate errors, one step
away from the code; each shows that a property notices the error.

### BillingSession

`pc[r]` is the point the goroutine of request `r` has reached; `s[r]` is its
`BillingSession` with the fields of the funding source and of the relay info that
matter; `feePc[r]` is the violation fee, charged while the refund goroutine runs.
Balances: `quota` (users.quota), `remain` (tokens.remain_quota) and `row`
(user_subscriptions). `taken[r]` is a history variable that books what the calls of the
session asked for on each balance; `BooksBalance` and `CountersBalance` are stated
without it, as numbers of single units (`Units`): what a sum over the requests is to a
prover that has no induction over data.

**The row has no lock.** Wallet and allowance are changed by single SQL expressions and
one step each. The row is read, changed in a copy (`s[r].copy`, `feeCopy[r]`,
`resetCopy`) and saved with all its columns. The code asks for `FOR UPDATE` by
`Set("gorm:query_option", ...)`, which gorm v2 ignores, and uses `clause.Locking`
nowhere, so read and save are two steps and a save replaces whatever the row has become.
`intact` is a history variable: every save so far replaced the very row it had read. It
also becomes false with a reset, which gives up what was counted. `SubscriptionExact`
and `ImplementsHold` therefore speak of what the transactions of a session ask for;
what becomes of the row is said by `CountersBalance` (right as long as `intact`),
`WithinTotal` (always) and `UpdatedByDelta` and `CancelledStays`, which do not hold.

**Resets.** `now` counts reset periods (`Tick`); the subscription ends after `Periods`.
A quota pre-consumption resets a row that is due in its own copy (`MaybeReset`), as
`maybeResetUserSubscriptionWithPlanTx` does; the background task does the same
(`ResetDueSubscriptions`, `SaveReset`), and settlements, refunds and fees do not look at
the period. `AdminInvalidate` writes status and end alone. Status `expired` adds
nothing to an end that has passed, so the expiry task has no action.

One action is one database call with the code around it. `...Error` actions are
the same call returning an error, **applied or not** (`DBError`): the driver cannot
tell. The refund of a subscription commits twice: the counter in a transaction of its
own inside the one that marks the record (`SaveRefund`, then `RefundRecord`). A failing
query for the rows of a user is reported as "no active subscription" and falls back
like a shortage; other errors do not (`PreConsumeSubscriptionError`).

Abstractions, each as the code has it:

- The configuration without Redis and without batch updates: a quota call reaches
  the database at once. Statistics (`used_quota`, request counts), logs and
  notifications are left out: nothing here reads them.
- On MySQL and PostgreSQL the two transactions of a race both commit (the default
  isolation level of neither notices the overwritten update in gorm's `UPDATE`). On
  SQLite the second writer gets a busy error instead, which is a `DBError`.
- One subscription; the loop over several takes the first that has enough.
- A crash needs no action: the session lives in memory and there is no recovery
  code, so a crashed request is one that takes no more steps, which safety covers.
- Retries over channels are one outcome, success or failure; the session is
  opened before them and closed after them.
- "No subscription allows this model" is, like a shortage, a refusal; it is the
  case `~Active`.
- The free-model path opens no session. The playground has a made-up token; its
  held token quota is a number nobody charges.
- A text request may be billed in tokens; audio and task paths call `Settle` with
  quota, which a tokens source ignores.

### TaskBilling

Tasks do not share state, so one is enough. The submission settles a session that has
pre-consumed an estimate: `Charge`, or `ChargeRefused` and `ChargeError`, which
`RelayTask` only logs before it inserts the row with the whole quota (`unsettled` is a
history variable). The submission charges quota: a task of a tokens-type subscription is
not covered. `row` is the table row; `mem[p]` is the
copy a poller works on, with the status it read (`from`) for the compare-and-set.
`paid` and `tokenPaid` are what the task has cost. `Restart` stops a poller between
two calls; `UpdateError`, `FundingError`, `TokenError` and `InsertError` are failing
calls, applied or not. `SUBMITTED` and `QUEUED` behave like `IN_PROGRESS`.
Adaptors report 100% only with a final status. Whether a row is older than the
legacy cutoff and whether a subscription refuses an adjustment are free choices.
Suno's comparison of stored and reported status always finds a difference, so its
`Save` always happens.

### Realtime

`main` is the handler, `client` and `target` its readers. Accesses to the shared
counters are separate steps; the client's `+=` is a read and a write, and the write
goes to the object it read, which may have been replaced (`local.object`). The
wallet, the token and the subscription are moved by other requests too, so whether
a check passes is a free choice. Amounts are quota: the rounding of
`calculateAudioQuota` and its minimum of 1 are left out. `c.Done()` of gin never fires
and is left out.

### DesktopShell

Electron runs one callback at a time, so a callback is an action. `server` is the
child process as the operating system sees it, `serverProcess` the variable of that
name: the shell acts on the variable, the properties speak of the process.
`closeHandlers` counts the `close` listeners that `before-quit` has added; the child
runs them after the listener of `startServer`, in one action. `requests` and
`retryTimers` are counts because `req.destroy()` in the timeout handler raises
`error` too and arms a second timer. `orphans` are windows that `mainWindow` no
longer refers to (macOS: `activate` during boot); their handlers act on
`mainWindow`. How Electron closes windows on a quit (`CloseAllWindows`) and a quit
from outside (`SystemQuit`) are external. What a dialog or the log says is left out.

### Playground

One page, one thread. A message carries the request that asked for it (`own`) and
the set of those who wrote into it (`text`); neither exists in the code, which ties
no answer to its request, and both only serve the properties. `saves` are the
zero-delay timers that store a list, `saved` is localStorage, and `SaveTimer(FALSE)` is
a `setItem` that throws (the storage is full), which `saveMessages` only logs.

`overlapped` is a history variable: requests that were unfinished beside another one.
The code really mixes such answers, so three properties exempt them: `AnswersAreOwn`,
`GeneratingIsLast`, and `ReloadRepairs` for the messages before the last.
`CompletedIsSaved` and `FinishedIsFrozen` do not. Sends are blocked while the last
message is generating (by Semi's Chat, which is external), but there are short ways to
an overlap: clear the conversation, or reset the configuration, while an answer is
generated and send again; delete or edit; or let the 100 ms timer of a resend or of a
regeneration fire beside a send. What goes wrong then is shown by `StopClosesStreams`
(section 3).

**Ids repeat.** `id` is the id of the code, whose counter restarts at 4 with the page
(`FirstId`, `nextId`) while stored messages keep theirs; `key` tells messages apart in
the model. Handlers find their message by reference (`Place`) and some then act on all
messages of the id, as the code does. A reference is modelled by equality of the
records: keys differ, and a handler that changes a message makes a new object of it. If
no reference matches, the first message of the id is taken; the case that none has the
id (`Place(m) = {}` in `DeleteOk`) is in the code and cannot happen, since the dialog is
modal.

- `crashed`: completing the last message of an empty list throws and the error
  boundary replaces the page; only a reload goes on.
- The listener of `readystatechange` acts on a `status` that sse.js never sets; it
  has no action. A stream that ends without `[DONE]` has no listener (`StreamEnd`).
- Clicks wait for zero-delay timers (`Idle`), as a human does.
- Stored default messages are dropped by a page in Chinese (`IsDefault`); the
  language is a free choice.
- Request bodies, reasoning, debug panel, custom bodies and imports are left out.

### ChannelTests

What lies between two awaits is one action. `inFlight[<<c, m>>]` are the calls that
wait for the one GET of channel `c` and model `m`, each with the batch it belongs to
and the `isBatchTesting` its closure captured. A batch is a coroutine with a step:
its slice is under way, the pause of 100 ms, the 300 ms before the report. All
models of a channel are tested (the name filter is left out), and the Test button in
the table itself, which names no model, has a key of its own and is left out. The
URL of a test also has the endpoint type and the stream switch of the dialog; they
are taken as fixed while tests run. `stopBatchTesting` and `clearTestResults` have
no button.

### ChannelTable

Rows are abstracted to the view (page, filters, form) they were asked for, so "the
right rows" is an equality. A list under way has its kind, its view, its number, and
which signs its end clears: `finally` for the `finally` of a search, `after` for the
code of a caller that awaits it. Tab, status, tag mode, page size and order are one
`filter`. `clean` is a history variable: since the controls last chose a view,
nothing has crossed it that the code does not guard against (an unnumbered search,
an operation with captured rows, a form that was edited and not submitted, the
Refresh button, which passes its click event as the page, a refused or lost answer).
A deletion's step back to the page before is never taken: it looks at the captured
rows, of which there was at least the one deleted.

## 3. Runs

Passing runs, with the distinct states TLC finds:

| Run | States | Shows |
|---|---|---|
| `BillingBooks` | 1.9 M | no faults, two reset periods; text, playground and task requests, trust bypass, estimates 0 and 2, costs below and above: the token (`TokenExact`), the wallet (`BooksBalance`), the row while `intact` (`CountersBalance`), and what each session asks of its source, as a refinement of `QuotaHold` (`ImplementsHold`) |
| `BillingFaults` | 3.5 M | two failing calls (a rollback that fails needs a second), fees; a tokens-type subscription for text and audio, quota for the playground: `TypeOK`, `WalletExact`, `TokenExact`, `NoResidue`, `NeverOverRefunded`, `WithinTotal`, `SubscriptionExact`, `CountersBalance` |
| `TaskVideo` | 569 k | two pollers, one fault, unsettled submissions, nothing assumed of the provider: `BilledOnce`, `TaskNeverOverRefunded`, `TaskExact`, `FinalIsFinal`, `TaskEnds`, `FailureRefunded` |
| `TaskSingle` | 211 k | one poller, Suno and video, user queries, missing channels: `SunoExact`, `ChargesAgree` |
| `RealtimeCharges` | 183 k | `EveryResponsePaid`, `ChargedAtMostTwice`, `TokenFollowsFunding`, `SessionStops` |
| `Desktop` | 42 k | `NoServerLeft`, `NeverInvisible`, `QuitEnds`, `StartupSettles` |
| `Playground` | 788 k | `AnswersAreOwn`, `GeneratingIsLast`, `CompletedIsSaved`, `FinishedIsFrozen`, `ReloadRepairs` |
| `ChannelTests` | 122 k | `WaitsForItsCalls`, `SignMeansRequest`, `ReportIsComplete`, `StoppedSendsNothing`, `BatchEnds` |
| `ChannelTable` | 345 k | `ShowsSelection`, `SpinnerEnds` |

Runs in which what a comment or a test says is violated by the code:

| Run | Property | What happens |
|---|---|---|
| `BillingLostUpdate` | `UpdatedByDelta` | two charges of one subscription read the same row; the second save drops the first charge |
| `TaskReopened` | `TaskNeverOverRefunded` | a user's query reopens a refunded task, which is refunded again |
| `ChannelTestsStop` | `StoppedBatchWritesNothing` | the check after a request reads an `isBatchTesting` captured before the batch began, so a stopped batch still writes its results |

**Stated and known not to hold.** These definitions state what a comment says and
the code does not do; adding one to the named configuration as an `INVARIANT` (those
marked *, as a `PROPERTY`) shows the counterexample:

| Property | Add it to | What happens |
|---|---|---|
| `CancelledStays`* | `BillingBooks.cfg` | "marks a user subscription as cancelled and ends it immediately" (`model/subscription.go:780`): a charge that read the row before the cancellation saves it, status and end included, as active again |
| `RefundReturnsTokens` | `BillingFaults.cfg` | a failed request keeps the tokens it pre-consumed: `needsRefundLocked` (`service/billing_session.go:172`) does not know the tokens source |
| `SubscriptionRefundIdempotent` | `BillingFaults.cfg` | the outer commit of a refund fails and the retry decreases the counter again (`model/subscription.go:1157`) |
| `TaskEndsAnyway`* | `TaskVideo.cfg` | the sweep clears overdue tasks "独立" (independently, `service/task_polling.go:38`), but in the loop that also calls the provider: a call that hangs stops it |
| `RefundsThePreCharge` | `TaskVideo.cfg` | "将预扣的 quota 退还给用户" (the pre-charged quota is returned, `service/task_billing.go:151`): `RelayTask` only logs a refused settlement and stores the whole quota (`controller/relay.go:612`), which a failure then refunds |
| `FailedTasksAreRefunded` | `TaskSingle.cfg` | a user's query or a missing channel writes FAILURE and nobody refunds (`relay/relay_task.go:492`, `service/task_polling.go:338`) |
| `IdleSessionPaysNothing` | `RealtimeCharges.cfg` | the pre-consumption of a realtime session is never settled nor returned (`service/quota.go:157`) |
| `CleanExitClosesWindow` | `Desktop.cfg` | a server that exits with 0 should close the window ("直接关闭窗口", `electron/main.js:369`), but the window's own handler only hides it |
| `StopClosesStreams`* | `Playground.cfg`, `MaxClicks` 5 | "如果仍有活动的 SSE 连接，首先关闭" (an active connection is closed, `useApiRequest.jsx:495`): `[DONE]` of one of two streams forgets the source of the other, and Stop leaves it open |
| `DeletesTheTarget`* | `Playground.cfg`, `MaxClicks` 5 | "防止重复 id 造成误匹配" (against a wrong match by a repeated id, `useMessageActions.jsx:189`): after a reload a new message has the id of a stored one, and a deletion that found its message by reference filters by id and removes both |
| `LanguageKeepsConversation`* | `Playground.cfg` | a change of language replaces a conversation that was stored after the page was loaded (`usePlaygroundState.js:95`) |

**Bounds.** Two requests: sessions meet only in the balances, and every interference
(a check that another request invalidates, a ceiling, a clamp) needs two. The
balances (3 to 5) are smaller than two estimates plus two costs, so that shortages,
refusals at the ceiling and fallbacks happen; costs lie below and above the
estimate, `0` included where it matters. `BillingFaults` has two failing calls, the other
runs at most one, which keeps them small, since every save is a step of its own
(the theorems have no bound). `BillingBooks`
has two periods, hence one reset, and no fees; `BillingFaults` has one period and
fees of 1. Its token is linked to a tokens-type subscription, which a playground
request, having no token, does not see: it draws on the quota of the row. Two
pollers are enough for a lost compare-and-set; the theorems remove the bound.
`Realtime` sends two messages per side, enough for a charge to overlap with the next
message and with the end of the session. Requests are symmetric (`SYMMETRY` in the
safety runs only).

`Desktop`: three retries, so that the two timers of a timed-out request can both
reach the limit; two quits that find the server set. `Playground`: two requests are
what it takes for answers to mix; `MaxClicks` 4 is enough to send, edit or delete,
send again and reload (five clicks, 3.4 M states, were checked once); `MaxSaves` 2
holds the two saves a failing send makes. `ChannelTests`: three models in slices of
two give a full and a short slice; two batches can overlap; one test of a row at a
time (`MaxRows`). `ChannelTable`: two pages and two filters, four lists
(`MaxQueries`; an operation and the timer of Reset reserve theirs, `Room`), one
operation, one fault. In these four runs the user may stop clicking or use up the
bound, so deadlock is not checked.

**Fairness.** `BillingSession` has none, and no liveness property: a request may
stay at the upstream for ever. `RELAY_TIMEOUT` is 0 by default
(`common/init.go:104`) and the HTTP client then has no timeout
(`service/http_client.go:47`). `TaskBilling`: what a polling loop does by itself it
does (`Round`), and time passes; its calls to the provider need not return, for the
same reason. `TaskEnds` has the premise that some poller does not stay in such a
call for ever; without it the property is false (`TaskEndsAnyway`). `Realtime`:
goroutines run, and a reader whose connection the handler has closed ends; nobody
must send or hang up. `DesktopShell`: timers fire and an HTTP request is answered,
refused or times out (10 s); nothing is assumed of the user or of a server that was
told to stop. `ChannelTests`, `ChannelTable`: timers fire and a GET is answered or
fails; nothing is assumed of the user. `Playground` has no liveness property: a
provider may stream for ever.

## 4. Proofs

`BillingSession_proofs`, for any requests, balances, costs and any number of
failing calls, from `SessionConstants` (the constants are naturals, booleans and
subsets of the obvious sets):

- `TypeCorrect`: types, in particular counters that never become negative;
- `CeilingHolds`: `WithinTotal`. A save may rest on a row that has changed since, so the
  invariant says of every copy, too, that what it will save is within the ceiling: it
  was checked when the copy was read, and a reset only lowers it;
- `SessionInvariant`: `IInv = TypeOK /\ \A r : SessionInv(r)`;
- `WalletIsExact`, `TokenIsExact`, `SubscriptionIsExact`, `FallbackLeavesNothing`,
  `RefundsAreBounded`: consequences of `IInv`.

The properties speak of ended sessions (or of totals) and are not inductive.
`SessionInv(r)` says what a session has taken at every point: `Stages` (which
fields are set where, and that a session that may still fall back has touched no
source), `HeldAtLeast` (lower bounds that survive failing calls, since a failed
decrease may or may not have happened), `NoResidueOf`, and, for a request that met
no failing call, `WalletLedger` and `TokenLedger` (exact amounts, with the fee
beside them). A step of `r` changes only its own line (`StepFrame`, `FrameKeeps`),
so the invariant is proved for one request, with one lemma per phase (`OpenInv`,
`UpstreamInv`, `CloseInv`, `ErrorInv`).

`BillingBooks_proofs`, for any number of requests: the balances that the sessions
share. A counter of the row is clamped at 0 and refused at the ceiling, so what the
sessions asked for does not by itself say what it counts: that needs the counter to
hold at least what all sessions hold. A sum over requests is the cardinality of
`Units(f)`, and what a step does to it follows from the cardinality of finite sets
(`Booked`).

- `BooksInvariant`: `BooksInv = IInv /\ WalletBooked /\ CountersInv`. `WalletBooked`
  (the wallet is what it was less the units booked in `taken`) survives every failing
  call; `CountersInv` speaks of runs without one in which every save replaced the row it
  had read (`intact`): each counter is then the number of units asked for;
- `WalletBalances`, and `CountersAreRight`: lost updates and resets are the only ways in
  which the row miscounts. That they do happen is the run `BillingLostUpdate`;
- `SessionsImplementHold`: the full refinement `ImplementsHold`, under `QuotaOnly` (no
  failing calls, a token not linked to a tokens-type subscription: the constants of the
  run `BillingBooks`). It speaks of what a session asks of its source, whatever other
  transactions make of the row, resets included. Initial states map to initial states,
  and every step to `Hold`, `Charge`, `Release`, `Keep` or a stutter (`StepRefines`). A
  failing call breaks the refinement by design (a hold may remain), and tokens are
  another source.

`TaskBilling_proofs`, for any number of pollers, faults and restarts. All but the last
three are under `CasOnly` (a platform updated by compare-and-set, without user queries and
missing channels; the runs with a violation show that the premise is needed):

- `TaskInvariant`: `TInv`: a copy of an open row was open when read, at most one
  poller is billing and only after the row became final (`OneBiller`), and what has
  been charged follows from where that poller is (`Charges`);
- `BilledAtMostOnce`, `RefundWithinCharge`, `FinalStatusStays` (an action property: a
  poller that writes has read an open status, and the compare-and-set fails otherwise);
- `TaskLedgerInvariant` and `TasksCostTheirDue`: `TaskLedger` adds who wrote the end and
  what remains to be settled or refunded on source and token;
- `SunoIsExact`, from `MaxFaults = 0` and one poller: Suno refunds before an
  unconditional `Save`, so a second poller would refund again;
- `FundingAndTokenAgree`, from `MaxFaults = 0` and finitely many pollers, for all
  platforms, queries and missing channels: the difference of the two charges is what
  the pollers between their two calls still have to move, counted over the pollers;
- where amounts are concerned, all of these speak of a submission that was settled
  (`~unsettled`); `RefundsThePreCharge` without it does not hold;
- `TaskTypes`: `TypeOK`, with no premise: all platforms, user queries, missing channels
  and any number of faults.

`Realtime_proofs`, for any amounts, messages and failing calls:

- `RealtimeInvariant`: `RInv`: where the goroutines can be, which object the client's
  `+=` will write to, and what charges in progress have paid from source and token;
- `TokenIsChargedToo`, `ReportsArePaid`, `NothingIsChargedThrice`. The last bounds the
  charges of the target reader by what was reported and counted (`TargetBound`), and
  the final charge of the handler by the counters it can still read.

`DesktopShell_proofs`, for any number of retries and quits, from `ShellConstants`:

- `ShellInvariant`: `ShellInv`, the properties with `ChildInv` (`serverProcess` is set
  while the child runs, and in production until the shell exits, since only handlers
  that exit clear it), `PollInv` (`retryTimers + 2 * requests <= attempts + 1` and
  `attempts + retryTimers <= 2 * maxRetries - 1`: what two handlers can arm is limited
  by the attempts made) and `ScreenInv` (what tray, window and dialogs say about the
  start);
- `ServerTakenDown`, `StaysReachable`, `AttemptsAreBounded` (fewer than
  2 * maxRetries attempts), `WindowsFollowServer`, `ShellTypes`.

`ChannelTests_proofs`, for any channels, models, limit, batches and rows, from
`TestConstants`:

- `TestsInvariant`: `TestsInv`. `WaitsForItsCalls` looks only under the batch's own
  channel and is not inductive; `CallsAreAwaited` says of every call, under whatever
  key, that its batch is in that slice, and `AwaitedAreCalled` is the converse;
- `BatchesWaitForTheirCalls`, `SignsMeanRequests`, `ReportsAreComplete`, and
  `StoppedBatchesAreSilent` (an action property: `PauseTimer` is the only step of a
  batch that sends, and it asks for the flag).

`Playground_proofs`, for any number of requests, clicks and pending saves, from
`PlaygroundConstants`:

- `ConversationInvariant`: `PInv`. The properties speak of the list on the screen, but
  lists are copied (to storage, into pending saves, into the closure of the edit
  dialog) and any copy may come back. `ListsInv` therefore says of every copy what
  `AnswersAreOwn` and `GeneratingIsLast` say of the screen (`SoundList`), with the
  requests already sent: a new request finds nothing of its own anywhere (`Numbered`).
  `StreamsInv`: two open requests have overlapped, and the answer of one that is open
  alone is the last message, which is where every handler writes. `SavedInv`: the list
  saved last, or the stored one if none is pending (`Target`), has every complete
  streamed answer, unless the last `setItem` threw; the list is saved whole, so an
  earlier failure does not matter. Deleting and cutting off leave a part of a list
  (`Embeds`), all else
  changes a message in place (`Fits`) or appends;
- `TextIsOwn`, `LastIsGenerating`, `CompleteIsStored`, `TypeCorrect`;
- `LateAnswersChangeNothing` and `ReloadLeavesNothingOpen` (action properties).

`ChannelTable_proofs`, for any pages, filters and any number of lists, operations and
faults, from `PagesAssumption`:

- `TableInvariant`: `TableInv`. `ShowsSelection` speaks of the end, when nothing is
  pending; `Crossed` says what a clean choice relies on before: every list that may
  still change the table fits the selection (`Fits`), all such lists are one request,
  and once none is left the rows are the right ones. `Numbered` (no load carries a
  number above the counter) makes a new load the only one that applies;
- `TableShowsSelection`.

Every inductive invariant was checked by TLC on the constants of its run before it was
proved. With that, every safety invariant and every action property of the passing
runs, and the refinement, is stated by a theorem; the premises named above are the
only ones besides the assumptions on the constants.

Only model-checked: everything temporal with fairness (`TaskEnds`,
`FailureRefunded`, `SessionStops`, `QuitEnds`, `StartupSettles`, `BatchEnds`,
`SpinnerEnds`), which the prover does not do.

## 5. Not modelled

- **The rest of the console** (`web/src`). Most of its lines are forms, settings
  pages, dashboards, column definitions, charts, translations and formatting
  (`EditChannelModal.jsx`, `ParamOverrideEditorModal.jsx`, `Finance/Dashboard.jsx`,
  `helpers/render.jsx` are the longest files). They lay out fields and send one
  request per button; a model of them would restate markup, and no property of order
  or failure is at stake. What has such a property was modelled; the modules therefore
  cover a small part of the front end's lines. The tables of the other pages repeat
  the pattern of the channel table without its request numbers.
- **Provider adaptors and format conversion**: stateless. **Prices**: decimals over
  configuration; the modules take the amount as an input. **Accounts and OAuth**:
  checks local to a request. **Finance reports**: queries.
- **Go parts with state that are still to do**: see the plan.

## 6. Plan

Done: the charging core (billing session, tasks, realtime), the desktop shell and the
three pages that keep state across awaits, with theorems for every safety property.

Next modules, in this order:

1. `SubscriptionLifecycle`: purchase, deletion and the downgrade of the user group;
   composes with `FundingOps`.
2. `MidjourneyBilling`: the second poller, compared with `TaskBilling`.
3. `QuotaStore`: batch update and Redis copies behind `TakeQuota`/`TakeToken`, shown
   to implement the plain balances that `BillingSession` uses, up to a lag.
4. `ChannelSelect`: retry over priorities and groups, multi-key rotation,
   automatic disabling; termination of the retry loop.
5. `TopUp`: orders, redemption codes and check-ins credited once.
6. `RateLimit`: the in-memory window against a reference definition.

Next theorems: what failing calls leave of `ImplementsHold` (a hold that ended stays
where it is, whatever fails), and safety lemmas under the liveness properties (what
each waiting state waits for).
