---------------------------- MODULE ChannelTests ----------------------------
(***************************************************************************)
(* Testing the models of a channel from the administration page:           *)
(* testChannel, batchTestModels and handleCloseModal of                    *)
(* hooks/channels/useChannelsData.jsx, with the sharing of identical GETs  *)
(* in helpers/api.js.                                                      *)
(*                                                                         *)
(* A batch tests the models of one channel in slices of concurrencyLimit.  *)
(* Closing the dialog stops it through a flag; the batch itself is a       *)
(* coroutine that only notices at its next check, and the dialog may have  *)
(* been opened, and another batch started, by then.  Everything between    *)
(* two awaits is one action.                                               *)
(***************************************************************************)
EXTENDS Integers, FiniteSets

CONSTANTS
    Channels,         \* channels whose dialog can be opened
    ModelCount,       \* models of a channel, tested in the order 1, 2, ...
    concurrencyLimit, \* requests of one slice (5 in the code)
    MaxBatches,       \* bound: batches started
    MaxRows           \* bound: tests of single rows under way at a time

ASSUME TestConstants ==
    /\ ModelCount \in Nat \ {0} /\ concurrencyLimit \in Nat \ {0} /\ MaxBatches \in Nat
    /\ MaxRows \in Nat /\ Channels # {}

VARIABLES
    dialog,         \* the channel whose dialog is open, as a set of at most one
    isBatchTesting, \* state of the dialog
    shouldStop,     \* shouldStopBatchTestingRef
    testingModels,  \* models shown as being tested
    results,        \* modelTestResults: the channels and models that have one
    inFlight,       \* per channel and model: the calls that await its GET
    batches,        \* the runs of batchTestModels
    overlapped      \* history: batches that ran beside another one

vars == <<dialog, isBatchTesting, shouldStop, testingModels, results, inFlight, batches,
          overlapped>>

Models  == 1..ModelCount
Batches == 1..MaxBatches
Keys    == Channels \X Models

\* A call of testChannel: its batch (0: the button of a row), and the value of
\* isBatchTesting that its closure has captured.
Calls == [batch : 0..MaxBatches, captured : BOOLEAN]

Steps == {"idle", "slice", "pause", "settle", "done"}
Live(b) == batches[b].step \in {"slice", "pause", "settle"}

Init ==
    /\ dialog = {} /\ isBatchTesting = FALSE /\ shouldStop = FALSE
    /\ testingModels = {} /\ overlapped = {}
    /\ results = {}
    /\ inFlight = [k \in Keys |-> {}]
    /\ batches = [b \in Batches |-> [step |-> "idle", channel |-> CHOOSE c \in Channels : TRUE,
                                     first |-> 0, pending |-> {}]]

-----------------------------------------------------------------------------
(* The coroutine of a batch.                                               *)

\* Mutant of Slice: the last slice runs past the end of the list.
SlicePastEnd(i) == i + 1 .. i + concurrencyLimit

\* models.slice(i, i + concurrencyLimit)
Slice(i) == {m \in Models : i < m /\ m <= i + concurrencyLimit}

\* The calls of testChannel for one slice.  A batch is started while isBatchTesting
\* is false, so that is what its calls have captured.
Launch(b, c, i) ==
    /\ testingModels' = testingModels \cup Slice(i)
    /\ inFlight' = [k \in Keys |->
                       IF k[1] = c /\ k[2] \in Slice(i)
                       THEN inFlight[k] \cup {[batch |-> b, captured |-> FALSE]}
                       ELSE inFlight[k]]
    /\ batches' = [batches EXCEPT ![b] = [step |-> "slice", channel |-> c, first |-> i,
                                          pending |-> Slice(i)]]

\* Mutant of AfterSlice: one slice too few.
AfterSliceShort(batch) ==
    IF shouldStop THEN "done"
    ELSE IF batch.first + 2 * concurrencyLimit < ModelCount THEN "pause" ELSE "settle"

\* Mutant of AfterSlice: a stopped batch returns without its finally.
AfterSliceHangs(batch) ==
    IF shouldStop THEN "slice"
    ELSE IF batch.first + concurrencyLimit < ModelCount THEN "pause" ELSE "settle"

\* Where a batch goes once all requests of its slice have settled.
AfterSlice(batch) ==
    IF shouldStop THEN "done"
    ELSE IF batch.first + concurrencyLimit < ModelCount THEN "pause" ELSE "settle"

\* Mutant of Answered: the slice is over with its first answer.
AnsweredFirst(batch, m) ==
    [batch EXCEPT !.pending = @ \ {m}, !.step = AfterSlice(batch)]

\* A batch of which model m has been answered.
Answered(batch, m) ==
    LET rest == batch.pending \ {m} IN
    [batch EXCEPT !.pending = rest, !.step = IF rest = {} THEN AfterSlice(batch) ELSE @]

-----------------------------------------------------------------------------
(* The dialog.                                                             *)

Open(c) ==
    /\ dialog = {}
    /\ dialog' = {c}
    /\ UNCHANGED <<isBatchTesting, shouldStop, testingModels, results, inFlight, batches,
                   overlapped>>

\* handleCloseModal.
Close ==
    /\ dialog # {}
    /\ dialog' = {} /\ isBatchTesting' = FALSE /\ testingModels' = {}
    /\ shouldStop' = (shouldStop \/ isBatchTesting)
    /\ UNCHANGED <<results, inFlight, batches, overlapped>>

\* batchTestModels up to its first await; it takes back a stop.
StartBatch(b) ==
    /\ ~isBatchTesting
    /\ batches[b].step = "idle" /\ \A a \in 1 .. b - 1 : batches[a].step # "idle"
    /\ isBatchTesting' = TRUE /\ shouldStop' = FALSE
    /\ \E c \in dialog :
        /\ results' = {k \in results : k[1] # c}
        /\ Launch(b, c, 0)
    /\ LET live == {a \in Batches : Live(a)} IN
       overlapped' = IF live = {} THEN overlapped ELSE overlapped \cup live \cup {b}
    /\ UNCHANGED dialog

\* Mutant of PauseTimer: the flag is not looked at.
PauseTimerUnchecked(b) ==
    /\ batches[b].step = "pause"
    /\ Launch(b, batches[b].channel, batches[b].first + concurrencyLimit)
    /\ UNCHANGED <<dialog, isBatchTesting, shouldStop, results, overlapped>>

\* 100 ms after a slice: the next one, unless the flag is set.
PauseTimer(b) ==
    /\ batches[b].step = "pause"
    /\ IF shouldStop
       THEN /\ batches' = [batches EXCEPT ![b].step = "done"] /\ isBatchTesting' = FALSE
            /\ UNCHANGED <<testingModels, inFlight>>
       ELSE /\ Launch(b, batches[b].channel, batches[b].first + concurrencyLimit)
            /\ UNCHANGED isBatchTesting
    /\ UNCHANGED <<dialog, shouldStop, results, overlapped>>

\* 300 ms after the last slice: the counts are reported.
SettleTimer(b) ==
    /\ batches[b].step = "settle"
    /\ batches' = [batches EXCEPT ![b].step = "done"]
    /\ isBatchTesting' = FALSE
    /\ UNCHANGED <<dialog, shouldStop, testingModels, results, inFlight, overlapped>>

\* The button of a row; it is disabled while its model is shown as being tested.
TestChannel(m) ==
    /\ Cardinality({k \in Keys : \E w \in inFlight[k] : w.batch = 0}) < MaxRows
    /\ m \notin testingModels /\ ~(shouldStop /\ isBatchTesting)
    /\ testingModels' = testingModels \cup {m}
    /\ \E c \in dialog :
        inFlight' = [inFlight EXCEPT ![<<c, m>>] =
                        @ \cup {[batch |-> 0, captured |-> isBatchTesting]}]
    /\ UNCHANGED <<dialog, isBatchTesting, shouldStop, results, batches, overlapped>>

-----------------------------------------------------------------------------
(* The answer of a GET, for all calls that share it.                       *)

\* The check after the await: every call finds the flag and its captured state set.
Drops(calls) == shouldStop /\ \A w \in calls : w.captured

\* Mutant of Shown: an answer that comes after a stop leaves the sign behind.
ShownUnlessStopped(k) == IF shouldStop THEN testingModels ELSE testingModels \ {k[2]}

\* The finally of testChannel.
Shown(k) == testingModels \ {k[2]}

\* The GET of k is answered, for every call that shares it.  Its URL also has the
\* endpoint type and the stream switch of the dialog, taken as fixed here: calls
\* with other settings would share another GET.
Answer(k, outcome) ==
    /\ inFlight[k] # {}
    /\ inFlight' = [inFlight EXCEPT ![k] = {}]
    /\ testingModels' = Shown(k)
    /\ results' = IF outcome = "answered" /\ Drops(inFlight[k]) THEN results
                  ELSE results \cup {k}
    /\ batches' = [b \in Batches |->
                     IF \E w \in inFlight[k] : w.batch = b
                     THEN Answered(batches[b], k[2]) ELSE batches[b]]
    /\ isBatchTesting' = (isBatchTesting
                           /\ \A b \in Batches : Live(b) => batches'[b].step # "done")
    /\ UNCHANGED <<dialog, shouldStop, overlapped>>

\* The server's answer, good or bad, or a failure of the network; each gives a result,
\* and no code looks at it again but to count.
Outcomes == {"answered", "rejected"}

Next ==
    \/ \E c \in Channels : Open(c)
    \/ Close
    \/ \E b \in Batches : StartBatch(b) \/ PauseTimer(b) \/ SettleTimer(b)
    \/ \E m \in Models : TestChannel(m)
    \/ \E k \in Keys, outcome \in Outcomes : Answer(k, outcome)

\* Timers fire, and every GET is answered or fails.  Nothing is assumed of the user.
Fairness ==
    /\ \A b \in Batches : WF_vars(PauseTimer(b)) /\ WF_vars(SettleTimer(b))
    /\ \A k \in Keys : WF_vars(\E outcome \in Outcomes : Answer(k, outcome))

Spec == Init /\ [][Next]_vars /\ Fairness

-----------------------------------------------------------------------------
(* Properties.                                                             *)

TypeOK ==
    /\ dialog \in SUBSET Channels /\ isBatchTesting \in BOOLEAN /\ shouldStop \in BOOLEAN
    /\ testingModels \in SUBSET Models
    /\ results \in SUBSET Keys
    /\ inFlight \in [Keys -> SUBSET Calls]
    /\ batches \in [Batches -> [step : Steps, channel : Channels, first : Nat,
                                pending : SUBSET Models]]
    /\ overlapped \in SUBSET Batches

\* A batch waits for exactly the requests of its slice that are still under way, so
\* neither a shared GET nor another batch can let it go on early or wait for ever.
WaitsForItsCalls ==
    \A b \in Batches : \A m \in Models :
        (\E w \in inFlight[<<batches[b].channel, m>>] : w.batch = b)
            <=> batches[b].step = "slice" /\ m \in batches[b].pending

\* A model is shown as being tested only while a request for it is under way: the
\* sign cannot stay behind after a failure, a stop or a shared answer.
SignMeansRequest ==
    \A m \in testingModels : \E c \in Channels : inFlight[<<c, m>>] # {}

\* A batch that ran alone reports only when every model has its result.
ReportIsComplete ==
    \A b \in Batches \ overlapped :
        batches[b].step = "settle" =>
            \A m \in Models : <<batches[b].channel, m>> \in results

\* The step sends no request of a batch, unless it takes back the stop.
SendsNothing ==
    shouldStop /\ shouldStop' =>
        \A k \in Keys : \A w \in inFlight'[k] \ inFlight[k] : w.batch = 0

\* Once stopped, and until another batch is started, no batch sends a request.
StoppedSendsNothing == [][SendsNothing]_vars

\* Every batch ends, whatever the user does meanwhile.
BatchEnds == \A b \in Batches : Live(b) ~> batches[b].step = "done"

\* "Check whether it was stopped during the request": the answer to a request of a
\* stopped batch changes no result.
StoppedBatchWritesNothing ==
    [][\A k \in Keys :
         shouldStop /\ inFlight[k] # {} /\ inFlight'[k] = {}
           /\ (\A w \in inFlight[k] : w.batch # 0)
         => results' = results]_vars
=============================================================================
