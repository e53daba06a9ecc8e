------------------------ MODULE ChannelTests_proofs ------------------------
(***************************************************************************)
(* Proofs about testing the models of a channel, for any number of         *)
(* channels, models and batches and any limit of concurrent requests.      *)
(***************************************************************************)
EXTENDS ChannelTests, TLAPS

\* A call of a batch belongs to the slice its batch is waiting for.
CallsAreAwaited ==
    \A k \in Keys : \A w \in inFlight[k] : w.batch # 0 =>
        /\ batches[w.batch].step = "slice"
        /\ k = <<batches[w.batch].channel, k[2]>>
        /\ k[2] \in batches[w.batch].pending

\* A batch that waits for a slice has a call under way for every model it waits for.
AwaitedAreCalled ==
    \A b \in Batches : batches[b].step = "slice" =>
        \A m \in batches[b].pending :
            \E w \in inFlight[<<batches[b].channel, m>>] : w.batch = b

\* The inductive invariant.
TestsInv == TypeOK /\ CallsAreAwaited /\ AwaitedAreCalled /\ SignMeansRequest

\* A batch as batches holds it.
Batch == [step : Steps, channel : Channels, first : Nat, pending : SUBSET Models]

LEMMA SliceIsModels == ASSUME NEW i PROVE Slice(i) \in SUBSET Models
  BY DEF Slice

LEMMA InitTests == Init => TestsInv
  <1> SUFFICES ASSUME Init PROVE TestsInv
    OBVIOUS
  <1>1. \A b \in Batches : batches[b].step = "idle"
    BY DEF Init
  <1>c. (CHOOSE c \in Channels : TRUE) \in Channels
    BY TestConstants
  <1>2. TypeOK
    BY <1>c DEF Init, TypeOK, Steps
  <1> QED BY <1>1, <1>2 DEF Init, TestsInv, CallsAreAwaited, AwaitedAreCalled, SignMeansRequest

\* A slice that is sent by a batch that waits for nothing.
LEMMA LaunchStep ==
    ASSUME TestsInv, NEW b \in Batches, NEW c \in Channels, NEW i \in Nat,
           batches[b].step # "slice", Launch(b, c, i)
    PROVE  /\ testingModels' \in SUBSET Models
           /\ inFlight' \in [Keys -> SUBSET Calls]
           /\ batches' \in [Batches -> Batch]
           /\ CallsAreAwaited' /\ AwaitedAreCalled' /\ SignMeansRequest'
  <1> USE DEF TestsInv
  <1> DEFINE call == [batch |-> b, captured |-> FALSE]
             new == [step |-> "slice", channel |-> c, first |-> i, pending |-> Slice(i)]
  <1>1. call \in Calls
    BY TestConstants DEF Calls, Batches
  <1>2. new \in Batch
    BY SliceIsModels DEF Batch, Steps
  <1>3. /\ testingModels' = testingModels \cup Slice(i)
        /\ inFlight' = [k \in Keys |-> IF k[1] = c /\ k[2] \in Slice(i)
                                       THEN inFlight[k] \cup {call} ELSE inFlight[k]]
        /\ batches' = [batches EXCEPT ![b] = new]
    BY DEF Launch
  <1>4. /\ batches \in [Batches -> Batch] /\ inFlight \in [Keys -> SUBSET Calls]
        /\ testingModels \in SUBSET Models
    BY DEF TypeOK, Batch
  <1>5. inFlight' \in [Keys -> SUBSET Calls]
    BY <1>1, <1>3, <1>4
  <1>6. batches' \in [Batches -> Batch]
    BY <1>2, <1>3, <1>4
  <1>7. batches'[b] = new /\ \A a \in Batches : a # b => batches'[a] = batches[a]
    BY <1>3, <1>4
  <1>8. \A k \in Keys : \A w \in inFlight'[k] :
            w \in inFlight[k] \/ (w = call /\ k[1] = c /\ k[2] \in Slice(i))
    BY <1>3, <1>4
  <1>9. \A k \in Keys : \A w \in inFlight[k] : w.batch # b /\ w \in Calls
    <2> SUFFICES ASSUME NEW k \in Keys, NEW w \in inFlight[k] PROVE w.batch # b /\ w \in Calls
      OBVIOUS
    <2>1. w \in Calls
      BY <1>4
    <2>2. w.batch # 0 => batches[w.batch].step = "slice"
      BY DEF CallsAreAwaited
    <2>3. b # 0
      BY DEF Batches
    <2> QED BY <2>1, <2>2, <2>3
  <1>10. CallsAreAwaited'
    <2> SUFFICES ASSUME NEW k \in Keys, NEW w \in inFlight'[k], w.batch # 0
                 PROVE  /\ batches'[w.batch].step = "slice"
                        /\ k = <<batches'[w.batch].channel, k[2]>>
                        /\ k[2] \in batches'[w.batch].pending
      BY DEF CallsAreAwaited
    <2>1. CASE w \in inFlight[k]
      <3>1. w.batch \in Batches /\ w.batch # b
        BY <2>1, <1>9 DEF Calls, Batches
      <3> QED BY <2>1, <3>1, <1>7 DEF CallsAreAwaited
    <2>2. CASE w = call /\ k[1] = c /\ k[2] \in Slice(i)
      BY <2>2, <1>7 DEF Keys
    <2> QED BY <1>8, <2>1, <2>2
  <1>11. AwaitedAreCalled'
    <2> SUFFICES ASSUME NEW a \in Batches, batches'[a].step = "slice",
                        NEW m \in batches'[a].pending
                 PROVE  \E w \in inFlight'[<<batches'[a].channel, m>>] : w.batch = a
      BY DEF AwaitedAreCalled
    <2>1. <<batches'[a].channel, m>> \in Keys
      BY <1>6 DEF Batch, Keys
    <2>2. CASE a = b
      <3>1. m \in Slice(i) /\ batches'[a].channel = c
        BY <2>2, <1>7
      <3>2. call \in inFlight'[<<batches'[a].channel, m>>] /\ call.batch = a
        BY <2>1, <2>2, <3>1, <1>3
      <3> HIDE DEF call
      <3> QED BY <3>2
    <2>3. CASE a # b
      <3>1. batches'[a] = batches[a]
        BY <2>3, <1>7
      <3>2. PICK w \in inFlight[<<batches[a].channel, m>>] : w.batch = a
        BY <3>1 DEF AwaitedAreCalled
      <3>3. w \in inFlight'[<<batches'[a].channel, m>>]
        BY <2>1, <3>1, <3>2, <1>3
      <3> QED BY <3>2, <3>3
    <2> QED BY <2>2, <2>3
  <1>12. SignMeansRequest'
    <2> SUFFICES ASSUME NEW m \in testingModels'
                 PROVE  \E d \in Channels : inFlight'[<<d, m>>] # {}
      BY DEF SignMeansRequest
    <2>0. m \in Models
      BY <1>3, <1>4, SliceIsModels
    <2>1. CASE m \in Slice(i)
      <3>1. <<c, m>> \in Keys
        BY <2>0 DEF Keys
      <3>2. call \in inFlight'[<<c, m>>]
        BY <2>1, <3>1, <1>3
      <3> QED BY <3>2
    <2>2. CASE m \in testingModels
      <3>1. PICK d \in Channels : inFlight[<<d, m>>] # {}
        BY <2>2 DEF SignMeansRequest
      <3>2. <<d, m>> \in Keys
        BY <2>0 DEF Keys
      <3> QED BY <3>1, <3>2, <1>3
    <2> QED BY <1>3, <2>1, <2>2
  <1> QED BY <1>3, <1>4, <1>5, <1>6, <1>10, <1>11, <1>12, SliceIsModels

-----------------------------------------------------------------------------
(* The dialog and the timers.                                              *)

LEMMA DialogStep ==
    ASSUME TestsInv
    PROVE  /\ \A c \in Channels : Open(c) => TestsInv'
           /\ Close => TestsInv'
           /\ \A b \in Batches : StartBatch(b) => TestsInv'
           /\ \A b \in Batches : PauseTimer(b) => TestsInv'
           /\ \A b \in Batches : SettleTimer(b) => TestsInv'
           /\ \A m \in Models : TestChannel(m) => TestsInv'
  <1> USE DEF TestsInv
  <1>1. ASSUME NEW c \in Channels, Open(c) PROVE TestsInv'
    BY <1>1 DEF Open, TypeOK, CallsAreAwaited, AwaitedAreCalled, SignMeansRequest
  <1>2. ASSUME Close PROVE TestsInv'
    BY <1>2 DEF Close, TypeOK, CallsAreAwaited, AwaitedAreCalled, SignMeansRequest
  <1>3. ASSUME NEW b \in Batches, StartBatch(b) PROVE TestsInv'
    <2>1. PICK c \in dialog : /\ results' = {k \in results : k[1] # c}
                              /\ Launch(b, c, 0)
      BY <1>3 DEF StartBatch
    <2>2. c \in Channels /\ batches[b].step # "slice" /\ 0 \in Nat
      BY <1>3 DEF TypeOK, StartBatch
    <2>3. /\ testingModels' \in SUBSET Models
          /\ inFlight' \in [Keys -> SUBSET Calls]
          /\ batches' \in [Batches -> Batch]
          /\ CallsAreAwaited' /\ AwaitedAreCalled' /\ SignMeansRequest'
      BY <2>1, <2>2, LaunchStep
    <2>4. overlapped' \in SUBSET Batches
      BY <1>3 DEF StartBatch, TypeOK
    <2>5. TypeOK'
      BY <1>3, <2>1, <2>3, <2>4 DEF StartBatch, TypeOK, Batch
    <2> QED BY <2>3, <2>5
  <1>4. ASSUME NEW b \in Batches, PauseTimer(b) PROVE TestsInv'
    <2>1. CASE shouldStop
      <3>1. batches' = [batches EXCEPT ![b].step = "done"]
        BY <1>4, <2>1 DEF PauseTimer
      <3>2. batches[b].step = "pause"
        BY <1>4 DEF PauseTimer
      <3>3. TypeOK'
        BY <1>4, <2>1, <3>1 DEF PauseTimer, TypeOK, Steps
      <3>4. inFlight' = inFlight /\ testingModels' = testingModels
        BY <1>4, <2>1 DEF PauseTimer
      <3>5. \A a \in Batches : a # b => batches'[a] = batches[a]
        BY <3>1 DEF TypeOK
      <3>6. batches'[b].step = "done"
        BY <3>1 DEF TypeOK
      <3>7. \A k \in Keys : \A w \in inFlight[k] : w.batch # 0 => w.batch \in Batches \ {b}
        BY <3>2 DEF TypeOK, Calls, Batches, CallsAreAwaited
      <3>8. CallsAreAwaited'
        BY <3>4, <3>5, <3>7 DEF CallsAreAwaited
      <3>9. AwaitedAreCalled'
        BY <3>4, <3>5, <3>6 DEF AwaitedAreCalled
      <3> QED BY <3>3, <3>4, <3>8, <3>9 DEF SignMeansRequest
    <2>2. CASE ~shouldStop
      <3>1. /\ Launch(b, batches[b].channel, batches[b].first + concurrencyLimit)
            /\ batches[b].step # "slice"
        BY <1>4, <2>2 DEF PauseTimer
      <3>2. PICK c \in Channels, i \in Nat :
               c = batches[b].channel /\ i = batches[b].first + concurrencyLimit
        BY TestConstants DEF TypeOK
      <3>3. Launch(b, c, i)
        BY <3>1, <3>2 DEF Launch
      <3>4. /\ testingModels' \in SUBSET Models
            /\ inFlight' \in [Keys -> SUBSET Calls]
            /\ batches' \in [Batches -> Batch]
            /\ CallsAreAwaited' /\ AwaitedAreCalled' /\ SignMeansRequest'
        BY <3>1, <3>3, LaunchStep
      <3>5. TypeOK'
        BY <1>4, <2>2, <3>4 DEF PauseTimer, TypeOK, Batch
      <3> QED BY <3>4, <3>5
    <2> QED BY <2>1, <2>2
  <1>5. ASSUME NEW b \in Batches, SettleTimer(b) PROVE TestsInv'
    <2>1. batches' = [batches EXCEPT ![b].step = "done"] /\ batches[b].step = "settle"
      BY <1>5 DEF SettleTimer
    <2>2. inFlight' = inFlight /\ testingModels' = testingModels
      BY <1>5 DEF SettleTimer
    <2>3. TypeOK'
      BY <1>5, <2>1 DEF SettleTimer, TypeOK, Steps
    <2>4. /\ \A a \in Batches : a # b => batches'[a] = batches[a]
          /\ batches'[b].step = "done"
      BY <2>1 DEF TypeOK
    <2>5. \A k \in Keys : \A w \in inFlight[k] : w.batch # 0 => w.batch \in Batches \ {b}
      BY <2>1 DEF TypeOK, Calls, Batches, CallsAreAwaited
    <2>6. CallsAreAwaited'
      BY <2>2, <2>4, <2>5 DEF CallsAreAwaited
    <2>7. AwaitedAreCalled'
      BY <2>2, <2>4 DEF AwaitedAreCalled
    <2> QED BY <2>2, <2>3, <2>6, <2>7 DEF SignMeansRequest
  <1>6. ASSUME NEW m \in Models, TestChannel(m) PROVE TestsInv'
    <2>1. PICK c \in dialog :
             inFlight' = [inFlight EXCEPT ![<<c, m>>] =
                             @ \cup {[batch |-> 0, captured |-> isBatchTesting]}]
      BY <1>6 DEF TestChannel
    <2>2. c \in Channels /\ <<c, m>> \in Keys
      BY DEF TypeOK, Keys
    <2>3. PICK call \in Calls : call = [batch |-> 0, captured |-> isBatchTesting]
      <3>1. isBatchTesting \in BOOLEAN
        BY DEF TypeOK
      <3>2. 0 \in 0 .. MaxBatches
        BY TestConstants
      <3>3. [batch |-> 0, captured |-> isBatchTesting] \in Calls
        BY <3>1, <3>2, Zenon DEF Calls
      <3> QED BY <3>3
    <2>4. /\ inFlight' = [inFlight EXCEPT ![<<c, m>>] = @ \cup {call}]
          /\ call.batch = 0
      BY <2>1, <2>3
    <2>5. inFlight' \in [Keys -> SUBSET Calls]
      BY <2>2, <2>4 DEF TypeOK
    <2>6. \A k \in Keys : inFlight[k] \subseteq inFlight'[k]
                         /\ \A w \in inFlight'[k] : w \in inFlight[k] \/ w.batch = 0
      BY <2>2, <2>4 DEF TypeOK
    <2>7. batches' = batches /\ testingModels' = testingModels \cup {m}
      BY <1>6 DEF TestChannel
    <2>8. TypeOK'
      BY <1>6, <2>5, <2>7 DEF TypeOK, TestChannel
    <2>9. CallsAreAwaited'
      BY <2>6, <2>7 DEF CallsAreAwaited
    <2>10. AwaitedAreCalled'
      <3>1. \A b \in Batches : \A n \in batches[b].pending : <<batches[b].channel, n>> \in Keys
        BY DEF TypeOK, Keys
      <3> QED BY <3>1, <2>6, <2>7 DEF AwaitedAreCalled
    <2>11. SignMeansRequest'
      <3>1. inFlight'[<<c, m>>] # {}
        BY <2>2, <2>4 DEF TypeOK
      <3>2. \A d \in Channels : \A n \in testingModels : <<d, n>> \in Keys
        BY DEF TypeOK, Keys
      <3> QED BY <3>1, <3>2, <2>2, <2>6, <2>7 DEF SignMeansRequest
    <2> QED BY <2>8, <2>9, <2>10, <2>11
  <1> QED BY <1>1, <1>2, <1>3, <1>4, <1>5, <1>6

-----------------------------------------------------------------------------
(* The answer of a GET.                                                    *)

\* A batch that has an answer of its slice is still a batch; it waits for one model less,
\* and leaves the slice only when it waits for none.
LEMMA AnsweredBatch ==
    ASSUME NEW batch \in Batch, batch.step = "slice", NEW m
    PROVE  /\ Answered(batch, m) \in Batch
           /\ Answered(batch, m).channel = batch.channel
           /\ Answered(batch, m).pending = batch.pending \ {m}
           /\ Answered(batch, m).step = "slice" => batch.pending \ {m} # {}
           /\ batch.pending \ {m} # {} => Answered(batch, m).step = "slice"
  <1>1. AfterSlice(batch) \in {"done", "pause", "settle"}
    BY DEF AfterSlice
  <1> QED BY <1>1 DEF Answered, Batch, Steps

LEMMA AnswerStep ==
    ASSUME TestsInv, NEW k \in Keys, NEW outcome \in Outcomes, Answer(k, outcome)
    PROVE  TestsInv'
  <1> USE DEF TestsInv
  <1> DEFINE Calls_(b) == \E w \in inFlight[k] : w.batch = b
  <1>1. /\ inFlight' = [inFlight EXCEPT ![k] = {}]
        /\ testingModels' = testingModels \ {k[2]}
        /\ batches' = [b \in Batches |-> IF Calls_(b) THEN Answered(batches[b], k[2])
                                         ELSE batches[b]]
    BY DEF Answer, Shown
  <1>2. /\ batches \in [Batches -> Batch] /\ inFlight \in [Keys -> SUBSET Calls]
        /\ testingModels \in SUBSET Models
    BY DEF TypeOK, Batch
  <1>3. \A b \in Batches : Calls_(b) =>
          /\ batches[b].step = "slice" /\ k = <<batches[b].channel, k[2]>>
          /\ k[2] \in batches[b].pending
    BY DEF CallsAreAwaited, Batches
  <1>4. inFlight' \in [Keys -> SUBSET Calls] /\ inFlight'[k] = {}
        /\ \A j \in Keys : j # k => inFlight'[j] = inFlight[j]
    BY <1>1, <1>2
  <1>5. \A b \in Batches : Calls_(b) =>
          /\ batches'[b] \in Batch
          /\ batches'[b].channel = batches[b].channel
          /\ batches'[b].pending = batches[b].pending \ {k[2]}
          /\ batches'[b].step = "slice" => batches[b].pending \ {k[2]} # {}
          /\ batches[b].pending \ {k[2]} # {} => batches'[b].step = "slice"
    BY <1>1, <1>2, <1>3, AnsweredBatch
  <1>6. \A b \in Batches : ~Calls_(b) => batches'[b] = batches[b]
    BY <1>1
  <1>7. batches' \in [Batches -> Batch]
    BY <1>1, <1>2, <1>5, <1>6
  <1> HIDE DEF Calls_
  <1>8. CallsAreAwaited'
    <2> SUFFICES ASSUME NEW j \in Keys, NEW w \in inFlight'[j], w.batch # 0
                 PROVE  /\ batches'[w.batch].step = "slice"
                        /\ j = <<batches'[w.batch].channel, j[2]>>
                        /\ j[2] \in batches'[w.batch].pending
      BY DEF CallsAreAwaited
    <2>1. j # k /\ w \in inFlight[j]
      BY <1>4
    <2>2. w.batch \in Batches
      BY <2>1, <1>2 DEF Calls, Batches
    <2>3. /\ batches[w.batch].step = "slice" /\ j = <<batches[w.batch].channel, j[2]>>
          /\ j[2] \in batches[w.batch].pending
      BY <2>1 DEF CallsAreAwaited
    <2>4. CASE Calls_(w.batch)
      <3>1. j[2] # k[2]
        BY <2>1, <2>2, <2>3, <2>4, <1>3
      <3>2. j[2] \in batches[w.batch].pending \ {k[2]}
        BY <2>3, <3>1
      <3> QED BY <2>2, <2>3, <2>4, <3>2, <1>5
    <2>5. CASE ~Calls_(w.batch)
      BY <2>2, <2>3, <2>5, <1>6
    <2> QED BY <2>4, <2>5
  <1>9. AwaitedAreCalled'
    <2> SUFFICES ASSUME NEW b \in Batches, batches'[b].step = "slice",
                        NEW m \in batches'[b].pending
                 PROVE  \E w \in inFlight'[<<batches'[b].channel, m>>] : w.batch = b
      BY DEF AwaitedAreCalled
    <2>1. /\ batches[b].step = "slice" /\ batches'[b].channel = batches[b].channel
          /\ m \in batches[b].pending
      BY <1>3, <1>5, <1>6
    <2>2. PICK w \in inFlight[<<batches[b].channel, m>>] : w.batch = b
      BY <2>1 DEF AwaitedAreCalled
    <2>3. <<batches[b].channel, m>> \in Keys
      BY <2>1, <1>2 DEF Batch, Keys
    <2>4. <<batches[b].channel, m>> # k
      <3> SUFFICES ASSUME <<batches[b].channel, m>> = k PROVE FALSE
        OBVIOUS
      <3>1. Calls_(b)
        BY <2>2 DEF Calls_
      <3>2. k[2] = m /\ batches'[b].pending = batches[b].pending \ {k[2]}
        BY <3>1, <1>5
      <3> QED BY <3>2
    <2> QED BY <2>1, <2>2, <2>3, <2>4, <1>4
  <1>10. SignMeansRequest'
    <2> SUFFICES ASSUME NEW m \in testingModels'
                 PROVE  \E c \in Channels : inFlight'[<<c, m>>] # {}
      BY DEF SignMeansRequest
    <2>1. m \in testingModels /\ m # k[2] /\ m \in Models
      BY <1>1, <1>2
    <2>2. PICK c \in Channels : inFlight[<<c, m>>] # {}
      BY <2>1 DEF SignMeansRequest
    <2>3. <<c, m>> \in Keys /\ <<c, m>> # k
      BY <2>1 DEF Keys
    <2> QED BY <2>2, <2>3, <1>4
  <1>11. isBatchTesting' \in BOOLEAN
    BY DEF Answer
  <1>12. /\ dialog' = dialog /\ shouldStop' = shouldStop /\ overlapped' = overlapped
         /\ results' \in SUBSET Keys
    BY DEF Answer, TypeOK
  <1>13. TypeOK'
    BY <1>1, <1>2, <1>4, <1>7, <1>11, <1>12 DEF TypeOK, Batch
  <1> QED BY <1>8, <1>9, <1>10, <1>13

-----------------------------------------------------------------------------
(* The theorems.                                                           *)

LEMMA NextTests == TestsInv /\ [Next]_vars => TestsInv'
  <1> SUFFICES ASSUME TestsInv, [Next]_vars PROVE TestsInv'
    OBVIOUS
  <1>1. CASE UNCHANGED vars
    BY <1>1 DEF vars, TestsInv, TypeOK, CallsAreAwaited, AwaitedAreCalled, SignMeansRequest
  <1>2. CASE \E k \in Keys, outcome \in Outcomes : Answer(k, outcome)
    BY <1>2, AnswerStep
  <1> QED BY <1>1, <1>2, DialogStep DEF Next

\* The inductive invariant: calls under way and models awaited correspond.
THEOREM TestsInvariant == Spec => []TestsInv
  <1>1. Init => TestsInv
    BY InitTests
  <1>2. TestsInv /\ [Next]_vars => TestsInv'
    BY NextTests
  <1> QED BY <1>1, <1>2, PTL DEF Spec

\* A batch of tests waits for exactly the requests of its slice that are under way, with
\* any number of overlapping batches and shared GETs (batchTestModels, helpers/api.js).
THEOREM BatchesWaitForTheirCalls == Spec => []WaitsForItsCalls
  <1>1. TestsInv => WaitsForItsCalls
    <2> SUFFICES ASSUME TestsInv, NEW b \in Batches, NEW m \in Models
                 PROVE  (\E w \in inFlight[<<batches[b].channel, m>>] : w.batch = b)
                          <=> batches[b].step = "slice" /\ m \in batches[b].pending
      BY DEF WaitsForItsCalls
    <2>1. <<batches[b].channel, m>> \in Keys /\ b # 0
      BY DEF TestsInv, TypeOK, Keys, Batches
    <2>2. ASSUME NEW w \in inFlight[<<batches[b].channel, m>>], w.batch = b
          PROVE  batches[b].step = "slice" /\ m \in batches[b].pending
      BY <2>1, <2>2 DEF TestsInv, CallsAreAwaited
    <2>3. ASSUME batches[b].step = "slice", m \in batches[b].pending
          PROVE  \E w \in inFlight[<<batches[b].channel, m>>] : w.batch = b
      BY <2>3 DEF TestsInv, AwaitedAreCalled
    <2> QED BY <2>2, <2>3
  <1> QED BY <1>1, TestsInvariant, PTL

\* A model is shown as being tested only while a request for it is under way
\* (the finally of testChannel, handleCloseModal).
THEOREM SignsMeanRequests == Spec => []SignMeansRequest
  <1>1. TestsInv => SignMeansRequest
    BY DEF TestsInv
  <1> QED BY <1>1, TestsInvariant, PTL

\* A batch that was stopped sends no further request until another one is started
\* (the checks of shouldStopBatchTestingRef in batchTestModels).
THEOREM StoppedBatchesAreSilent == Spec => StoppedSendsNothing
  <1>1. TestsInv /\ [Next]_vars => [SendsNothing]_vars
    <2> SUFFICES ASSUME TestsInv, Next, shouldStop, shouldStop',
                        NEW k \in Keys, NEW w \in inFlight'[k] \ inFlight[k]
                 PROVE  w.batch = 0
      BY DEF SendsNothing
    <2>0. inFlight \in [Keys -> SUBSET Calls]
      BY DEF TestsInv, TypeOK
    <2>1. CASE \E c \in Channels : Open(c)
      BY <2>1 DEF Open
    <2>2. CASE Close
      BY <2>2 DEF Close
    <2>3. CASE \E b \in Batches : StartBatch(b)
      BY <2>3 DEF StartBatch
    <2>4. CASE \E b \in Batches : PauseTimer(b)
      BY <2>4 DEF PauseTimer
    <2>5. CASE \E b \in Batches : SettleTimer(b)
      BY <2>5 DEF SettleTimer
    <2>6. CASE \E m \in Models : TestChannel(m)
      <3>1. PICK m \in Models : TestChannel(m)
        BY <2>6
      <3>2. PICK c \in dialog :
               inFlight' = [inFlight EXCEPT ![<<c, m>>] =
                               @ \cup {[batch |-> 0, captured |-> isBatchTesting]}]
        BY <3>1 DEF TestChannel
      <3>3. w = [batch |-> 0, captured |-> isBatchTesting]
        BY <3>2, <2>0
      <3> QED BY <3>3
    <2>7. CASE \E j \in Keys, outcome \in Outcomes : Answer(j, outcome)
      <3>1. PICK j \in Keys : inFlight' = [inFlight EXCEPT ![j] = {}]
        BY <2>7 DEF Answer
      <3> QED BY <3>1, <2>0
    <2> QED BY <2>1, <2>2, <2>3, <2>4, <2>5, <2>6, <2>7 DEF Next
  <1> QED BY <1>1, TestsInvariant, PTL DEF Spec, StoppedSendsNothing

-----------------------------------------------------------------------------
(* The report of a batch that ran alone.                                   *)

\* A call of a batch has captured isBatchTesting before the batch began.
CapturedBefore == \A k \in Keys : \A w \in inFlight[k] : w.batch # 0 => ~w.captured

\* What a batch that ran alone has a result for: the models of its earlier
\* slices, and those of the present one that it does not wait for any more.
HasResults(b) ==
    LET batch == batches[b]
        upTo  == batch.first + concurrencyLimit
    IN  /\ batch.step = "slice" =>
              \A m \in Models : m <= upTo /\ m \notin batch.pending => <<batch.channel, m>> \in results
        /\ batch.step = "pause" => \A m \in Models : m <= upTo => <<batch.channel, m>> \in results
        /\ batch.step = "settle" => \A m \in Models : <<batch.channel, m>> \in results

ReportInv == CapturedBefore /\ \A b \in Batches \ overlapped : HasResults(b)

\* Where the answer takes a batch.
LEMMA AnsweredRest ==
    ASSUME NEW batch \in Batch, batch.step = "slice", NEW m
    PROVE  /\ Answered(batch, m).first = batch.first
           /\ Answered(batch, m).step \in {"slice", "pause", "settle", "done"}
           /\ Answered(batch, m).step # "slice" => batch.pending \ {m} = {}
           /\ Answered(batch, m).step = "settle" => ~(batch.first + concurrencyLimit < ModelCount)
  BY DEF Answered, AfterSlice, Batch

\* A slice that is sent: what came before it has its results.
LEMMA LaunchReport ==
    ASSUME TestsInv, ReportInv, NEW b \in Batches, NEW c \in Channels, NEW i \in Nat,
           Launch(b, c, i),
           \A a \in Batches \ overlapped' : a # b => a \notin overlapped /\ (Live(a) => results' = results),
           b \notin overlapped' => \A m \in Models : m <= i => <<c, m>> \in results'
    PROVE  ReportInv'
  <1> DEFINE call == [batch |-> b, captured |-> FALSE]
  <1>1. /\ inFlight' = [k \in Keys |-> IF k[1] = c /\ k[2] \in Slice(i)
                                       THEN inFlight[k] \cup {call} ELSE inFlight[k]]
        /\ batches' = [batches EXCEPT ![b] = [step |-> "slice", channel |-> c, first |-> i,
                                              pending |-> Slice(i)]]
    BY DEF Launch
  <1>2. batches \in [Batches -> Batch] /\ inFlight \in [Keys -> SUBSET Calls]
    BY DEF TestsInv, TypeOK, Batch
  <1>3. CapturedBefore'
    BY <1>1, <1>2 DEF ReportInv, CapturedBefore
  <1>4. ASSUME NEW a \in Batches \ overlapped' PROVE HasResults(a)'
    <2>1. CASE a = b
      <3>1. /\ batches'[a].step = "slice" /\ batches'[a].first = i /\ batches'[a].channel = c
            /\ batches'[a].pending = Slice(i)
        BY <1>1, <1>2, <2>1
      <3>2. \A m \in Models : m <= i + concurrencyLimit /\ m \notin Slice(i) => m <= i
        BY TestConstants DEF Models, Slice
      <3> QED BY <1>4, <2>1, <3>1, <3>2 DEF HasResults
    <2>2. CASE a # b
      <3>1. batches'[a] = batches[a] /\ a \notin overlapped
        BY <1>1, <1>2, <1>4, <2>2
      <3>2. HasResults(a)
        BY <3>1 DEF ReportInv
      <3>3. CASE Live(a)
        BY <1>4, <2>2, <3>1, <3>2, <3>3 DEF HasResults
      <3>4. CASE ~Live(a)
        BY <3>1, <3>4 DEF HasResults, Live
      <3> QED BY <3>3, <3>4
    <2> QED BY <2>1, <2>2
  <1> QED BY <1>3, <1>4 DEF ReportInv

\* An answer: the result is written, since no call of a batch has captured a
\* running one.
LEMMA AnswerReport ==
    ASSUME TestsInv, ReportInv, NEW k \in Keys, NEW outcome \in Outcomes, Answer(k, outcome)
    PROVE  ReportInv'
  <1> DEFINE Calls_(b) == \E w \in inFlight[k] : w.batch = b
  <1>1. /\ inFlight' = [inFlight EXCEPT ![k] = {}]
        /\ batches' = [b \in Batches |-> IF Calls_(b) THEN Answered(batches[b], k[2])
                                         ELSE batches[b]]
        /\ overlapped' = overlapped /\ results \subseteq results'
    BY DEF Answer
  <1>2. batches \in [Batches -> Batch] /\ inFlight \in [Keys -> SUBSET Calls]
    BY DEF TestsInv, TypeOK, Batch
  <1>3. CapturedBefore'
    BY <1>1, <1>2 DEF ReportInv, CapturedBefore
  <1>4. ASSUME NEW b \in Batches \ overlapped PROVE HasResults(b)'
    <2>0. HasResults(b)
      BY DEF ReportInv
    <2>1. CASE Calls_(b)
      <3>1. /\ batches[b].step = "slice" /\ k = <<batches[b].channel, k[2]>>
        BY <2>1 DEF TestsInv, CallsAreAwaited, Batches
      <3>2. ~Drops(inFlight[k])
        <4>1. PICK w \in inFlight[k] : w.batch = b
          BY <2>1
        <4>2. ~w.captured
          BY <4>1 DEF ReportInv, CapturedBefore, Batches
        <4> QED BY <4>2 DEF Drops
      <3>3. k \in results'
        BY <3>2 DEF Answer
      <3>4. batches'[b] = Answered(batches[b], k[2])
        BY <1>1, <2>1
      <3>5. /\ batches'[b].channel = batches[b].channel
            /\ batches'[b].pending = batches[b].pending \ {k[2]}
            /\ batches'[b].first = batches[b].first
            /\ batches'[b].step \in {"slice", "pause", "settle", "done"}
            /\ batches'[b].step # "slice" => batches[b].pending \ {k[2]} = {}
            /\ batches'[b].step = "settle" => ~(batches[b].first + concurrencyLimit < ModelCount)
        BY <1>2, <3>1, <3>4, AnsweredBatch, AnsweredRest
      <3> DEFINE c == batches[b].channel
                 upTo == batches[b].first + concurrencyLimit
      <3>6. \A m \in Models : m <= upTo /\ m \notin batches[b].pending \ {k[2]}
                                  => <<c, m>> \in results'
        BY <1>1, <2>0, <3>1, <3>3 DEF HasResults
      <3>7. batches[b].first \in Nat
        BY <1>2 DEF Batch
      <3>8. batches'[b].step = "settle" => \A m \in Models : m <= upTo
        BY <3>5, <3>7, TestConstants DEF Models
      <3> QED BY <3>5, <3>6, <3>8 DEF HasResults
    <2>2. CASE ~Calls_(b)
      <3>1. batches'[b] = batches[b]
        BY <1>1, <2>2
      <3> QED BY <1>1, <2>0, <3>1 DEF HasResults
    <2> QED BY <2>1, <2>2
  <1> QED BY <1>1, <1>3, <1>4 DEF ReportInv

\* Every step keeps the invariant.
LEMMA NextReport == ASSUME TestsInv, ReportInv, [Next]_vars PROVE ReportInv'
  <1>0. batches \in [Batches -> Batch] /\ inFlight \in [Keys -> SUBSET Calls]
    BY DEF TestsInv, TypeOK, Batch
  <1>1. CASE (\E c \in Channels : Open(c)) \/ Close \/ UNCHANGED vars
    <2>1. UNCHANGED <<results, inFlight, batches, overlapped>>
      BY <1>1 DEF Open, Close, vars
    <2> QED BY <2>1 DEF ReportInv, CapturedBefore, HasResults
  <1>2. ASSUME NEW b \in Batches, StartBatch(b) PROVE ReportInv'
    <2>1. PICK c \in dialog : Launch(b, c, 0)
      BY <1>2 DEF StartBatch
    <2>2. c \in Channels
      BY DEF TestsInv, TypeOK
    <2>3. \A a \in Batches \ overlapped' : a \notin overlapped /\ ~Live(a)
      BY <1>2 DEF StartBatch
    <2>4. \A m \in Models : ~(m <= 0)
      BY DEF Models
    <2> QED BY <2>1, <2>2, <2>3, <2>4, LaunchReport
  <1>3. ASSUME NEW b \in Batches, PauseTimer(b) PROVE ReportInv'
    <2>1. CASE shouldStop
      <3>1. /\ batches' = [batches EXCEPT ![b].step = "done"]
            /\ UNCHANGED <<results, inFlight, overlapped>>
        BY <1>3, <2>1 DEF PauseTimer
      <3>2. \A a \in Batches : batches'[a] = batches[a] \/ batches'[a].step = "done"
        BY <1>0, <3>1 DEF Batch
      <3> QED BY <3>1, <3>2 DEF ReportInv, CapturedBefore, HasResults
    <2>2. CASE ~shouldStop
      <3>1. PICK c \in Channels, i \in Nat :
               c = batches[b].channel /\ i = batches[b].first + concurrencyLimit
        BY <1>0, TestConstants DEF Batch
      <3>2. /\ Launch(b, c, i) /\ batches[b].step = "pause"
            /\ results' = results /\ overlapped' = overlapped
        BY <1>3, <2>2, <3>1 DEF PauseTimer, Launch
      <3>3. b \notin overlapped' => \A m \in Models : m <= i => <<c, m>> \in results'
        BY <3>1, <3>2 DEF ReportInv, HasResults
      <3> QED BY <3>2, <3>3, LaunchReport
    <2> QED BY <2>1, <2>2
  <1>4. ASSUME NEW b \in Batches, SettleTimer(b) PROVE ReportInv'
    <2>1. /\ batches' = [batches EXCEPT ![b].step = "done"]
          /\ UNCHANGED <<results, inFlight, overlapped>>
      BY <1>4 DEF SettleTimer
    <2>2. \A a \in Batches : batches'[a] = batches[a] \/ batches'[a].step = "done"
      BY <1>0, <2>1 DEF Batch
    <2> QED BY <2>1, <2>2 DEF ReportInv, CapturedBefore, HasResults
  <1>5. ASSUME NEW m \in Models, TestChannel(m) PROVE ReportInv'
    <2>1. PICK c \in dialog :
             inFlight' = [inFlight EXCEPT ![<<c, m>>] =
                             @ \cup {[batch |-> 0, captured |-> isBatchTesting]}]
      BY <1>5 DEF TestChannel
    <2>2. UNCHANGED <<results, batches, overlapped>>
      BY <1>5 DEF TestChannel
    <2>3. \A k \in Keys : \A w \in inFlight'[k] : w \in inFlight[k] \/ w.batch = 0
      BY <1>0, <2>1
    <2> QED BY <2>2, <2>3 DEF ReportInv, CapturedBefore, HasResults
  <1>6. CASE \E k \in Keys, outcome \in Outcomes : Answer(k, outcome)
    BY <1>6, AnswerReport
  <1> QED BY <1>1, <1>2, <1>3, <1>4, <1>5, <1>6 DEF Next

\* A batch that no other batch ran beside reports its counts only when every
\* model of its channel has a result, whatever was stopped, tested by hand or
\* shared meanwhile (batchTestModels, testChannel).
THEOREM ReportsAreComplete == Spec => []ReportIsComplete
  <1>1. Init => ReportInv
    BY DEF Init, ReportInv, CapturedBefore, HasResults
  <1>2. TestsInv /\ ReportInv /\ [Next]_vars => ReportInv'
    BY NextReport
  <1>3. ReportInv => ReportIsComplete
    BY DEF ReportInv, HasResults, ReportIsComplete
  <1> QED BY <1>1, <1>2, <1>3, TestsInvariant, PTL DEF Spec
=============================================================================
