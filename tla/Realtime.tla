------------------------------ MODULE Realtime ------------------------------
(***************************************************************************)
(* A realtime (websocket) session: OpenaiRealtimeHandler of                *)
(* relay/channel/openai/relay-openai.go, charged by PreWssConsumeQuota and *)
(* PostConsumeQuota of service/quota.go while it runs.                     *)
(*                                                                         *)
(* Three goroutines share two counters without a lock: the client reader   *)
(* counts what the user sends into localUsage, the target reader adds what *)
(* the provider reports to usage, charges it and replaces both, and the    *)
(* handler charges what is left in them once either side is gone, while    *)
(* the readers may still be running.  Every access to shared memory and    *)
(* every database call is a step.  Amounts are in quota.                   *)
(***************************************************************************)
EXTENDS Integers

CONSTANTS
    Holds,       \* quota that opening the session may have taken
    Amounts,     \* quota of what one message counts or reports
    Sources,     \* funding sources
    Priced,      \* whether the model may have a price per call
    MaxMessages, \* bound: messages that each side sends
    MaxFaults    \* bound: failing database calls

ASSUME RealtimeConstants ==
    /\ Holds \subseteq Nat /\ Amounts \subseteq Nat
    /\ Sources \subseteq {"wallet", "subscription"}
    /\ Priced \subseteq BOOLEAN
    /\ MaxMessages \in Nat /\ MaxFaults \in Nat

VARIABLES
    pc,        \* the handler ("main") and its two readers
    hold,      \* pre-consumed by the billing session
    source,    \* its funding source
    usePrice,  \* relayInfo.UsePrice
    usage,     \* what the provider reported and has not been cleared
    local,     \* localUsage: the object now in use, its input and output
    clientMem, \* the client reader between reading localUsage and adding to it
    job,       \* what a goroutine is charging: from which counter, how much
    woken,     \* clientClosed, targetClosed or errChan is ready
    sent,      \* messages so far of each side
    paid, tokenPaid,    \* taken from the funding source and from the token
    reported,  \* history: usage the provider has reported
    counted,   \* history: usage counted locally
    refused,   \* history: a charge was refused
    faults     \* history: failing calls so far

shared  == <<usage, local, clientMem>>
charges == <<paid, tokenPaid, refused>>
history == <<reported, counted>>
session == <<hold, source, usePrice>>
vars    == <<pc, session, shared, job, woken, sent, charges, history, faults>>

Readers == {"client", "target"}
Chargers == {"main", "target"}
PCs == {"dial", "wait", "off", "read", "add", "check", "fund", "token", "clearUsage",
        "clearLocal", "local", "log", "stopped"}
NoJob == [of |-> "usage", amount |-> 0]

Init ==
    /\ pc = [main |-> "dial", client |-> "off", target |-> "off"]
    /\ hold \in Holds /\ source \in Sources /\ usePrice \in Priced
    /\ usage = 0
    /\ local = [object |-> 0, in |-> 0, out |-> 0]
    /\ clientMem = [object |-> 0, in |-> 0]
    /\ job = [p \in Chargers |-> NoJob]
    /\ woken = FALSE
    /\ sent = [p \in Readers |-> 0]
    /\ paid = hold /\ tokenPaid = hold /\ refused = FALSE
    /\ reported = 0 /\ counted = 0
    /\ faults = 0

Goto(p, label) == pc' = [pc EXCEPT ![p] = label]
Same == UNCHANGED <<session, faults>>
NoCharge == UNCHANGED charges
NoMessage == UNCHANGED <<sent, history>>

\* A message of n arrives for reader p.
Receive(p) == sent[p] < MaxMessages /\ sent' = [sent EXCEPT ![p] = @ + 1]

-----------------------------------------------------------------------------
(* WssHelper connects to the provider and starts the readers.              *)

Dial ==
    /\ pc.main = "dial"
    /\ pc' = [main |-> "wait", client |-> "read", target |-> "read"]
    /\ Same /\ NoCharge /\ NoMessage /\ UNCHANGED <<shared, job, woken>>

\* No channel answers: the session is refunded (module BillingSession).
DialFails ==
    /\ pc.main = "dial"
    /\ pc' = [p \in DOMAIN pc |-> "stopped"]
    /\ paid' = 0 /\ tokenPaid' = 0 /\ UNCHANGED refused
    /\ Same /\ NoMessage /\ UNCHANGED <<shared, job, woken>>

-----------------------------------------------------------------------------
(* The client reader.                                                      *)

\* localUsage.InputTokenDetails += n: the pointer and the counter are read ...
ClientMessage(n) ==
    /\ pc.client = "read"
    /\ Receive("client")
    /\ clientMem' = [object |-> local.object, in |-> local.in + n]
    /\ counted' = counted + n
    /\ Goto("client", "add")
    /\ Same /\ NoCharge /\ UNCHANGED <<usage, local, job, woken, reported>>

\* ... and the sum is stored, in an object that may have been replaced since.
ClientAdd ==
    /\ pc.client = "add"
    /\ local' = IF local.object = clientMem.object
                THEN [local EXCEPT !.in = clientMem.in] ELSE local
    /\ Goto("client", "read")
    /\ Same /\ NoCharge /\ NoMessage /\ UNCHANGED <<usage, clientMem, job, woken>>

\* The connection is closed or fails, or forwarding the message does.
Disconnect(p) ==
    /\ pc[p] = "read"
    /\ Goto(p, "stopped")
    /\ woken' = TRUE
    /\ Same /\ NoCharge /\ NoMessage /\ UNCHANGED <<shared, job>>

-----------------------------------------------------------------------------
(* The target reader.                                                      *)

\* Mutant of ResponseDone: charges the local count instead of the report.
ResponseDoneLocal(n) ==
    /\ pc.target = "read"
    /\ Receive("target")
    /\ usage' = usage + n /\ reported' = reported + n
    /\ job' = [job EXCEPT !["target"].of = "local"]
    /\ Goto("target", "check")
    /\ Same /\ NoCharge /\ UNCHANGED <<local, clientMem, woken, counted>>

\* response.done with the provider's usage.
ResponseDone(n) ==
    /\ pc.target = "read"
    /\ Receive("target")
    /\ usage' = usage + n /\ reported' = reported + n
    /\ job' = [job EXCEPT !["target"].of = "usage"]
    /\ Goto("target", "check")
    /\ Same /\ NoCharge /\ UNCHANGED <<local, clientMem, woken, counted>>

\* response.done without usage: the local count is charged.
ResponseDoneNoUsage(n) ==
    /\ pc.target = "read"
    /\ Receive("target")
    /\ local' = [local EXCEPT !.in = @ + n] /\ counted' = counted + n
    /\ job' = [job EXCEPT !["target"].of = "local"]
    /\ Goto("target", "check")
    /\ Same /\ NoCharge /\ UNCHANGED <<usage, clientMem, woken, reported>>

\* Any other message counts as output.
TargetMessage(n) ==
    /\ pc.target = "read"
    /\ Receive("target")
    /\ local' = [local EXCEPT !.out = @ + n] /\ counted' = counted + n
    /\ Same /\ NoCharge /\ UNCHANGED <<pc, usage, clientMem, job, woken, reported>>

\* Mutant of ClearUsage: the report is charged again with the next one.
KeepUsage ==
    /\ pc.target = "clearUsage"
    /\ Goto("target", "clearLocal")
    /\ Same /\ NoCharge /\ NoMessage /\ UNCHANGED <<shared, job, woken>>

\* After the charge: usage = &dto.RealtimeUsage{} ...
ClearUsage ==
    /\ pc.target = "clearUsage"
    /\ usage' = 0
    /\ Goto("target", "clearLocal")
    /\ Same /\ NoCharge /\ NoMessage /\ UNCHANGED <<local, clientMem, job, woken>>

\* ... and localUsage = &dto.RealtimeUsage{}.
ClearLocal ==
    /\ pc.target = "clearLocal"
    /\ local' = [object |-> local.object + 1, in |-> 0, out |-> 0]
    /\ Goto("target", "read")
    /\ Same /\ NoCharge /\ NoMessage /\ UNCHANGED <<usage, clientMem, job, woken>>

-----------------------------------------------------------------------------
(* preConsumeUsage, by the target reader and, at the end, by the handler.  *)

AfterCharge(p) ==
    IF p = "target"
    THEN IF job[p].of = "usage" THEN "clearUsage" ELSE "clearLocal"
    ELSE IF job[p].of = "usage" THEN "local" ELSE "log"

\* Mutant of Fails: the target reader returns without a word.
FailsSilently(p) ==
    /\ Goto(p, IF p = "target" THEN "stopped" ELSE AfterCharge(p))
    /\ UNCHANGED woken

\* An error ends the target reader, which tells the handler; the handler
\* ignores it.
Fails(p) ==
    /\ Goto(p, IF p = "target" THEN "stopped" ELSE AfterCharge(p))
    /\ woken' = (woken \/ p = "target")

Due(p) == IF job[p].of = "usage" THEN usage ELSE local.in + local.out

\* PreWssConsumeQuota reads the counter, the wallet and the token, which other
\* requests move as well: either may be too low, whatever the funding source.
Check(p) ==
    /\ pc[p] = "check"
    /\ job' = [job EXCEPT ![p].amount = Due(p)]
    /\ \/ usePrice /\ Goto(p, AfterCharge(p)) /\ NoCharge /\ UNCHANGED woken
       \/ ~usePrice /\ Goto(p, "fund") /\ NoCharge /\ UNCHANGED woken
       \/ ~usePrice /\ Fails(p) /\ refused' = TRUE /\ UNCHANGED <<paid, tokenPaid>>
    /\ Same /\ NoMessage /\ UNCHANGED shared

\* PostConsumeQuota: the funding source, which a subscription may refuse ...
Fund(p) ==
    /\ pc[p] = "fund"
    /\ \/ /\ paid' = paid + job[p].amount
          /\ Goto(p, "token") /\ UNCHANGED <<woken, refused>>
       \/ /\ source = "subscription"
          /\ Fails(p) /\ refused' = TRUE /\ UNCHANGED paid
    /\ Same /\ NoMessage /\ UNCHANGED <<shared, job, tokenPaid>>

\* Mutant of PayToken: a failed session does not touch the token.
PayTokenIfOpen(p) ==
    /\ pc[p] = "token"
    /\ tokenPaid' = IF woken THEN tokenPaid ELSE tokenPaid + job[p].amount
    /\ Goto(p, AfterCharge(p))
    /\ Same /\ NoMessage /\ UNCHANGED <<shared, job, woken, paid, refused>>

\* ... then the token.
PayToken(p) ==
    /\ pc[p] = "token"
    /\ tokenPaid' = tokenPaid + job[p].amount
    /\ Goto(p, AfterCharge(p))
    /\ Same /\ NoMessage /\ UNCHANGED <<shared, job, woken, paid, refused>>

\* A call fails, applied or not.
ChargeError(p) ==
    /\ faults < MaxFaults /\ faults' = faults + 1
    /\ Fails(p)
    /\ \/ pc[p] = "fund" /\ paid' \in {paid, paid + job[p].amount} /\ UNCHANGED tokenPaid
       \/ /\ pc[p] = "token" /\ tokenPaid' \in {tokenPaid, tokenPaid + job[p].amount}
          /\ UNCHANGED paid
    /\ NoMessage /\ UNCHANGED <<session, shared, job, refused>>

-----------------------------------------------------------------------------
(* The handler, once a channel is ready.                                   *)

Wake ==
    /\ pc.main = "wait" /\ woken
    /\ Goto("main", IF usage # 0 THEN "check" ELSE "local")
    /\ job' = [job EXCEPT !["main"].of = "usage"]
    /\ Same /\ NoCharge /\ NoMessage /\ UNCHANGED <<shared, woken>>

\* The leftover of localUsage.
Leftover ==
    /\ pc.main = "local"
    /\ Goto("main", IF local.in + local.out # 0 THEN "check" ELSE "log")
    /\ job' = [job EXCEPT !["main"].of = "local"]
    /\ Same /\ NoCharge /\ NoMessage /\ UNCHANGED <<shared, woken>>

\* Writes the log and adds to the statistics; no balance moves, the hold stays.
\* Then both connections are closed.
PostWssConsumeQuota ==
    /\ pc.main = "log"
    /\ Goto("main", "stopped")
    /\ Same /\ NoCharge /\ NoMessage /\ UNCHANGED <<shared, job, woken>>

-----------------------------------------------------------------------------

Messages ==
    \E n \in Amounts :
        \/ ClientMessage(n)
        \/ ResponseDone(n) \/ ResponseDoneNoUsage(n) \/ TargetMessage(n)

Charge(p) == Check(p) \/ Fund(p) \/ PayToken(p)

Run ==
    \/ Wake \/ Leftover \/ PostWssConsumeQuota
    \/ ClientAdd \/ ClearUsage \/ ClearLocal
    \/ \E p \in Chargers : Charge(p)

\* A reader whose connection the handler has closed stops at its next read.
HangUp(p) == pc.main = "stopped" /\ Disconnect(p)

AllStopped == \A p \in DOMAIN pc : pc[p] = "stopped"

\* Nothing is left to do; keeps TLC from calling the end a deadlock.
Finished == AllStopped /\ UNCHANGED vars

Next ==
    \/ Dial \/ DialFails
    \/ Messages \/ Run
    \/ \E p \in Readers : Disconnect(p)
    \/ \E p \in Chargers : ChargeError(p)
    \/ Finished

\* A goroutine that can run does; nobody has to send or to hang up, except
\* that a closed connection ends the read on it.
Fairness ==
    /\ WF_vars(Wake) /\ WF_vars(Leftover) /\ WF_vars(PostWssConsumeQuota)
    /\ WF_vars(ClientAdd)
    /\ WF_vars(ClearUsage) /\ WF_vars(ClearLocal)
    /\ \A p \in Chargers : WF_vars(Charge(p))
    /\ \A p \in Readers : WF_vars(HangUp(p))

Spec == Init /\ [][Next]_vars /\ Fairness

-----------------------------------------------------------------------------
(* Properties.                                                             *)

\* Every variable has its type; the net charge is never negative.
TypeOK ==
    /\ pc \in [{"main", "client", "target"} -> PCs]
    /\ hold \in Nat /\ source \in Sources /\ usePrice \in BOOLEAN
    /\ usage \in Nat
    /\ local \in [object : Nat, in : Nat, out : Nat]
    /\ clientMem \in [object : Nat, in : Nat]
    /\ job \in [Chargers -> [of : {"usage", "local"}, amount : Nat]]
    /\ woken \in BOOLEAN /\ refused \in BOOLEAN
    /\ sent \in [Readers -> 0..MaxMessages]
    /\ paid \in Nat /\ tokenPaid \in Nat
    /\ reported \in Nat /\ counted \in Nat /\ faults \in Nat

Charged == paid - hold

\* Whatever the provider reports is paid, although the session may be closed,
\* and its counters replaced, at any moment.
EveryResponsePaid ==
    AllStopped /\ ~refused /\ faults = 0 /\ ~usePrice /\ reported > 0
        => Charged >= reported

\* The handler may charge what the target reader is charging, or has failed to
\* charge; but nothing is charged a third time.
ChargedAtMostTwice == Charged <= 2 * (reported + counted)

\* The token is charged whenever the funding source is.
TokenFollowsFunding == AllStopped /\ faults = 0 => tokenPaid = paid

\* When one reader stops, the handler and the other reader stop as well.
SessionStops == \A p \in Readers : pc[p] = "stopped" ~> AllStopped

\* What quota.go says at the end of a session without usage: the pre-consumed
\* quota is returned.
IdleSessionPaysNothing ==
    AllStopped /\ ~usePrice /\ faults = 0 /\ reported + counted = 0 => paid = 0

=============================================================================
