-------------------------- MODULE Realtime_proofs ---------------------------
(***************************************************************************)
(* What a realtime session charges, for any amounts, any number of         *)
(* messages and failing calls and every interleaving of its goroutines:    *)
(* the token follows the funding source, what the provider reports is      *)
(* paid, and nothing is charged more than twice.                           *)
(***************************************************************************)
EXTENDS Realtime, TLAPS

\* Where each goroutine can be.
Places ==
    /\ pc["main"] \in {"dial", "wait", "check", "fund", "token", "local", "log", "stopped"}
    /\ pc["client"] \in {"off", "read", "add", "stopped"}
    /\ pc["target"] \in {"off", "read", "check", "fund", "token", "clearUsage", "clearLocal",
                         "stopped"}
    /\ pc["main"] = "dial" <=> pc["target"] = "off"
    /\ pc["main"] = "dial" => pc["client"] = "off" /\ usage = 0
    /\ pc["target"] = "clearUsage" => job["target"].of = "usage"
    /\ usePrice => \A p \in Chargers : pc[p] \notin {"fund", "token"}

RTypes == TypeOK /\ Places

-----------------------------------------------------------------------------
(* The parts of the invariants.                                            *)

\* Charged to the funding source and not yet to the token.
TokenLag(p) == IF pc[p] = "token" THEN job[p].amount ELSE 0
Lag == faults = 0 => paid - tokenPaid = TokenLag("main") + TokenLag("target")

\* The target reader has read a report and not yet paid for it.
Reporting == pc["target"] \in {"check", "fund"} /\ job["target"].of = "usage"

\* usage is a report that the target reader is dealing with, or could not
\* charge.
UsageIsReport ==
    /\ usage <= reported
    /\ pc["target"] = "fund" /\ job["target"].of = "usage" => job["target"].amount = usage
    /\ ~usePrice /\ usage # 0 =>
          \/ job["target"].of = "usage" /\ pc["target"] \in {"check", "fund", "token", "clearUsage"}
          \/ pc["target"] = "stopped" /\ (refused \/ faults # 0)

\* A session whose provider has answered keeps its hold; until a charge fails,
\* all reports but the current one are paid.
Covered ==
    /\ pc["target"] # "stopped" \/ reported > 0 => paid >= hold
    /\ reported > 0 => pc["main"] # "dial"
    /\ ~refused /\ faults = 0 /\ ~usePrice /\ reported > 0 =>
          paid - hold >= reported - (IF Reporting THEN usage ELSE 0)

\* The most that localUsage can come to without another message: the client
\* reader may be about to store its sum into it.
Local ==
    local.out + (IF /\ pc["client"] = "add" /\ clientMem.object = local.object
                    /\ clientMem.in > local.in
                 THEN clientMem.in ELSE local.in)

\* What the target reader may still charge of what has been counted.
Uncharged ==
    IF pc["target"] \in {"off", "read", "check"}
          \/ (pc["target"] \in {"fund", "token", "clearUsage"} /\ job["target"].of = "usage")
    THEN Local
    ELSE IF pc["target"] = "fund" THEN job["target"].amount ELSE 0

\* The handler reads each counter once.
MainBound ==
    IF \/ pc["main"] \in {"dial", "wait"}
       \/ pc["main"] \in {"check", "fund"} /\ job["main"].of = "usage"
    THEN 0
    ELSE IF \/ pc["main"] = "local"
            \/ pc["main"] = "token" /\ job["main"].of = "usage"
            \/ pc["main"] \in {"check", "fund"} /\ job["main"].of = "local"
         THEN reported
         ELSE reported + counted

TargetBound == reported - (IF Reporting THEN usage ELSE 0) + counted - Uncharged

Twice ==
    /\ clientMem.object <= local.object
    /\ Local <= counted
    /\ pc["main"] = "fund" =>
          job["main"].amount <= (IF job["main"].of = "usage" THEN reported ELSE counted)
    /\ paid - hold <= IF usePrice THEN 0 ELSE TargetBound + MainBound

RInv == RTypes /\ Lag /\ UsageIsReport /\ Covered /\ Twice

-----------------------------------------------------------------------------
(* Types and places.                                                       *)

\* The initial state.
LEMMA RealtimeInit == ASSUME Init PROVE RInv
<1> USE RealtimeConstants DEF Init, Chargers, Readers, NoJob
<1>1. TypeOK
  <2>1. pc \in [{"main", "client", "target"} -> PCs]
    BY DEF PCs
  <2>2. job \in [Chargers -> [of : {"usage", "local"}, amount : Nat]]
    OBVIOUS
  <2>3. /\ hold \in Nat /\ usePrice \in BOOLEAN
        /\ local \in [object : Nat, in : Nat, out : Nat]
        /\ clientMem \in [object : Nat, in : Nat]
        /\ sent \in [Readers -> 0..MaxMessages]
    OBVIOUS
  <2> QED
    BY <2>1, <2>2, <2>3 DEF TypeOK
<1>2. Places
  BY DEF Places
<1>3. Lag /\ UsageIsReport /\ Covered /\ Twice
  BY DEF Lag, TokenLag, UsageIsReport, Covered, Reporting, Twice, Local, Uncharged, MainBound,
         TargetBound
<1> QED
  BY <1>1, <1>2, <1>3 DEF RInv, RTypes

\* Every step keeps them.
LEMMA RTypesStep == ASSUME RTypes, [Next]_vars PROVE RTypes'
<1> USE RealtimeConstants
    DEF RTypes, TypeOK, Places, PCs, Chargers, Readers, Goto, Same, NoCharge, NoMessage, Receive,
        session, charges, history, shared
<1>1. CASE Dial \/ DialFails
  BY <1>1 DEF Dial, DialFails
<1>2. CASE Messages
  <2>1. PICK n \in Amounts : ClientMessage(n) \/ ResponseDone(n) \/ ResponseDoneNoUsage(n)
                             \/ TargetMessage(n)
    BY <1>2 DEF Messages
  <2>2. n \in Nat
    OBVIOUS
  <2>3. CASE ClientMessage(n)
    BY <2>2, <2>3 DEF ClientMessage
  <2>4. CASE ResponseDone(n)
    BY <2>2, <2>4 DEF ResponseDone
  <2>5. CASE ResponseDoneNoUsage(n)
    BY <2>2, <2>5 DEF ResponseDoneNoUsage
  <2>6. CASE TargetMessage(n)
    BY <2>2, <2>6 DEF TargetMessage
  <2> QED
    BY <2>1, <2>3, <2>4, <2>5, <2>6
<1>3. CASE Wake \/ Leftover \/ PostWssConsumeQuota
  BY <1>3 DEF Wake, Leftover, PostWssConsumeQuota
<1>4. CASE ClientAdd
  BY <1>4 DEF ClientAdd
<1>5. CASE ClearUsage \/ ClearLocal
  BY <1>5 DEF ClearUsage, ClearLocal
<1>6. ASSUME NEW p \in Chargers, Check(p) PROVE RTypes'
  <2>1. Due(p) \in Nat
    BY DEF Due
  <2>2. job' \in [Chargers -> [of : {"usage", "local"}, amount : Nat]]
    BY <1>6, <2>1 DEF Check
  <2>3. AfterCharge(p) \in {"clearUsage", "clearLocal", "local", "log"}
        /\ job'[p].of = job[p].of
        /\ \A q \in Chargers : q # p => job'[q] = job[q]
    BY <1>6 DEF Check, AfterCharge
  <2>4. PICK l \in PCs : pc' = [pc EXCEPT ![p] = l] /\ l \in {"fund", "stopped", AfterCharge(p)}
                          /\ (l = "stopped" => p = "target") /\ (l = "fund" => ~usePrice)
    BY <1>6, <2>3 DEF Check, Fails
  <2>5. TypeOK'
    BY <1>6, <2>2, <2>4 DEF Check, Fails
  <2>6. Places'
    BY <1>6, <2>3, <2>4 DEF Check, AfterCharge
  <2> QED
    BY <2>5, <2>6
<1>7. ASSUME NEW p \in Chargers, Fund(p) PROVE RTypes'
  <2>1. AfterCharge(p) \in {"clearUsage", "clearLocal", "local", "log"}
    BY DEF AfterCharge
  <2>2. PICK l \in PCs : pc' = [pc EXCEPT ![p] = l] /\ l \in {"token", "stopped", AfterCharge(p)}
                          /\ (l = "stopped" => p = "target") /\ ~usePrice
    BY <1>7, <2>1 DEF Fund, Fails
  <2>3. TypeOK'
    <3>1. CASE paid' = paid + job[p].amount /\ UNCHANGED <<woken, refused>>
      BY <1>7, <2>2, <3>1 DEF Fund
    <3>2. CASE paid' = paid /\ Fails(p) /\ refused' = TRUE
      BY <1>7, <2>2, <3>2 DEF Fund, Fails
    <3> QED
      BY <1>7, <3>1, <3>2 DEF Fund
  <2>4. Places'
    BY <1>7, <2>2 DEF Fund, AfterCharge
  <2> QED
    BY <2>3, <2>4
<1>8. ASSUME NEW p \in Chargers, PayToken(p) PROVE RTypes'
  BY <1>8 DEF PayToken, AfterCharge
<1>9. ASSUME NEW p \in Readers, Disconnect(p) PROVE RTypes'
  BY <1>9 DEF Disconnect
<1>10. ASSUME NEW p \in Chargers, ChargeError(p) PROVE RTypes'
  BY <1>10 DEF ChargeError, Fails, AfterCharge
<1>11. CASE UNCHANGED vars
  BY <1>11 DEF vars
<1> QED
  BY <1>1, <1>2, <1>3, <1>4, <1>5, <1>6, <1>7, <1>8, <1>9, <1>10, <1>11
  DEF Next, Run, Charge, Finished

-----------------------------------------------------------------------------
(* The three steps of a charge, seen by the amounts.                       *)

\* Check fixes the amount, and goes on to charge it unless a price per call
\* or a low balance prevents that.
LEMMA CheckEffect ==
  ASSUME RTypes, NEW p \in Chargers, Check(p)
  PROVE  /\ pc[p] = "check"
         /\ job' = [job EXCEPT ![p] = [of |-> job[p].of, amount |-> Due(p)]]
         /\ \/ pc' = [pc EXCEPT ![p] = "fund"] /\ ~usePrice /\ refused' = refused
            \/ pc' = [pc EXCEPT ![p] = AfterCharge(p)] /\ usePrice /\ refused' = refused
            \/ /\ pc' = [pc EXCEPT ![p] = IF p = "target" THEN "stopped" ELSE AfterCharge(p)]
               /\ refused' = TRUE
         /\ paid' = paid /\ tokenPaid' = tokenPaid
         /\ UNCHANGED <<hold, usePrice, usage, local, clientMem, reported, counted, faults>>
<1>1. job' = [job EXCEPT ![p] = [job[p] EXCEPT !.amount = Due(p)]]
  BY DEF Check
<1>2. [job[p] EXCEPT !.amount = Due(p)] = [of |-> job[p].of, amount |-> Due(p)]
  BY DEF RTypes, TypeOK
<1> QED
  BY <1>1, <1>2 DEF Check, Fails, Goto, Same, NoCharge, NoMessage, session, charges, history, shared

\* Fund charges the amount unless the subscription refuses it.
LEMMA FundEffect ==
  ASSUME NEW p \in Chargers, Fund(p)
  PROVE  /\ pc[p] = "fund" /\ job' = job /\ tokenPaid' = tokenPaid
         /\ \/ pc' = [pc EXCEPT ![p] = "token"] /\ paid' = paid + job[p].amount /\ refused' = refused
            \/ /\ pc' = [pc EXCEPT ![p] = IF p = "target" THEN "stopped" ELSE AfterCharge(p)]
               /\ paid' = paid /\ refused' = TRUE
         /\ UNCHANGED <<hold, usePrice, usage, local, clientMem, reported, counted, faults>>
BY DEF Fund, Fails, Goto, Same, NoMessage, session, history, shared

\* Where a charger is after them.
Checked(p, l) ==
    /\ l \in {"fund", "stopped", "clearUsage", "clearLocal", "local", "log"}
    /\ pc' = [pc EXCEPT ![p] = l]
    /\ l = "fund" => refused' = refused /\ ~usePrice
    /\ l # "fund" => usePrice \/ refused'
    /\ l # "fund" /\ p = "main" => l = IF job[p].of = "usage" THEN "local" ELSE "log"
    /\ l = "clearUsage" => usePrice /\ job[p].of = "usage"
    /\ l = "clearLocal" => usePrice /\ job[p].of = "local"
    /\ l = "stopped" => p = "target" /\ refused'
    /\ l \in {"local", "log"} => p = "main"
    /\ refused => refused'

Funded(p, l) ==
    /\ l \in {"token", "stopped", "local", "log"}
    /\ pc' = [pc EXCEPT ![p] = l]
    /\ l = "token" => refused' = refused /\ paid' = paid + job[p].amount
    /\ l # "token" => refused' /\ paid' = paid
    /\ l \in {"local", "log"} =>
          p = "main" /\ l = IF job[p].of = "usage" THEN "local" ELSE "log"
    /\ l = "stopped" => p = "target"

\* Check leads to one of these places.
LEMMA CheckMoves ==
  ASSUME RTypes, NEW p \in Chargers, Check(p)
  PROVE  \E l : Checked(p, l)
BY CheckEffect DEF Checked, RTypes, TypeOK, AfterCharge, Chargers

\* And Fund to one of these.
LEMMA FundMoves ==
  ASSUME RTypes, NEW p \in Chargers, Fund(p)
  PROVE  \E l : Funded(p, l)
BY FundEffect DEF Funded, RTypes, TypeOK, AfterCharge, Chargers

\* A call that fails may have been applied.
LEMMA ErrorEffect ==
  ASSUME RTypes, NEW p \in Chargers, ChargeError(p)
  PROVE  /\ job' = job /\ refused' = refused /\ faults' # 0
         /\ pc' = [pc EXCEPT ![p] = IF p = "target" THEN "stopped" ELSE AfterCharge(p)]
         /\ \/ pc[p] = "fund" /\ paid' \in {paid, paid + job[p].amount}
            \/ pc[p] = "token" /\ paid' = paid
         /\ UNCHANGED <<hold, usePrice, usage, local, clientMem, reported, counted>>
BY RealtimeConstants
DEF RTypes, TypeOK, ChargeError, Fails, Goto, NoMessage, session, history, shared

-----------------------------------------------------------------------------
(* Each part is kept by every step.                                        *)

\* The token lags behind the source by what is between the two calls.
LEMMA LagStep == ASSUME RTypes, Lag, [Next]_vars PROVE Lag'
<1> USE RealtimeConstants
    DEF RTypes, TypeOK, Places, PCs, Chargers, Readers, Goto, Same, NoCharge, NoMessage, Receive,
        session, charges, history, shared, Checked, Funded, Lag, TokenLag
<1>1. CASE Dial \/ DialFails
  <2>1. \A p \in Chargers : pc[p] # "token" /\ pc'[p] # "token"
    BY <1>1 DEF Dial, DialFails
  <2> QED
    BY <1>1, <2>1 DEF Dial, DialFails
<1>2. ASSUME NEW n \in Amounts, ClientMessage(n) PROVE Lag'
  BY <1>2 DEF ClientMessage
<1>3. ASSUME NEW n \in Amounts, ResponseDone(n) PROVE Lag'
  BY <1>3 DEF ResponseDone
<1>4. ASSUME NEW n \in Amounts, ResponseDoneNoUsage(n) PROVE Lag'
  BY <1>4 DEF ResponseDoneNoUsage
<1>5. ASSUME NEW n \in Amounts, TargetMessage(n) PROVE Lag'
  BY <1>5 DEF TargetMessage
<1>6. CASE Wake \/ Leftover \/ PostWssConsumeQuota
  BY <1>6 DEF Wake, Leftover, PostWssConsumeQuota
<1>7. CASE ClientAdd
  BY <1>7 DEF ClientAdd
<1>8. CASE ClearUsage \/ ClearLocal
  BY <1>8 DEF ClearUsage, ClearLocal
<1>9. ASSUME NEW p \in Chargers, Check(p) PROVE Lag'
  <2>1. PICK l : Checked(p, l)
    BY <1>9, CheckMoves
  <2>2. /\ pc[p] = "check" /\ paid' = paid /\ tokenPaid' = tokenPaid
        /\ job' = [job EXCEPT ![p] = [of |-> job[p].of, amount |-> Due(p)]]
        /\ UNCHANGED <<hold, usePrice, usage, local, clientMem, reported, counted, faults>>
    BY <1>9, CheckEffect
  <2>3. CASE p = "main"
    <3>1. /\ pc'["main"] = l /\ pc'["target"] = pc["target"] /\ pc'["client"] = pc["client"]
          /\ job'["main"].of = job["main"].of /\ job'["main"].amount = Due("main")
          /\ job'["target"] = job["target"]
      BY <2>1, <2>2, <2>3
    <3> QED
      BY <2>1, <2>2, <2>3, <3>1
  <2>4. CASE p = "target"
    <3>1. /\ pc'["target"] = l /\ pc'["main"] = pc["main"] /\ pc'["client"] = pc["client"]
          /\ job'["target"].of = job["target"].of /\ job'["target"].amount = Due("target")
          /\ job'["main"] = job["main"]
      BY <2>1, <2>2, <2>4
    <3> QED
      BY <2>1, <2>2, <2>4, <3>1
  <2> QED
    BY <2>3, <2>4
<1>10. ASSUME NEW p \in Chargers, Fund(p) PROVE Lag'
  <2>1. PICK l : Funded(p, l)
    BY <1>10, FundMoves
  <2>2. /\ pc[p] = "fund" /\ job' = job /\ tokenPaid' = tokenPaid
        /\ UNCHANGED <<hold, usePrice, usage, local, clientMem, reported, counted, faults>>
    BY <1>10, FundEffect
  <2>3. CASE p = "main"
    <3>1. pc'["main"] = l /\ pc'["target"] = pc["target"] /\ pc'["client"] = pc["client"]
      BY <2>1, <2>3
    <3> QED
      BY <2>1, <2>2, <2>3, <3>1
  <2>4. CASE p = "target"
    <3>1. pc'["target"] = l /\ pc'["main"] = pc["main"] /\ pc'["client"] = pc["client"]
      BY <2>1, <2>4
    <3> QED
      BY <2>1, <2>2, <2>4, <3>1
  <2> QED
    BY <2>3, <2>4
<1>11. ASSUME NEW p \in Chargers, PayToken(p) PROVE Lag'
  BY <1>11 DEF PayToken, AfterCharge
<1>12. ASSUME NEW p \in Readers, Disconnect(p) PROVE Lag'
  BY <1>12 DEF Disconnect
<1>13. ASSUME NEW p \in Chargers, ChargeError(p) PROVE Lag'
  BY <1>13, ErrorEffect
<1>14. CASE UNCHANGED vars
  BY <1>14 DEF vars
<1> QED
  BY <1>1, <1>2, <1>3, <1>4, <1>5, <1>6, <1>7, <1>8, <1>9, <1>10, <1>11, <1>12, <1>13, <1>14
  DEF Next, Messages, Run, Charge, Finished

\* usage is always a report under way or one that could not be charged.
LEMMA UsageStep == ASSUME RTypes, UsageIsReport, [Next]_vars PROVE UsageIsReport'
<1> USE RealtimeConstants
    DEF RTypes, TypeOK, Places, PCs, Chargers, Readers, Goto, Same, NoCharge, NoMessage, Receive,
        session, charges, history, shared, Checked, Funded, UsageIsReport, AfterCharge, Due
<1>1. CASE Dial \/ DialFails
  BY <1>1 DEF Dial, DialFails
<1>2. ASSUME NEW n \in Amounts, ClientMessage(n) PROVE UsageIsReport'
  BY <1>2 DEF ClientMessage
<1>3. ASSUME NEW n \in Amounts, ResponseDone(n) PROVE UsageIsReport'
  BY <1>3 DEF ResponseDone
<1>4. ASSUME NEW n \in Amounts, ResponseDoneNoUsage(n) PROVE UsageIsReport'
  BY <1>4 DEF ResponseDoneNoUsage
<1>5. ASSUME NEW n \in Amounts, TargetMessage(n) PROVE UsageIsReport'
  BY <1>5 DEF TargetMessage
<1>6. CASE Wake \/ Leftover \/ PostWssConsumeQuota
  BY <1>6 DEF Wake, Leftover, PostWssConsumeQuota
<1>7. CASE ClientAdd
  BY <1>7 DEF ClientAdd
<1>8. CASE ClearUsage \/ ClearLocal
  BY <1>8 DEF ClearUsage, ClearLocal
<1>9. ASSUME NEW p \in Chargers, Check(p) PROVE UsageIsReport'
  <2>1. PICK l : Checked(p, l)
    BY <1>9, CheckMoves
  <2>2. /\ pc[p] = "check" /\ paid' = paid /\ tokenPaid' = tokenPaid
        /\ job' = [job EXCEPT ![p] = [of |-> job[p].of, amount |-> Due(p)]]
        /\ UNCHANGED <<hold, usePrice, usage, local, clientMem, reported, counted, faults>>
    BY <1>9, CheckEffect
  <2>3. CASE p = "main"
    <3>1. /\ pc'["main"] = l /\ pc'["target"] = pc["target"] /\ pc'["client"] = pc["client"]
          /\ job'["main"].of = job["main"].of /\ job'["main"].amount = Due("main")
          /\ job'["target"] = job["target"]
      BY <2>1, <2>2, <2>3
    <3> QED
      BY <2>1, <2>2, <2>3, <3>1
  <2>4. CASE p = "target"
    <3>1. /\ pc'["target"] = l /\ pc'["main"] = pc["main"] /\ pc'["client"] = pc["client"]
          /\ job'["target"].of = job["target"].of /\ job'["target"].amount = Due("target")
          /\ job'["main"] = job["main"]
      BY <2>1, <2>2, <2>4
    <3>2. pc'["target"] = "fund" /\ job'["target"].of = "usage" => job'["target"].amount = usage'
      BY <2>2, <3>1
    <3>3. ~usePrice' /\ usage' # 0 =>
            \/ job'["target"].of = "usage" /\ pc'["target"] = "fund"
            \/ pc'["target"] = "stopped" /\ refused'
      BY <2>1, <2>2, <2>4, <3>1
    <3> QED
      BY <2>2, <3>2, <3>3
  <2> QED
    BY <2>3, <2>4
<1>10. ASSUME NEW p \in Chargers, Fund(p) PROVE UsageIsReport'
  <2>1. PICK l : Funded(p, l)
    BY <1>10, FundMoves
  <2>2. /\ pc[p] = "fund" /\ job' = job /\ tokenPaid' = tokenPaid
        /\ UNCHANGED <<hold, usePrice, usage, local, clientMem, reported, counted, faults>>
    BY <1>10, FundEffect
  <2>3. CASE p = "main"
    <3>1. pc'["main"] = l /\ pc'["target"] = pc["target"] /\ pc'["client"] = pc["client"]
      BY <2>1, <2>3
    <3> QED
      BY <2>1, <2>2, <2>3, <3>1
  <2>4. CASE p = "target"
    <3>1. pc'["target"] = l /\ pc'["main"] = pc["main"] /\ pc'["client"] = pc["client"]
      BY <2>1, <2>4
    <3> QED
      BY <2>1, <2>2, <2>4, <3>1
  <2> QED
    BY <2>3, <2>4
<1>11. ASSUME NEW p \in Chargers, PayToken(p) PROVE UsageIsReport'
  BY <1>11 DEF PayToken, AfterCharge
<1>12. ASSUME NEW p \in Readers, Disconnect(p) PROVE UsageIsReport'
  BY <1>12 DEF Disconnect
<1>13. ASSUME NEW p \in Chargers, ChargeError(p) PROVE UsageIsReport'
  BY <1>13, ErrorEffect
<1>14. CASE UNCHANGED vars
  BY <1>14 DEF vars
<1> QED
  BY <1>1, <1>2, <1>3, <1>4, <1>5, <1>6, <1>7, <1>8, <1>9, <1>10, <1>11, <1>12, <1>13, <1>14
  DEF Next, Messages, Run, Charge, Finished

\* What has been paid covers every report but the current one.
LEMMA CoveredStep == ASSUME RTypes, UsageIsReport, Covered, [Next]_vars PROVE Covered'
<1> USE RealtimeConstants
    DEF RTypes, TypeOK, Places, PCs, Chargers, Readers, Goto, Same, NoCharge, NoMessage, Receive,
        session, charges, history, shared, Checked, Funded, UsageIsReport, Covered,
        Reporting, AfterCharge, Due
<1>1. CASE Dial \/ DialFails
  BY <1>1 DEF Dial, DialFails
<1>2. ASSUME NEW n \in Amounts, ClientMessage(n) PROVE Covered'
  BY <1>2 DEF ClientMessage
<1>3. ASSUME NEW n \in Amounts, ResponseDone(n) PROVE Covered'
  BY <1>3 DEF ResponseDone
<1>4. ASSUME NEW n \in Amounts, ResponseDoneNoUsage(n) PROVE Covered'
  BY <1>4 DEF ResponseDoneNoUsage
<1>5. ASSUME NEW n \in Amounts, TargetMessage(n) PROVE Covered'
  BY <1>5 DEF TargetMessage
<1>6. CASE Wake \/ Leftover \/ PostWssConsumeQuota
  BY <1>6 DEF Wake, Leftover, PostWssConsumeQuota
<1>7. CASE ClientAdd
  BY <1>7 DEF ClientAdd
<1>8. CASE ClearUsage \/ ClearLocal
  BY <1>8 DEF ClearUsage, ClearLocal
<1>9. ASSUME NEW p \in Chargers, Check(p) PROVE Covered'
  <2>1. PICK l : Checked(p, l)
    BY <1>9, CheckMoves
  <2>2. /\ pc[p] = "check" /\ paid' = paid /\ tokenPaid' = tokenPaid
        /\ job' = [job EXCEPT ![p] = [of |-> job[p].of, amount |-> Due(p)]]
        /\ UNCHANGED <<hold, usePrice, usage, local, clientMem, reported, counted, faults>>
    BY <1>9, CheckEffect
  <2>3. CASE p = "main"
    <3>1. /\ pc'["main"] = l /\ pc'["target"] = pc["target"] /\ pc'["client"] = pc["client"]
          /\ job'["main"].of = job["main"].of /\ job'["main"].amount = Due("main")
          /\ job'["target"] = job["target"]
      BY <2>1, <2>2, <2>3
    <3> QED
      BY <2>1, <2>2, <2>3, <3>1
  <2>4. CASE p = "target"
    <3>1. /\ pc'["target"] = l /\ pc'["main"] = pc["main"] /\ pc'["client"] = pc["client"]
          /\ job'["target"].of = job["target"].of /\ job'["target"].amount = Due("target")
          /\ job'["main"] = job["main"]
      BY <2>1, <2>2, <2>4
    <3> QED
      BY <2>1, <2>2, <2>4, <3>1
  <2> QED
    BY <2>3, <2>4
<1>10. ASSUME NEW p \in Chargers, Fund(p) PROVE Covered'
  <2>1. PICK l : Funded(p, l)
    BY <1>10, FundMoves
  <2>2. /\ pc[p] = "fund" /\ job' = job /\ tokenPaid' = tokenPaid
        /\ UNCHANGED <<hold, usePrice, usage, local, clientMem, reported, counted, faults>>
    BY <1>10, FundEffect
  <2>3. CASE p = "main"
    <3>1. pc'["main"] = l /\ pc'["target"] = pc["target"] /\ pc'["client"] = pc["client"]
      BY <2>1, <2>3
    <3> QED
      BY <2>1, <2>2, <2>3, <3>1
  <2>4. CASE p = "target"
    <3>1. pc'["target"] = l /\ pc'["main"] = pc["main"] /\ pc'["client"] = pc["client"]
      BY <2>1, <2>4
    <3> QED
      BY <2>1, <2>2, <2>4, <3>1
  <2> QED
    BY <2>3, <2>4
<1>11. ASSUME NEW p \in Chargers, PayToken(p) PROVE Covered'
  BY <1>11 DEF PayToken, AfterCharge
<1>12. ASSUME NEW p \in Readers, Disconnect(p) PROVE Covered'
  BY <1>12 DEF Disconnect
<1>13. ASSUME NEW p \in Chargers, ChargeError(p) PROVE Covered'
  BY <1>13, ErrorEffect
<1>14. CASE UNCHANGED vars
  BY <1>14 DEF vars
<1> QED
  BY <1>1, <1>2, <1>3, <1>4, <1>5, <1>6, <1>7, <1>8, <1>9, <1>10, <1>11, <1>12, <1>13, <1>14
  DEF Next, Messages, Run, Charge, Finished

\* What has been charged stays within what the two goroutines may charge.
LEMMA TwiceStep == ASSUME RTypes, UsageIsReport, Twice, [Next]_vars PROVE Twice'
<1> USE RealtimeConstants
    DEF RTypes, TypeOK, Places, PCs, Chargers, Readers, Goto, Same, NoCharge, NoMessage, Receive,
        session, charges, history, shared, Checked, Funded, UsageIsReport, Twice,
        Reporting, AfterCharge, Due, Local, Uncharged, MainBound, TargetBound
<1>1. CASE Dial \/ DialFails
  BY <1>1 DEF Dial, DialFails
<1>2. ASSUME NEW n \in Amounts, ClientMessage(n) PROVE Twice'
  BY <1>2 DEF ClientMessage
<1>3. ASSUME NEW n \in Amounts, ResponseDone(n) PROVE Twice'
  BY <1>3 DEF ResponseDone
<1>4. ASSUME NEW n \in Amounts, ResponseDoneNoUsage(n) PROVE Twice'
  BY <1>4 DEF ResponseDoneNoUsage
<1>5. ASSUME NEW n \in Amounts, TargetMessage(n) PROVE Twice'
  BY <1>5 DEF TargetMessage
<1>6. CASE Wake \/ Leftover \/ PostWssConsumeQuota
  <2>1. CASE Wake
    BY <2>1 DEF Wake
  <2>2. CASE Leftover
    BY <2>2 DEF Leftover
  <2>3. CASE PostWssConsumeQuota
    BY <2>3 DEF PostWssConsumeQuota
  <2> QED
    BY <1>6, <2>1, <2>2, <2>3
<1>7. CASE ClientAdd
  BY <1>7 DEF ClientAdd
<1>8. CASE ClearUsage \/ ClearLocal
  BY <1>8 DEF ClearUsage, ClearLocal
<1>9. ASSUME NEW p \in Chargers, Check(p) PROVE Twice'
  <2>1. PICK l : Checked(p, l)
    BY <1>9, CheckMoves
  <2>2. /\ pc[p] = "check" /\ paid' = paid /\ tokenPaid' = tokenPaid
        /\ job' = [job EXCEPT ![p] = [of |-> job[p].of, amount |-> Due(p)]]
        /\ UNCHANGED <<hold, usePrice, usage, local, clientMem, reported, counted, faults>>
    BY <1>9, CheckEffect
  <2>3. CASE p = "main"
    <3>1. /\ pc'["main"] = l /\ pc'["target"] = pc["target"] /\ pc'["client"] = pc["client"]
          /\ job'["main"].of = job["main"].of /\ job'["main"].amount = Due("main")
          /\ job'["target"] = job["target"]
      BY <2>1, <2>2, <2>3
    <3> QED
      BY <2>1, <2>2, <2>3, <3>1
  <2>4. CASE p = "target"
    <3>1. /\ pc'["target"] = l /\ pc'["main"] = pc["main"] /\ pc'["client"] = pc["client"]
          /\ job'["target"].of = job["target"].of /\ job'["target"].amount = Due("target")
          /\ job'["main"] = job["main"]
      BY <2>1, <2>2, <2>4
    <3> QED
      BY <2>1, <2>2, <2>4, <3>1
  <2> QED
    BY <2>3, <2>4
<1>10. ASSUME NEW p \in Chargers, Fund(p) PROVE Twice'
  <2>1. PICK l : Funded(p, l)
    BY <1>10, FundMoves
  <2>2. /\ pc[p] = "fund" /\ job' = job /\ tokenPaid' = tokenPaid
        /\ UNCHANGED <<hold, usePrice, usage, local, clientMem, reported, counted, faults>>
    BY <1>10, FundEffect
  <2>3. CASE p = "main"
    <3>1. pc'["main"] = l /\ pc'["target"] = pc["target"] /\ pc'["client"] = pc["client"]
      BY <2>1, <2>3
    <3> QED
      BY <2>1, <2>2, <2>3, <3>1
  <2>4. CASE p = "target"
    <3>1. pc'["target"] = l /\ pc'["main"] = pc["main"] /\ pc'["client"] = pc["client"]
      BY <2>1, <2>4
    <3> QED
      BY <2>1, <2>2, <2>4, <3>1
  <2> QED
    BY <2>3, <2>4
<1>11. ASSUME NEW p \in Chargers, PayToken(p) PROVE Twice'
  BY <1>11 DEF PayToken, AfterCharge
<1>12. ASSUME NEW p \in Readers, Disconnect(p) PROVE Twice'
  BY <1>12 DEF Disconnect
<1>13. ASSUME NEW p \in Chargers, ChargeError(p) PROVE Twice'
  BY <1>13, ErrorEffect
<1>14. CASE UNCHANGED vars
  BY <1>14 DEF vars
<1> QED
  BY <1>1, <1>2, <1>3, <1>4, <1>5, <1>6, <1>7, <1>8, <1>9, <1>10, <1>11, <1>12, <1>13, <1>14
  DEF Next, Messages, Run, Charge, Finished

-----------------------------------------------------------------------------
(* The theorems.                                                           *)

\* RInv is an invariant: types and places, how far the token lags behind, what
\* is still owed of the reports, and what each goroutine may still charge.
THEOREM RealtimeInvariant == Spec => []RInv
<1>1. Init => RInv
  BY RealtimeInit
<1>2. RInv /\ [Next]_vars => RInv'
  BY RTypesStep, LagStep, UsageStep, CoveredStep, TwiceStep DEF RInv
<1> QED
  BY <1>1, <1>2, PTL DEF Spec

\* TokenFollowsFunding: a session that has ended without a failing call has
\* charged the token what it charged the funding source.
THEOREM TokenIsChargedToo == Spec => []TokenFollowsFunding
<1>1. RInv => TokenFollowsFunding
  <2> SUFFICES ASSUME RInv, AllStopped, faults = 0 PROVE tokenPaid = paid
    BY DEF TokenFollowsFunding
  <2>1. pc["main"] = "stopped" /\ pc["target"] = "stopped"
    BY DEF RInv, RTypes, TypeOK, AllStopped
  <2> QED
    BY <2>1 DEF RInv, RTypes, TypeOK, Lag, TokenLag
<1> QED
  BY <1>1, RealtimeInvariant, PTL

\* EveryResponsePaid: what the provider reported is paid when the session has
\* ended, whoever closed it and at whatever step of the target reader.
THEOREM ReportsArePaid == Spec => []EveryResponsePaid
<1>1. RInv => EveryResponsePaid
  BY DEF RInv, RTypes, TypeOK, Covered, Reporting, Charged, EveryResponsePaid, AllStopped
<1> QED
  BY <1>1, RealtimeInvariant, PTL

\* ChargedAtMostTwice: for any messages, races on the two counters, refusals
\* and failing calls, a session charges at most twice what was reported and
\* counted.
THEOREM NothingIsChargedThrice == Spec => []ChargedAtMostTwice
<1> USE DEF RTypes, TypeOK, Chargers
<1>1. RInv => TargetBound <= reported + counted /\ TargetBound \in Int
  BY DEF RInv, Twice, TargetBound, Uncharged, Local
<1>2. RInv => MainBound <= reported + counted /\ MainBound \in Nat
  BY DEF RInv, MainBound
<1>3. RInv => ChargedAtMostTwice
  BY <1>1, <1>2 DEF RInv, Twice, Charged, ChargedAtMostTwice
<1> QED
  BY <1>3, RealtimeInvariant, PTL

=============================================================================
