-------------------------- MODULE PriceUpdaterProofs --------------------------
(***************************************************************************)
(* The price updater for every set of prices and administrators, every     *)
(* maximal age, schedule and delay of a transaction.                       *)
(***************************************************************************)
EXTENDS PriceUpdater, TLAPS

LEMMA PriceInitType == PriceInit => PriceTypeOK
<1> SUFFICES ASSUME PriceInit PROVE PriceTypeOK
  OBVIOUS
<1>1. 0 \in 0..MaxTime /\ Period \in Nat
  BY OracleAssumption, UpdaterAssumption
<1>2. seenStale \in BOOLEAN /\ receiptOk \in BOOLEAN
  BY DEF PriceInit
<1> QED
  BY <1>1, <1>2 DEF PriceInit, OracleInit, PriceTypeOK, OracleTypeOK

LEMMA MineType ==
  ASSUME PriceTypeOK, MineUpdate PROVE PriceTypeOK'
<1>1. Head(pending) \in Updates /\ pending' \in Seq(Updates)
  BY DEF MineUpdate, PriceTypeOK
<1>2. /\ Head(pending).price \in NAVPrices
      /\ Head(pending).quotedAt \in 0..MaxTime
  BY <1>1 DEF Updates
<1>3. receiptOk' \in BOOLEAN
  BY DEF MineUpdate
<1>4. /\ currentPrice' \in NAVPrices
      /\ lastUpdate' \in 0..MaxTime
      /\ quotedAt' \in 0..MaxTime
      /\ UNCHANGED <<oracleAdmin, time, ondo, runVars, nextRun, failures>>
  BY <1>2 DEF MineUpdate, UpdatePrice, oracleVars, PriceTypeOK, OracleTypeOK
<1> QED
  BY <1>1, <1>3, <1>4 DEF PriceTypeOK, OracleTypeOK, runVars

LEMMA SendType ==
  ASSUME PriceTypeOK, SendUpdate PROVE PriceTypeOK'
<1>1. [price |-> quote, quotedAt |-> quoteTime, sentAt |-> time] \in Updates
  BY DEF PriceTypeOK, OracleTypeOK, Updates
<1>2. pending' \in Seq(Updates)
  BY <1>1 DEF SendUpdate, PriceTypeOK
<1> QED
  BY <1>2 DEF SendUpdate, PriceTypeOK, OracleTypeOK, worldVars, oracleVars, bookVars

LEMMA RunType ==
  ASSUME PriceTypeOK,
         \/ StartRun \/ FetchOndo \/ ReadPrice \/ ReadStale \/ SkipUpdate
         \/ Confirmed \/ RunFails
  PROVE  PriceTypeOK'
<1> USE DEF PriceTypeOK, OracleTypeOK, Ends, worldVars, oracleVars, txVars, bookVars
<1>1. CASE StartRun
  BY <1>1, UpdaterAssumption DEF StartRun
<1>2. CASE FetchOndo
  <2>1. ondo \in MinPrice..MaxPrice => ondo * Scale \in NAVPrices
    BY UpdaterAssumption
  <2> QED
    BY <1>2, <2>1 DEF FetchOndo
<1>3. CASE ReadPrice \/ ReadStale
  <2>1. CASE ReadPrice
    BY <2>1 DEF ReadPrice
  <2>2. CASE ReadStale
    <3>1. IsStale \in BOOLEAN
      BY DEF IsStale
    <3>2. seenStale' \in BOOLEAN
      BY <2>2, <3>1 DEF ReadStale
    <3> QED
      BY <2>2, <3>2 DEF ReadStale
  <2> QED
    BY <1>3, <2>1, <2>2
<1>4. CASE SkipUpdate \/ Confirmed \/ RunFails
  BY <1>4 DEF SkipUpdate, Confirmed, RunFails
<1> QED
  BY <1>1, <1>2, <1>3, <1>4

LEMMA PriceStepType ==
  PriceTypeOK /\ [PriceNext]_priceVars => PriceTypeOK'
<1> SUFFICES ASSUME PriceTypeOK, [PriceNext]_priceVars PROVE PriceTypeOK'
  OBVIOUS
<1>1. ASSUME NEW p \in OndoPrices, OndoMoves(p) PROVE PriceTypeOK'
  BY <1>1 DEF OndoMoves, PriceTypeOK, OracleTypeOK, oracleVars, runVars, txVars, bookVars
<1>2. ASSUME NEW a \in OracleAdmins, HandOver(a) PROVE PriceTypeOK'
  BY <1>2 DEF HandOver, SetOracleAdmin, PriceTypeOK, OracleTypeOK, runVars, txVars, bookVars
<1>3. CASE TimePasses
  BY <1>3, OracleAssumption
  DEF TimePasses, PriceTypeOK, OracleTypeOK, oracleVars, runVars, txVars, bookVars
<1>5. ASSUME NEW p \in NAVPrices, UpdateByHand(p) PROVE PriceTypeOK'
  BY <1>5 DEF UpdateByHand, UpdatePrice, PriceTypeOK, OracleTypeOK, runVars, txVars
<1>4. CASE UNCHANGED priceVars
  BY <1>4
  DEF PriceTypeOK, OracleTypeOK, priceVars, worldVars, oracleVars, runVars, txVars, bookVars
<1> QED
  BY <1>1, <1>2, <1>3, <1>4, <1>5, MineType, SendType, RunType DEF PriceNext

(* The state of the oracle and the updater keeps its type. *)
THEOREM PriceTypeCorrect == PriceSpec => []PriceTypeOK
BY PriceInitType, PriceStepType, PTL DEF PriceSpec

-----------------------------------------------------------------------------
(* A transaction carries a quote that is as old as itself, because a run    *)
(* reads the quote it sends; hence what is mined is MaxDelay old at most.   *)
RecencyInv ==
  /\ lastUpdate <= quotedAt + MaxDelay
  /\ pc \in {"price", "stale", "decide"} => quoteTime = time
  /\ \A k \in DOMAIN pending :
       /\ pending[k].quotedAt = pending[k].sentAt
       /\ time <= pending[k].sentAt + MaxDelay

LEMMA RecencyInit == PriceInit => RecencyInv
BY UpdaterAssumption DEF PriceInit, OracleInit, RecencyInv

LEMMA MineRecency ==
  ASSUME PriceTypeOK, RecencyInv, MineUpdate PROVE RecencyInv'
<1>1. /\ pending \in Seq(Updates) /\ pending # <<>>
      /\ pending' = Tail(pending)
      /\ UNCHANGED <<time, pc, quoteTime>>
  BY DEF MineUpdate, UpdatePrice, oracleVars, runVars, PriceTypeOK
<1>2. \A k \in DOMAIN pending' : k + 1 \in DOMAIN pending /\ pending'[k] = pending[k + 1]
  BY <1>1
<1>3. /\ Head(pending).quotedAt = Head(pending).sentAt
      /\ time <= Head(pending).sentAt + MaxDelay
  BY <1>1 DEF RecencyInv
<1>4. lastUpdate' <= quotedAt' + MaxDelay
  BY <1>3 DEF MineUpdate, UpdatePrice, oracleVars, RecencyInv
<1> QED
  BY <1>1, <1>2, <1>4 DEF RecencyInv

LEMMA SendRecency ==
  ASSUME PriceTypeOK, RecencyInv, SendUpdate PROVE RecencyInv'
<1> DEFINE tx == [price |-> quote, quotedAt |-> quoteTime, sentAt |-> time]
<1>1. /\ pending \in Seq(Updates) /\ time \in Nat
      /\ pending' = Append(pending, tx)
      /\ quoteTime = time
      /\ UNCHANGED <<lastUpdate, time, quotedAt>>
      /\ pc' = "wait"
  BY OracleAssumption
  DEF SendUpdate, worldVars, oracleVars, bookVars, PriceTypeOK, OracleTypeOK, RecencyInv
<1>2. tx \in Updates
  BY DEF PriceTypeOK, OracleTypeOK, Updates
<1>3. \A k \in DOMAIN pending' :
        \/ k \in DOMAIN pending /\ pending'[k] = pending[k]
        \/ pending'[k] = tx
  BY <1>1, <1>2
<1>4. tx.quotedAt = tx.sentAt /\ time <= tx.sentAt + MaxDelay
  BY <1>1, UpdaterAssumption
<1> QED
  BY <1>1, <1>3, <1>4 DEF RecencyInv

LEMMA RecencyStep ==
  PriceTypeOK /\ RecencyInv /\ [PriceNext]_priceVars => RecencyInv'
<1> SUFFICES ASSUME PriceTypeOK, RecencyInv, [PriceNext]_priceVars PROVE RecencyInv'
  OBVIOUS
<1> USE DEF RecencyInv, Ends, worldVars, oracleVars, runVars, txVars, bookVars
<1>1. ASSUME NEW p \in OndoPrices, OndoMoves(p) PROVE RecencyInv'
  BY <1>1 DEF OndoMoves
<1>2. ASSUME NEW a \in OracleAdmins, HandOver(a) PROVE RecencyInv'
  BY <1>2 DEF HandOver, SetOracleAdmin
<1>3. CASE TimePasses
  <2>1. /\ UNCHANGED <<lastUpdate, quotedAt, pc, quoteTime, pending>>
        /\ pc = "idle" /\ time' = time + 1
        /\ \A k \in DOMAIN pending : time < pending[k].sentAt + MaxDelay
    BY <1>3 DEF TimePasses
  <2>2. \A k \in DOMAIN pending : pending[k].sentAt \in Nat
    <3>1. ASSUME NEW k \in DOMAIN pending PROVE pending[k] \in Updates
      BY DEF PriceTypeOK
    <3> QED
      BY <3>1, OracleAssumption DEF Updates
  <2>3. time \in Nat /\ MaxDelay \in Nat
    BY UpdaterAssumption, OracleAssumption DEF PriceTypeOK, OracleTypeOK
  <2>4. \A k \in DOMAIN pending : time' <= pending[k].sentAt + MaxDelay
    BY <2>1, <2>2, <2>3
  <2> QED
    BY <2>1, <2>4
<1>4. CASE StartRun \/ FetchOndo \/ ReadPrice \/ ReadStale
  BY <1>4 DEF StartRun, FetchOndo, ReadPrice, ReadStale
<1>5. CASE SkipUpdate \/ Confirmed \/ RunFails
  BY <1>5 DEF SkipUpdate, Confirmed, RunFails
<1>6. CASE UNCHANGED priceVars
  BY <1>6 DEF priceVars
<1>7. ASSUME NEW p \in NAVPrices, UpdateByHand(p) PROVE RecencyInv'
  <2>1. UNCHANGED <<time, pc, quoteTime, pending>> /\ lastUpdate' = time /\ quotedAt' = time
    BY <1>7 DEF UpdateByHand, UpdatePrice
  <2>2. time \in Nat /\ MaxDelay \in Nat
    BY UpdaterAssumption, OracleAssumption DEF PriceTypeOK, OracleTypeOK
  <2> QED
    BY <2>1, <2>2
<1> QED
  BY <1>1, <1>2, <1>3, <1>4, <1>5, <1>6, <1>7, MineRecency, SendRecency DEF PriceNext

(* A price the market can use was Ondo's, or given by hand, at most MaxAge  *)
(* and MaxDelay ago, however many transactions are outstanding and however  *)
(* late they are.                                                           *)
THEOREM UsablePricesAreRecent == PriceSpec => []UsableIsRecent
<1>1. PriceTypeOK /\ RecencyInv => UsableIsRecent
  <2> SUFFICES ASSUME PriceTypeOK, RecencyInv, ~IsStale
               PROVE  time <= quotedAt + MaxAge + MaxDelay
    BY DEF UsableIsRecent
  <2>1. {time, lastUpdate, quotedAt, MaxAge, MaxDelay} \subseteq Nat
    BY OracleAssumption, UpdaterAssumption DEF PriceTypeOK, OracleTypeOK
  <2> QED
    BY <2>1 DEF IsStale, RecencyInv
<1> QED
  BY <1>1, RecencyInit, RecencyStep, PriceTypeCorrect, PTL DEF PriceSpec

-----------------------------------------------------------------------------
(* How long after a price went stale the next run but one may come.         *)
Slack(f) == (f + 1) * Period

LEMMA SlackGrows ==
  /\ Period \in Nat \ {0}
  /\ Slack(0) = Period
  /\ \A f \in Nat : Slack(f) \in Nat /\ Slack(f + 1) = Slack(f) + Period
<1>1. Period \in Nat \ {0}
  BY UpdaterAssumption
<1>2. ASSUME NEW f \in Nat, NEW p \in Nat PROVE (f + 1) * p \in Nat
  OBVIOUS
<1>3. ASSUME NEW f \in Nat, NEW p \in Nat PROVE (f + 1 + 1) * p = (f + 1) * p + p
  OBVIOUS
<1> QED
  BY <1>1, <1>2, <1>3 DEF Slack

(* Between runs the schedule is never further away than the slack of the    *)
(* failures so far; a run starts on time and ends well only if the price it *)
(* leaves behind is not stale.                                              *)
OutageInv ==
  /\ lastUpdate <= time
  /\ pc = "idle" => /\ time <= nextRun
                    /\ nextRun <= lastUpdate + MaxAge + Slack(failures)
  /\ pc # "idle" => /\ nextRun = time + Period
                    /\ time <= lastUpdate + MaxAge + Slack(failures)
  /\ pc = "decide" /\ ~seenStale => time <= lastUpdate + MaxAge
  /\ pc = "wait" /\ pending = <<>> /\ receiptOk => lastUpdate = time

LEMMA OutageTypes ==
  ASSUME PriceTypeOK
  PROVE  /\ {time, lastUpdate, nextRun, failures, MaxAge, Period} \subseteq Nat
         /\ Slack(failures) \in Nat
         /\ Slack(failures + 1) = Slack(failures) + Period
         /\ Slack(0) = Period
<1>1. {time, lastUpdate, nextRun, failures, MaxAge, Period} \subseteq Nat
  BY UpdaterAssumption, OracleAssumption DEF PriceTypeOK, OracleTypeOK
<1> QED
  BY <1>1, SlackGrows

LEMMA OutageInit == PriceInit => OutageInv
<1> SUFFICES ASSUME PriceInit PROVE OutageInv
  OBVIOUS
<1>1. /\ time = 0 /\ lastUpdate = 0 /\ nextRun = Period /\ failures = 0
      /\ pc = "idle"
  BY DEF PriceInit, OracleInit
<1> QED
  BY <1>1, SlackGrows, OracleAssumption DEF OutageInv

(* A run that ends with an error costs one period. *)
LEMMA FailureOutage ==
  ASSUME PriceTypeOK, OutageInv, pc # "idle", Ends(failures + 1),
         UNCHANGED <<time, lastUpdate, nextRun>>
  PROVE  OutageInv'
BY OutageTypes DEF OutageInv, Ends

(* A run that ends well leaves a price that is not stale. *)
LEMMA SuccessOutage ==
  ASSUME PriceTypeOK, OutageInv, pc # "idle", Ends(0), time <= lastUpdate + MaxAge,
         UNCHANGED <<time, lastUpdate, nextRun>>
  PROVE  OutageInv'
BY OutageTypes DEF OutageInv, Ends

LEMMA RunOutage ==
  ASSUME PriceTypeOK, OutageInv,
         \/ StartRun \/ FetchOndo \/ ReadPrice \/ ReadStale
         \/ SkipUpdate \/ SendUpdate \/ Confirmed \/ RunFails
  PROVE  OutageInv'
<1> USE OutageTypes DEF worldVars, oracleVars, txVars, bookVars
<1>1. CASE StartRun
  <2>1. /\ nextRun' = nextRun + Period /\ time = nextRun
        /\ UNCHANGED <<time, lastUpdate>>
        /\ time <= lastUpdate + MaxAge + Slack(failures)
    BY <1>1 DEF StartRun, OutageInv
  <2>2. CASE pc' = "ondo" /\ failures' = failures
    BY <2>1, <2>2 DEF OutageInv
  <2>3. CASE pc' = "idle" /\ failures' = failures + 1
    BY <2>1, <2>3 DEF OutageInv
  <2> QED
    BY <1>1, <2>2, <2>3 DEF StartRun, Ends
<1>2. CASE FetchOndo
  <2>1. pc = "ondo" /\ UNCHANGED <<time, lastUpdate, nextRun>>
    BY <1>2 DEF FetchOndo
  <2>2. CASE pc' = "price" /\ failures' = failures
    BY <2>1, <2>2 DEF OutageInv
  <2>3. CASE Ends(failures + 1)
    BY <2>1, <2>3, FailureOutage
  <2> QED
    BY <1>2, <2>2, <2>3 DEF FetchOndo
<1>3. CASE ReadPrice
  BY <1>3 DEF ReadPrice, OutageInv
<1>4. CASE ReadStale
  <2>1. ~seenStale' => ~IsStale
    BY <1>4, Zenon DEF ReadStale
  <2>2. ~IsStale => time <= lastUpdate + MaxAge
    BY DEF IsStale
  <2> QED
    BY <1>4, <2>1, <2>2 DEF ReadStale, OutageInv
<1>5. CASE SkipUpdate
  <2>1. time <= lastUpdate + MaxAge
    BY <1>5 DEF SkipUpdate, UpdateNeeded, OutageInv
  <2> QED
    BY <1>5, <2>1, SuccessOutage DEF SkipUpdate
<1>6. CASE SendUpdate
  <2>1. pending' # <<>>
    BY <1>6 DEF SendUpdate, PriceTypeOK
  <2> QED
    BY <1>6, <2>1 DEF SendUpdate, OutageInv
<1>7. CASE Confirmed
  <2>1. pc = "wait" /\ UNCHANGED <<time, lastUpdate, nextRun>>
    BY <1>7 DEF Confirmed
  <2>2. CASE receiptOk
    <3>1. time <= lastUpdate + MaxAge
      BY <1>7, <2>2 DEF Confirmed, OutageInv
    <3> QED
      BY <1>7, <2>1, <2>2, <3>1, SuccessOutage DEF Confirmed
  <2>3. CASE ~receiptOk
    BY <1>7, <2>1, <2>3, FailureOutage DEF Confirmed
  <2> QED
    BY <2>2, <2>3
<1>8. CASE RunFails
  BY <1>8, FailureOutage DEF RunFails
<1> QED
  BY <1>1, <1>2, <1>3, <1>4, <1>5, <1>6, <1>7, <1>8

LEMMA OutageStep ==
  PriceTypeOK /\ OutageInv /\ [PriceNext]_priceVars => OutageInv'
<1> SUFFICES ASSUME PriceTypeOK, OutageInv, [PriceNext]_priceVars PROVE OutageInv'
  OBVIOUS
<1> USE OutageTypes DEF oracleVars, runVars, txVars, bookVars
<1>1. ASSUME NEW p \in OndoPrices, OndoMoves(p) PROVE OutageInv'
  BY <1>1 DEF OndoMoves, OutageInv
<1>2. ASSUME NEW a \in OracleAdmins, HandOver(a) PROVE OutageInv'
  BY <1>2 DEF HandOver, SetOracleAdmin, OutageInv
<1>3. CASE TimePasses
  BY <1>3 DEF TimePasses, OutageInv
<1>4. CASE MineUpdate
  <2>1. UNCHANGED <<time, pc, seenStale, nextRun, failures>>
    BY <1>4 DEF MineUpdate, UpdatePrice
  <2>2. \/ lastUpdate' = time
        \/ UNCHANGED lastUpdate /\ ~receiptOk'
    BY <1>4 DEF MineUpdate, UpdatePrice
  <2> QED
    BY <2>1, <2>2 DEF OutageInv
<1>5. CASE UNCHANGED priceVars
  BY <1>5 DEF priceVars, worldVars, OutageInv
<1>6. ASSUME NEW p \in NAVPrices, UpdateByHand(p) PROVE OutageInv'
  <2>1. UNCHANGED <<time, pc, seenStale, nextRun, failures>> /\ lastUpdate' = time
    BY <1>6 DEF UpdateByHand, UpdatePrice
  <2> QED
    BY <2>1 DEF OutageInv
<1> QED
  BY <1>1, <1>2, <1>3, <1>4, <1>5, <1>6, RunOutage DEF PriceNext

(* The market lacks a price for at most one period per failed run and one   *)
(* for a price that was skipped, for every maximal age and schedule.        *)
THEOREM OutagesAreBounded == PriceSpec => []BoundedOutage
<1>1. PriceTypeOK /\ OutageInv => BoundedOutage
  <2> SUFFICES ASSUME PriceTypeOK, OutageInv
               PROVE  time <= lastUpdate + MaxAge + Slack(failures)
    BY DEF BoundedOutage, Slack
  <2> QED
    BY OutageTypes DEF OutageInv
<1> QED
  BY <1>1, OutageInit, OutageStep, PriceTypeCorrect, PTL DEF PriceSpec

=============================================================================
