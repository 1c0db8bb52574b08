----------------------------- MODULE PriceUpdater -----------------------------
(***************************************************************************)
(* The cron job that copies Ondo's price to the NAVOracle                  *)
(* (relayer/pkg/priceupdater, cmd/price-updater), with Ethereum between.   *)
(*                                                                         *)
(* A run reads both oracles call by call, decides, and sends a transaction *)
(* that it waits for until its two minutes are over; the transaction may   *)
(* be mined later all the same.  A unit of time is longer than a run, so   *)
(* time does not pass during one.  Dry runs, which never send, are left    *)
(* out.                                                                    *)
(***************************************************************************)
EXTENDS NAVOracle, Sequences

CONSTANTS
  OndoPrices,  \* answers of Ondo's oracle, the absurd ones included
  MinPrice,    \* the range GetPrice() accepts
  MaxPrice,
  Scale,       \* the factor from Ondo's format to the market's
  Signer,      \* the account of the updater's key
  Period,      \* the interval of the cron schedule
  MaxDelay     \* how long a sent transaction may stay unmined

ASSUME UpdaterAssumption ==
  /\ OndoPrices \subseteq Nat
  /\ {MinPrice, Scale, Period} \subseteq Nat \ {0}
  /\ {MaxPrice, MaxDelay} \subseteq Nat
  /\ \A p \in OndoPrices \cap (MinPrice..MaxPrice) : p * Scale \in NAVPrices

VARIABLES
  ondo,      \* Ondo's current price
  pc,        \* where the run is
  quote,     \* the price fetched from Ondo, in the market's format
  quoteTime, \* history: and when
  seenPrice, \* NAVOracleState.CurrentPrice
  seenStale, \* NAVOracleState.IsStale
  pending,   \* transactions sent and not mined, in nonce order
  receiptOk, \* the status of the last transaction mined
  nextRun,   \* when the schedule starts the next run
  failures,  \* consecutive runs that ended with an error
  quotedAt   \* history: when the current price was Ondo's or given by hand

runVars == <<pc, quote, quoteTime, seenPrice, seenStale>>
worldVars == <<oracleVars, time, ondo>>
txVars == <<pending, receiptOk>>
bookVars == <<nextRun, failures, quotedAt>>
priceVars == <<worldVars, runVars, txVars, bookVars>>

Updates == [price: NAVPrices, quotedAt: 0..MaxTime, sentAt: 0..MaxTime]

PriceTypeOK ==
  /\ OracleTypeOK
  /\ ondo \in OndoPrices
  /\ pc \in {"idle", "ondo", "price", "stale", "decide", "wait"}
  /\ quote \in NAVPrices
  /\ quoteTime \in 0..MaxTime
  /\ seenPrice \in NAVPrices
  /\ seenStale \in BOOLEAN
  /\ pending \in Seq(Updates)
  /\ receiptOk \in BOOLEAN
  /\ nextRun \in Nat
  /\ failures \in Nat
  /\ quotedAt \in 0..MaxTime

PriceInit ==
  /\ OracleInit
  /\ ondo \in OndoPrices
  /\ pc = "idle"
  /\ quote = currentPrice
  /\ quoteTime = 0
  /\ seenPrice = currentPrice
  /\ seenStale = FALSE
  /\ pending = <<>>
  /\ receiptOk = FALSE
  /\ nextRun = Period
  /\ failures = 0
  /\ quotedAt = 0

-----------------------------------------------------------------------------
(* Outside the updater.                                                    *)

OndoMoves(p) ==
  /\ ondo' = p
  /\ UNCHANGED <<oracleVars, time, runVars, txVars, bookVars>>

HandOver(a) ==
  /\ SetOracleAdmin(oracleAdmin, a)
  /\ UNCHANGED <<ondo, runVars, txVars, bookVars>>

(* An administrator calls updatePrice() without the updater.  The signer's  *)
(* account can do so as well; its nonces put this after what is pending.    *)
UpdateByHand(p) ==
  /\ oracleAdmin = Signer => pending = <<>>
  /\ UpdatePrice(oracleAdmin, p)
  /\ quotedAt' = time
  /\ UNCHANGED <<ondo, runVars, txVars, nextRun, failures>>

(* The schedule is kept and transactions are mined within MaxDelay. *)
TimePasses ==
  /\ time < MaxTime
  /\ pc = "idle"
  /\ time < nextRun
  /\ \A k \in DOMAIN pending : time < pending[k].sentAt + MaxDelay
  /\ time' = time + 1
  /\ UNCHANGED <<oracleVars, ondo, runVars, txVars, bookVars>>

(* It takes effect, or it reverts because the signer is no longer admin. *)
MineUpdate ==
  /\ pending # <<>>
  /\ pending' = Tail(pending)
  /\ \/ /\ UpdatePrice(Signer, Head(pending).price)
        /\ quotedAt' = Head(pending).quotedAt
        /\ receiptOk' = TRUE
     \/ /\ oracleAdmin # Signer
        /\ receiptOk' = FALSE
        /\ UNCHANGED <<oracleVars, time, quotedAt>>
  /\ UNCHANGED <<ondo, runVars, nextRun, failures>>

-----------------------------------------------------------------------------
(* A run.                                                                  *)

Ends(count) == pc' = "idle" /\ failures' = count

(* The process starts: CheckHealth() wants the signer to be the admin. *)
StartRun ==
  /\ pc = "idle"
  /\ time >= nextRun
  /\ nextRun' = nextRun + Period
  /\ IF oracleAdmin = Signer
     THEN pc' = "ondo" /\ UNCHANGED failures
     ELSE Ends(failures + 1)
  /\ UNCHANGED <<worldVars, quote, quoteTime, seenPrice, seenStale, txVars, quotedAt>>

(* Mutants: no range check; an absurd answer is replaced by the last quote. *)
FetchUnchecked ==
  /\ pc = "ondo"
  /\ pc' = "price"
  /\ quote' = ondo * Scale
  /\ quoteTime' = time
  /\ UNCHANGED <<worldVars, seenPrice, seenStale, txVars, bookVars>>

FetchOrReuse ==
  /\ pc = "ondo"
  /\ pc' = "price"
  /\ IF ondo \in MinPrice..MaxPrice
     THEN quote' = ondo * Scale /\ quoteTime' = time
     ELSE UNCHANGED <<quote, quoteTime>>
  /\ UNCHANGED <<worldVars, seenPrice, seenStale, txVars, bookVars>>

(* GetPrice() and ConvertToMorphoFormat(). *)
FetchOndo ==
  /\ pc = "ondo"
  /\ IF ondo \in MinPrice..MaxPrice
     THEN pc' = "price" /\ quote' = ondo * Scale /\ quoteTime' = time /\ UNCHANGED failures
     ELSE Ends(failures + 1) /\ UNCHANGED <<quote, quoteTime>>
  /\ UNCHANGED <<worldVars, seenPrice, seenStale, txVars, nextRun, quotedAt>>

(* GetState() makes one call per field; lastUpdate is not used. *)
ReadPrice ==
  /\ pc = "price"
  /\ seenPrice' = currentPrice
  /\ pc' = "stale"
  /\ UNCHANGED <<worldVars, quote, quoteTime, seenStale, txVars, bookVars>>

ReadStale ==
  /\ pc = "stale"
  /\ seenStale' = IsStale
  /\ pc' = "decide"
  /\ UNCHANGED <<worldVars, quote, quoteTime, seenPrice, txVars, bookVars>>

(* A mutant: an unchanged price is never sent again. *)
UpdateIfChanged == seenPrice # quote

UpdateNeeded == seenPrice # quote \/ seenStale

SkipUpdate ==
  /\ pc = "decide"
  /\ ~UpdateNeeded
  /\ oracleAdmin = Signer
  /\ Ends(0)
  /\ UNCHANGED <<worldVars, quote, quoteTime, seenPrice, seenStale, txVars, nextRun, quotedAt>>

(* EstimateGas() passes only for the admin. *)
SendUpdate ==
  /\ pc = "decide"
  /\ UpdateNeeded
  /\ oracleAdmin = Signer
  /\ pending' = Append(pending, [price |-> quote, quotedAt |-> quoteTime, sentAt |-> time])
  /\ pc' = "wait"
  /\ UNCHANGED <<worldVars, quote, quoteTime, seenPrice, seenStale, receiptOk, bookVars>>

(* WaitMined() returns the receipt; nonces make the run's transaction the   *)
(* last to be mined.                                                        *)
Confirmed ==
  /\ pc = "wait"
  /\ pending = <<>>
  /\ IF receiptOk THEN Ends(0) ELSE Ends(failures + 1)
  /\ UNCHANGED <<worldVars, quote, quoteTime, seenPrice, seenStale, txVars, nextRun, quotedAt>>

(* An RPC error, the admin check or the two minutes end the run. *)
RunFails ==
  /\ pc # "idle"
  /\ Ends(failures + 1)
  /\ UNCHANGED <<worldVars, quote, quoteTime, seenPrice, seenStale, txVars, nextRun, quotedAt>>

PriceNext ==
  \/ \E p \in OndoPrices : OndoMoves(p)
  \/ \E a \in OracleAdmins : HandOver(a)
  \/ \E p \in NAVPrices : UpdateByHand(p)
  \/ TimePasses
  \/ MineUpdate
  \/ StartRun
  \/ FetchOndo
  \/ ReadPrice
  \/ ReadStale
  \/ SkipUpdate
  \/ SendUpdate
  \/ Confirmed
  \/ RunFails

PriceSpec == PriceInit /\ [][PriceNext]_priceVars

-----------------------------------------------------------------------------
(* A price the market can use was Ondo's, or given by hand, at most MaxAge  *)
(* and the delay of one transaction ago: a transaction mined after its run  *)
(* gave up does not pass an older price off as a fresh one for longer.      *)
UsableIsRecent == ~IsStale => time <= quotedAt + MaxAge + MaxDelay

(* The market is without a price for no longer than it takes the schedule   *)
(* to come round once more per failed run: skipping unchanged prices costs  *)
(* at most one period.                                                      *)
BoundedOutage == time <= lastUpdate + MaxAge + (failures + 1) * Period

=============================================================================
