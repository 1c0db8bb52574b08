----------------------------- MODULE RelayerProofs -----------------------------
(***************************************************************************)
(* The relayer's safety for any number of blocks, locks and starts, every  *)
(* combination of faults and every configured start block.                 *)
(***************************************************************************)
EXTENDS Relayer, SequenceTheorems, TLAPS

-----------------------------------------------------------------------------
(* The inductive invariant.                                                *)

(* Events come in the order of their blocks. *)
InOrder ==
  /\ \A i, j \in Issued : i <= j => lockBlock[i] <= lockBlock[j]
  /\ \A i \in Issued : lockBlock[i] <= head

(* The main goroutine handles events of the range it scans, in their order. *)
ScanPlaced ==
  /\ scanning => mode \in {"backfill", "catchup", "polling"} /\ upTo <= head
  /\ ~scanning => job["main"] = 0 /\ todo = {}
  /\ job["main"] # 0 => \A j \in todo : job["main"] < j

(* A lock is marked only after Ethereum's node accepted its transaction.    *)
MarkedWasSent ==
  \A w \in Workers : job[w] # 0 /\ step[w] = "mark" => job[w] \in HandedOver

(* Where a scan that is going to move the cursor begins. *)
ScanFrom == IF mode = "backfill" THEN store.cursor + 1 ELSE fromBlock

(* Its range is handed over up to what is left to do.                       *)
ScanCovers ==
  scanning /\ mode \in {"backfill", "polling"} =>
    /\ ScanFrom <= upTo
    /\ mode = "backfill" => store.cursor > 0
    /\ LogsIn(ScanFrom, upTo) \subseteq HandedOver \cup todo \cup {job["main"]}
    /\ todo \cup ({job["main"]} \ {0}) \subseteq LogsIn(ScanFrom, upTo)

(* The cursors and the polling are not ahead of the chain, unless polling   *)
(* still waits for a configured start.                                      *)
BehindHead ==
  /\ store.cursor <= head /\ disk.cursor <= head
  /\ mode = "polling" /\ store.cursor > 0 => fromBlock <= head + 1 \/ fromBlock = origin

(* Polling goes on where everything before is handed over. *)
PollingCovers ==
  mode = "polling" /\ store.cursor > 0 =>
    LogsIn(origin, fromBlock - 1) \subseteq HandedOver

(* The first scanned block stays where it is while any cursor says that     *)
(* there is one: with a configured start it is that block, without one a    *)
(* cursor that left 0 never returns to it before the store is lost.         *)
OriginStays ==
  /\ StartBlock > 0 =>
       /\ store.cursor > 0 \/ disk.cursor > 0 => origin = StartBlock
       /\ mode = "polling" => fromBlock >= StartBlock
       /\ mode = "polling" /\ store.cursor = 0 => fromBlock = StartBlock
  /\ StartBlock = 0 =>
       /\ mode # "off" /\ store.cursor = 0 => disk.cursor = 0
       /\ mode = "polling" /\ store.cursor > 0 => fromBlock > store.cursor

(* What the catch-up took on is in somebody's hand, as is what the          *)
(* subscription delivered since.                                            *)
GapClosed ==
  (mode = "subscribed" \/ (mode = "catchup" /\ scanning)) /\ live /\ gapStart > 0 =>
    LogsIn(gapStart, head) \subseteq HandedOver \cup InHand \cup ignored

RelayerInv ==
  /\ RelayerTypeOK
  /\ InOrder
  /\ ScanPlaced
  /\ MarkedWasSent
  /\ DuplicatesHandedOver
  /\ BehindHead
  /\ ScanCovers
  /\ PollingCovers
  /\ OriginStays
  /\ CursorCovers
  /\ GapClosed

-----------------------------------------------------------------------------
(* Types.                                                                  *)

LEMMA RelayerInitType == RelayerInit => RelayerTypeOK
<1> SUFFICES ASSUME RelayerInit PROVE RelayerTypeOK
  OBVIOUS
<1>1. /\ lockBlock \in Seq(1..MaxBlock) /\ queue \in Seq(Issued) /\ Issued = {}
  BY DEF RelayerInit, Issued
<1>2. {0, starts, head, gapStart, upTo} \subseteq {0} /\ 0 \in 0..MaxBlock /\ 0 \in 0..MaxStarts
  BY RelayerAssumption DEF RelayerInit
<1>3. Fresh \in Stores
  BY <1>2 DEF Fresh, Stores
<1> QED
  BY <1>1, <1>2, <1>3 DEF RelayerInit, RelayerTypeOK, Locks

(* The parts of the type, for the actions that touch only one of them. *)
MantleType ==
  /\ head \in 0..MaxBlock
  /\ lockBlock \in Seq(1..MaxBlock)
  /\ Issued \subseteq Locks
EthereumType == {sent, mempool, minted, expired} \subseteq SUBSET Issued
LoopType ==
  /\ mode \in {"off", "starting", "backfill", "subscribing", "catchup",
               "subscribed", "draining", "polling"}
  /\ after \in {"starting", "polling"}
  /\ gapStart \in 0..MaxBlock
  /\ fromBlock \in Nat
ScanType == scanning \in BOOLEAN /\ upTo \in 0..MaxBlock /\ todo \subseteq Issued
SubType == live \in BOOLEAN /\ queue \in Seq(Issued)
WorkType ==
  /\ job \in [Workers -> Issued \cup {0}]
  /\ step \in [Workers -> {"send", "mark"}]
StoreType == store \in Stores /\ disk \in Stores
HistoryType == starts \in 0..MaxStarts /\ origin \in Nat /\ ignored \subseteq Issued
DedupType == processed \subseteq Issued

LEMMA TypeParts ==
  RelayerTypeOK <=> /\ MantleType /\ EthereumType /\ LoopType /\ ScanType /\ SubType
                    /\ WorkType /\ StoreType /\ HistoryType /\ DedupType
BY DEF RelayerTypeOK, MantleType, EthereumType, LoopType, ScanType, SubType, WorkType,
       StoreType, HistoryType, DedupType

LEMMA TypePartsPrime ==
  RelayerTypeOK' <=> /\ MantleType' /\ EthereumType' /\ LoopType' /\ ScanType' /\ SubType'
                     /\ WorkType' /\ StoreType' /\ HistoryType' /\ DedupType'
BY DEF RelayerTypeOK, MantleType, EthereumType, LoopType, ScanType, SubType, WorkType,
       StoreType, HistoryType, DedupType

LEMMA IssuedIsRange ==
  ASSUME RelayerTypeOK
  PROVE  /\ Issued = 1..Len(lockBlock) /\ Len(lockBlock) \in Nat
         /\ \A i \in Issued : lockBlock[i] \in 1..MaxBlock /\ i # 0 /\ i \in Nat
<1>1. lockBlock \in Seq(1..MaxBlock)
  BY DEF RelayerTypeOK
<1>2. Issued = 1..Len(lockBlock) /\ Len(lockBlock) \in Nat
  BY <1>1 DEF Issued
<1>3. ASSUME NEW i \in Issued
      PROVE  lockBlock[i] \in 1..MaxBlock /\ i # 0 /\ i \in Nat
  BY <1>1, <1>2, ElementOfSeq, RelayerAssumption
<1> QED
  BY <1>2, <1>3

(* More events, the old ones unchanged and before the new ones. *)
LEMMA MineBlockEffect ==
  ASSUME RelayerTypeOK, NEW n \in 0..2, MineBlock(n)
  PROVE  /\ lockBlock' \in Seq(1..MaxBlock)
         /\ Len(lockBlock') = Len(lockBlock) + n
         /\ Issued \subseteq Issued' /\ Issued' = 1..(Len(lockBlock) + n)
         /\ \A i \in Issued : lockBlock'[i] = lockBlock[i]
         /\ \A i \in Issued' \ Issued : lockBlock'[i] = head + 1 /\ i > Len(lockBlock)
<1> DEFINE blocks == [k \in 1..n |-> head + 1]
<1>1. head + 1 \in 1..MaxBlock /\ lockBlock' = lockBlock \o blocks
  BY RelayerAssumption DEF MineBlock, RelayerTypeOK
<1>2. blocks \in Seq(1..MaxBlock) /\ Len(blocks) = n /\ \A k \in 1..n : blocks[k] = head + 1
  BY <1>1
<1> HIDE DEF blocks
<1>3. lockBlock \in Seq(1..MaxBlock) /\ Len(lockBlock) \in Nat /\ Issued = 1..Len(lockBlock)
  BY IssuedIsRange DEF RelayerTypeOK
<1>4. /\ lockBlock' \in Seq(1..MaxBlock) /\ Len(lockBlock') = Len(lockBlock) + n
      /\ \A i \in 1..(Len(lockBlock) + n) :
            lockBlock'[i] = IF i <= Len(lockBlock) THEN lockBlock[i]
                            ELSE blocks[i - Len(lockBlock)]
  BY <1>1, <1>2, <1>3, ConcatProperties
<1>5. Issued' = 1..(Len(lockBlock) + n)
  BY <1>4 DEF Issued
<1> QED
  BY <1>2, <1>3, <1>4, <1>5

LEMMA MineBlockType ==
  ASSUME RelayerTypeOK, NEW n \in 0..2, MineBlock(n)
  PROVE  RelayerTypeOK'
<1>1. MantleType'
  <2>1. Issued' \subseteq Locks
    <3>1. Len(lockBlock) + n <= MaxLocks /\ Len(lockBlock) \in Nat /\ MaxLocks \in Nat
      BY IssuedIsRange, RelayerAssumption DEF MineBlock
    <3> QED
      BY <3>1, MineBlockEffect DEF Locks
  <2> QED
    BY <2>1, MineBlockEffect, RelayerAssumption DEF MantleType, MineBlock, RelayerTypeOK
<1>2. Issued \subseteq Issued'
  BY MineBlockEffect
<1>3. SubType'
  <2> DEFINE new == [k \in 1..n |-> Len(lockBlock) + k]
  <2>1. queue \in Seq(Issued')
    BY <1>2 DEF RelayerTypeOK
  <2>2. new \in Seq(Issued')
    BY MineBlockEffect, IssuedIsRange
  <2> HIDE DEF new
  <2>3. queue \o new \in Seq(Issued')
    BY <2>1, <2>2, ConcatProperties
  <2>4. queue' \in {queue, queue \o new} /\ live' = live
    BY DEF MineBlock, new
  <2> QED
    BY <2>1, <2>3, <2>4 DEF SubType, RelayerTypeOK
<1>4. UNCHANGED <<ethereumVars, scanVars, loopVars, workVars, processed, storeVars, historyVars>>
  BY DEF MineBlock
<1>5. EthereumType' /\ ScanType' /\ LoopType' /\ WorkType' /\ StoreType' /\ HistoryType' /\ DedupType'
  BY <1>2, <1>4 DEF RelayerTypeOK, EthereumType, ScanType, LoopType, WorkType, StoreType,
     HistoryType, DedupType, ethereumVars, scanVars, loopVars, workVars, storeVars, historyVars
<1> QED
  BY <1>1, <1>3, <1>5, TypePartsPrime

(* A part of which an action leaves the variables alone keeps its type. *)
LEMMA PartsStay ==
  ASSUME RelayerTypeOK, UNCHANGED mantleVars
  PROVE  /\ Issued' = Issued /\ MantleType'
         /\ UNCHANGED ethereumVars => EthereumType'
         /\ UNCHANGED loopVars => LoopType'
         /\ UNCHANGED scanVars => ScanType'
         /\ UNCHANGED subVars => SubType'
         /\ UNCHANGED workVars => WorkType'
         /\ UNCHANGED storeVars => StoreType'
         /\ UNCHANGED historyVars => HistoryType'
         /\ UNCHANGED processed => DedupType'
<1>1. Issued' = Issued
  BY DEF mantleVars, Issued
<1>2. /\ MantleType /\ EthereumType /\ LoopType /\ ScanType /\ SubType
      /\ WorkType /\ StoreType /\ HistoryType /\ DedupType
  BY TypeParts
<1>3. MantleType'
  BY <1>1, <1>2 DEF MantleType, mantleVars
<1>4. UNCHANGED ethereumVars => EthereumType'
  BY <1>1, <1>2 DEF EthereumType, ethereumVars
<1>5. UNCHANGED loopVars => LoopType'
  BY <1>2 DEF LoopType, loopVars
<1>6. UNCHANGED scanVars => ScanType'
  BY <1>1, <1>2 DEF ScanType, scanVars
<1>7. UNCHANGED subVars => SubType'
  BY <1>1, <1>2 DEF SubType, subVars
<1>8. UNCHANGED workVars => WorkType'
  BY <1>1, <1>2 DEF WorkType, workVars
<1>9. UNCHANGED storeVars => StoreType'
  BY <1>2 DEF StoreType, storeVars
<1>10. UNCHANGED historyVars => HistoryType'
  BY <1>1, <1>2 DEF HistoryType, historyVars
<1>11. UNCHANGED processed => DedupType'
  BY <1>1, <1>2 DEF DedupType
<1> QED
  BY <1>1, <1>3, <1>4, <1>5, <1>6, <1>7, <1>8, <1>9, <1>10, <1>11

LEMMA Bounds == /\ MaxBlock \in Nat /\ MaxLocks \in Nat /\ MaxStarts \in Nat
                /\ StartBlock \in Nat /\ 0 \in 0..MaxBlock
BY RelayerAssumption

LEMMA LogsAreIssued == \A a, b : LogsIn(a, b) \subseteq Issued
BY DEF LogsIn

LEMMA PollType ==
  ASSUME RelayerTypeOK, NEW cursor \in Int, cursor >= -1, Poll(cursor)
  PROVE  LoopType'
<1>1. InitialFromBlock(cursor) \subseteq Nat
  BY Bounds DEF InitialFromBlock, RelayerTypeOK
<1> QED
  BY <1>1 DEF Poll, LoopType, RelayerTypeOK

LEMMA GoToType ==
  ASSUME RelayerTypeOK, NEW m, GoTo(m),
         m \in {"starting", "backfill", "subscribing", "catchup", "subscribed"}
  PROVE  LoopType'
BY DEF GoTo, LoopType, RelayerTypeOK

LEMMA SetLastType ==
  ASSUME RelayerTypeOK, NEW block \in 0..MaxBlock, NEW from \in Nat,
         SetLastProcessedBlock(block, from)
  PROVE  StoreType' /\ origin' \in Nat
<1>1. [store EXCEPT !.cursor = block] \in Stores
  BY DEF RelayerTypeOK, Stores
<1> QED
  BY <1>1 DEF SetLastProcessedBlock, Save, StoreType, RelayerTypeOK

LEMMA ChainsType == RelayerTypeOK /\ Chains => RelayerTypeOK'
<1> SUFFICES ASSUME RelayerTypeOK, Chains PROVE RelayerTypeOK'
  OBVIOUS
<1>1. CASE \E n \in 0..2 : MineBlock(n)
  BY <1>1, MineBlockType
<1>2. CASE (\E i \in mempool : MineMint(i) \/ DropTransaction(i)) \/ (\E i \in Issued : Expire(i))
  <2>1. UNCHANGED <<mantleVars, scanVars, loopVars, subVars, workVars, processed,
                    storeVars, historyVars>>
    BY <1>2 DEF MineMint, DropTransaction, Expire
  <2>2. EthereumType'
    <3>1. Issued' = Issued
      BY <2>1, PartsStay
    <3> QED
      BY <1>2, <3>1 DEF MineMint, DropTransaction, Expire, RelayerTypeOK, EthereumType
  <2> QED
    BY <2>1, <2>2, PartsStay, TypePartsPrime
<1> QED
  BY <1>1, <1>2 DEF Chains

(* What the file holds was handed over, and so was issued. *)
LEMMA StartType == RelayerTypeOK /\ DuplicatesHandedOver /\ Start => RelayerTypeOK'
<1> SUFFICES ASSUME RelayerTypeOK, DuplicatesHandedOver, Start PROVE RelayerTypeOK'
  OBVIOUS
<1>1. Fresh \in Stores
  BY Bounds DEF Fresh, Stores
<1>2. disk' \in Stores /\ store' \in Stores
  BY <1>1 DEF Start, RelayerTypeOK
<1>3. MantleType' /\ Issued' = Issued /\ EthereumType' /\ ScanType' /\ SubType' /\ WorkType'
  BY PartsStay DEF Start
<1>4. StoreType'
  BY <1>2 DEF StoreType
<1>5. LoopType'
  BY DEF Start, LoopType, RelayerTypeOK
<1>6. HistoryType'
  BY <1>3, Bounds DEF Start, HistoryType, RelayerTypeOK
<1>7. DedupType'
  <2>1. store'.locks \subseteq Issued
    <3>1. disk.locks \subseteq Issued /\ Fresh.locks \subseteq Issued
      BY DEF DuplicatesHandedOver, HandedOver, RelayerTypeOK, Fresh
    <3> QED
      BY <3>1 DEF Start
  <2> QED
    BY <1>3, <2>1 DEF Start, DedupType
<1> QED
  BY <1>3, <1>4, <1>5, <1>6, <1>7, TypePartsPrime
LEMMA StopType == RelayerTypeOK /\ Stop => RelayerTypeOK'
<1> SUFFICES ASSUME RelayerTypeOK, Stop PROVE RelayerTypeOK'
  OBVIOUS
<1>1. MantleType' /\ Issued' = Issued /\ EthereumType' /\ HistoryType'
  BY PartsStay DEF Stop
<1>2. LoopType' /\ ScanType'
  BY Bounds DEF Stop, LoopType, ScanType
<1>3. SubType' /\ WorkType' /\ DedupType'
  <2>1. <<>> \in Seq(Issued')
    OBVIOUS
  <2>2. SubType' /\ DedupType'
    BY <2>1 DEF Stop, SubType, DedupType
  <2>3. WorkType'
    BY DEF Stop, WorkType
  <2> QED
    BY <2>2, <2>3
<1>4. StoreType'
  <2>1. Fresh \in Stores
    BY Bounds DEF Fresh, Stores
  <2> QED
    BY <2>1 DEF Stop, StoreType, RelayerTypeOK
<1> QED
  BY <1>1, <1>2, <1>3, <1>4, TypePartsPrime

LEMMA ScanRangeType ==
  ASSUME RelayerTypeOK, UNCHANGED mantleVars,
         NEW from, NEW to \in 0..MaxBlock, Scan(from, to)
  PROVE  ScanType'
BY PartsStay, LogsAreIssued DEF Scan, ScanType

LEMMA UnsubscribeType ==
  ASSUME RelayerTypeOK, UNCHANGED mantleVars,
         NEW next \in {"starting", "polling"}, Unsubscribe(next)
  PROVE  LoopType' /\ SubType'
BY PartsStay DEF Unsubscribe, LoopType, SubType, RelayerTypeOK

LEMMA MainLoopType == RelayerTypeOK /\ MainLoop => RelayerTypeOK'
<1> SUFFICES ASSUME RelayerTypeOK, MainLoop PROVE RelayerTypeOK'
  OBVIOUS
<1>1. /\ UNCHANGED <<mantleVars, ethereumVars, workVars, processed, starts, ignored>>
      /\ UNCHANGED historyVars \/ ScanDone
      /\ UNCHANGED storeVars \/ ScanDone
  BY DEF MainLoop, TakeSnapshot, Backfill, Subscribe, CatchUp, SubscriptionError, Drained,
         PollQuery, ScanDone, historyVars
<1>2. Issued' = Issued /\ MantleType' /\ EthereumType' /\ WorkType' /\ DedupType'
  BY <1>1, PartsStay
<1>3. store.cursor \in 0..MaxBlock /\ head \in 0..MaxBlock /\ upTo \in 0..MaxBlock
  BY DEF RelayerTypeOK, Stores
<1>4. LoopType' /\ ScanType' /\ SubType'
  <2> USE <1>1, <1>3, PartsStay, Bounds
  <2>1. CASE TakeSnapshot
    BY <2>1 DEF TakeSnapshot, LoopType, RelayerTypeOK
  <2>2. CASE Backfill
    <3>1. UNCHANGED subVars
      BY <2>2 DEF Backfill
    <3>2. LoopType'
      BY <2>2, GoToType, PollType DEF Backfill
    <3>3. ScanType'
      <4>1. head - 1 \in 0..MaxBlock \/ NothingToBackfill
        BY DEF NothingToBackfill
      <4> QED
        BY <2>2, <4>1, ScanRangeType DEF Backfill
    <3> QED
      BY <3>1, <3>2, <3>3
  <2>3. CASE Subscribe
    <3>1. UNCHANGED scanVars
      BY <2>3 DEF Subscribe
    <3>2. LoopType'
      BY <2>3, GoToType, PollType DEF Subscribe
    <3>3. SubType'
      BY <2>3 DEF Subscribe, SubType, RelayerTypeOK
    <3> QED
      BY <3>1, <3>2, <3>3
  <2>4. CASE CatchUp
    <3>1. CASE GoTo("subscribed") /\ UNCHANGED <<scanVars, subVars>>
      BY <3>1, GoToType
    <3>2. CASE Scan(gapStart, head) /\ UNCHANGED <<loopVars, subVars>>
      BY <3>2, ScanRangeType
    <3>3. CASE Unsubscribe("polling") /\ UNCHANGED scanVars
      BY <3>3, UnsubscribeType
    <3> QED
      BY <2>4, <3>1, <3>2, <3>3 DEF CatchUp
  <2>5. CASE SubscriptionError
    BY <2>5, UnsubscribeType DEF SubscriptionError
  <2>6. CASE Drained
    BY <2>6, PollType, GoToType DEF Drained
  <2>7. CASE PollQuery
    BY <2>7, ScanRangeType DEF PollQuery
  <2>8. CASE ScanDone
    <3>1. ScanType' /\ SubType'
      BY <2>8 DEF ScanDone, ScanType, RelayerTypeOK
    <3>2. LoopType'
      BY <2>8, GoToType DEF ScanDone, LoopType, RelayerTypeOK
    <3> QED
      BY <3>1, <3>2
  <2> QED
    BY <2>1, <2>2, <2>3, <2>4, <2>5, <2>6, <2>7, <2>8 DEF MainLoop
<1>5. StoreType' /\ HistoryType'
  <2>1. CASE ~ScanDone
    BY <1>1, <2>1, PartsStay
  <2>2. CASE ScanDone
    <3>1. StoreType' /\ origin' \in Nat
      <4>1. ASSUME SetLastProcessedBlock(upTo, store.cursor + 1)
            PROVE  StoreType' /\ origin' \in Nat
        BY <1>3, <4>1, SetLastType
      <4>2. ASSUME SetLastProcessedBlock(upTo, fromBlock)
            PROVE  StoreType' /\ origin' \in Nat
        BY <1>3, <4>2, SetLastType DEF RelayerTypeOK
      <4>3. ASSUME UNCHANGED <<storeVars, origin>>
            PROVE  StoreType' /\ origin' \in Nat
        BY <1>1, <4>3, PartsStay DEF RelayerTypeOK
      <4> QED
        BY <2>2, <4>1, <4>2, <4>3 DEF ScanDone
    <3> QED
      BY <1>1, <1>2, <3>1 DEF HistoryType, RelayerTypeOK
  <2> QED
    BY <2>1, <2>2
<1> QED
  BY <1>2, <1>4, <1>5, TypePartsPrime
(* Taking an event leaves the rest of the range and of the channel.         *)
LEMMA TakeEffect ==
  ASSUME RelayerTypeOK, UNCHANGED mantleVars, NEW w \in Workers, NEW i, Take(w, i)
  PROVE  /\ ScanType' /\ SubType' /\ i \in Issued
         /\ w = "main" => /\ scanning /\ IsFirst(i, todo) /\ todo' = todo \ {i}
                          /\ UNCHANGED <<scanning, upTo, subVars>>
         /\ w = "consumer" =>
              /\ UNCHANGED <<scanVars, live>>
              /\ \A k \in DOMAIN queue :
                   queue[k] = i \/ \E m \in DOMAIN queue' : queue'[m] = queue[k]
<1>1. CASE w = "main"
  BY <1>1, PartsStay DEF Take, ScanType, IsFirst, RelayerTypeOK
<1>2. CASE w = "consumer"
  <2>1. queue \in Seq(Issued) /\ queue # <<>> /\ i = Head(queue) /\ queue' = Tail(queue)
    BY <1>2 DEF Take, RelayerTypeOK
  <2>2. i \in Issued /\ i = queue[1] /\ queue' \in Seq(Issued)
    BY <2>1
  <2>3. ASSUME NEW k \in DOMAIN queue, k # 1
        PROVE  k - 1 \in DOMAIN queue' /\ queue'[k - 1] = queue[k]
    BY <2>1, <2>3
  <2>4. UNCHANGED <<scanVars, live>>
    BY <1>2 DEF Take
  <2>5. ScanType' /\ SubType'
    BY <2>2, <2>4, PartsStay DEF SubType, RelayerTypeOK
  <2> QED
    BY <1>2, <2>2, <2>3, <2>4, <2>5
<1> QED
  BY <1>1, <1>2 DEF Workers

LEMMA EventType ==
  ASSUME RelayerTypeOK, NEW w \in Workers, NEW i, SkipEvent(w, i) \/ AcceptEvent(w, i)
  PROVE  RelayerTypeOK'
<1>1. /\ UNCHANGED <<mantleVars, ethereumVars, loopVars, storeVars, historyVars>>
      /\ Take(w, i)
  BY DEF SkipEvent, AcceptEvent
<1>2. Issued' = Issued /\ MantleType' /\ EthereumType' /\ LoopType' /\ StoreType' /\ HistoryType'
  BY <1>1, PartsStay
<1>3. ScanType' /\ SubType' /\ i \in Issued
  BY <1>1, TakeEffect
<1>4. WorkType' /\ DedupType'
  <2>1. CASE SkipEvent(w, i)
    BY <1>1, <1>2, <1>3, <2>1, PartsStay DEF SkipEvent, DedupType, RelayerTypeOK
  <2>2. CASE AcceptEvent(w, i)
    BY <1>1, <1>2, <1>3, <2>2, PartsStay DEF AcceptEvent, WorkType, RelayerTypeOK
  <2> QED
    BY <2>1, <2>2
<1> QED
  BY <1>2, <1>3, <1>4, TypePartsPrime

LEMMA SubmitType ==
  ASSUME RelayerTypeOK, NEW w \in Workers, Submit(w) \/ SubmitAnswerLost(w)
  PROVE  RelayerTypeOK'
<1>1. /\ UNCHANGED <<mantleVars, scanVars, loopVars, subVars, processed, storeVars, historyVars>>
      /\ UNCHANGED <<minted, expired, job>>
      /\ SubmitTransaction(job[w]) /\ job[w] # 0
  BY DEF Submit, SubmitAnswerLost, workVars
<1>2. /\ Issued' = Issued /\ MantleType' /\ ScanType' /\ LoopType' /\ SubType' /\ StoreType'
      /\ HistoryType' /\ DedupType'
  BY <1>1, PartsStay
<1>3. EthereumType'
  <2>1. job[w] \in Issued
    BY <1>1 DEF RelayerTypeOK
  <2> QED
    BY <1>1, <1>2, <2>1 DEF SubmitTransaction, EthereumType, RelayerTypeOK
<1>4. WorkType'
  BY <1>1, <1>2 DEF Submit, SubmitAnswerLost, WorkType, RelayerTypeOK, workVars
<1> QED
  BY <1>2, <1>3, <1>4, TypePartsPrime

LEMMA MarkType ==
  ASSUME RelayerTypeOK, NEW w \in Workers, Mark(w)
  PROVE  RelayerTypeOK'
<1>1. UNCHANGED <<mantleVars, ethereumVars, scanVars, loopVars, subVars, step, historyVars>>
  BY DEF Mark
<1>2. /\ Issued' = Issued /\ MantleType' /\ EthereumType' /\ ScanType' /\ LoopType'
      /\ SubType' /\ HistoryType'
  BY <1>1, PartsStay
<1>3. job[w] \in Issued /\ job[w] \in Locks
  BY DEF Mark, RelayerTypeOK
<1>4. WorkType'
  BY <1>1, <1>2 DEF Mark, WorkType, RelayerTypeOK
<1>5. DedupType'
  BY <1>2, <1>3 DEF Mark, MarkProcessed, DedupType, RelayerTypeOK
<1>6. StoreType'
  <2>1. [store EXCEPT !.locks = @ \cup {job[w]}] \in Stores
    BY <1>3 DEF RelayerTypeOK, Stores
  <2> QED
    BY <2>1 DEF Mark, MarkProcessed, Save, StoreType, RelayerTypeOK
<1> QED
  BY <1>2, <1>4, <1>5, <1>6, TypePartsPrime

(* The block of a lock that fails, and the one before it, are block numbers. *)
LEMMA FailedBlock ==
  ASSUME RelayerTypeOK, NEW i \in Issued
  PROVE  /\ CursorBefore(i) \in 0..MaxBlock /\ RetryFrom(i) \in 1..MaxBlock
         /\ CursorBefore(i) = lockBlock[i] - 1 /\ RetryFrom(i) = lockBlock[i]
<1>1. lockBlock[i] \in 1..MaxBlock
  BY IssuedIsRange
<1> QED
  BY <1>1, Bounds DEF CursorBefore, RetryFrom

LEMMA SubmitFailsType ==
  ASSUME RelayerTypeOK, NEW w \in Workers, SubmitFails(w)
  PROVE  RelayerTypeOK'
<1>1. /\ UNCHANGED <<mantleVars, ethereumVars, step, processed, starts>>
      /\ job' = [job EXCEPT ![w] = 0] /\ job[w] \in Issued
  BY DEF SubmitFails, RelayerTypeOK
<1>2. Issued' = Issued /\ MantleType' /\ EthereumType' /\ DedupType'
  BY <1>1, PartsStay
<1>3. WorkType'
  BY <1>1, <1>2 DEF WorkType, RelayerTypeOK
<1>4. ScanType'
  BY <1>1, PartsStay DEF SubmitFails, ScanType, RelayerTypeOK
<1>5. LoopType' /\ SubType' /\ StoreType' /\ origin' \in Nat
  <2> USE <1>1, PartsStay, FailedBlock
  <2>1. CASE /\ SetLastProcessedBlock(CursorBefore(job[w]), store.cursor + 1)
             /\ Poll(CursorBefore(job[w])) /\ UNCHANGED subVars
    <3>1. store.cursor + 1 \in Nat
      BY Bounds DEF RelayerTypeOK, Stores
    <3>2. StoreType' /\ origin' \in Nat
      BY <2>1, <3>1, SetLastType
    <3>3. LoopType'
      BY <2>1, PollType, Bounds
    <3> QED
      BY <2>1, <3>2, <3>3
  <2>2. CASE /\ SetLastProcessedBlock(CursorBefore(job[w]), fromBlock)
             /\ fromBlock' = RetryFrom(job[w])
             /\ UNCHANGED <<mode, after, gapStart, subVars>>
    <3>1. StoreType' /\ origin' \in Nat
      BY <2>2, SetLastType DEF RelayerTypeOK
    <3>2. LoopType'
      BY <2>2, Bounds DEF LoopType, RelayerTypeOK
    <3> QED
      BY <2>2, <3>1, <3>2
  <2>3. CASE Unsubscribe("polling") /\ UNCHANGED <<storeVars, origin>>
    BY <2>3, UnsubscribeType DEF RelayerTypeOK
  <2>4. CASE UNCHANGED <<storeVars, origin, loopVars, subVars>>
    BY <2>4 DEF RelayerTypeOK
  <2> QED
    BY <2>1, <2>2, <2>3, <2>4 DEF SubmitFails
<1>6. HistoryType'
  BY <1>1, <1>2, <1>5 DEF SubmitFails, HistoryType, RelayerTypeOK
<1> QED
  BY <1>2, <1>3, <1>4, <1>5, <1>6, TypePartsPrime

LEMMA RelayerNextType ==
  RelayerTypeOK /\ DuplicatesHandedOver /\ [RelayerNext]_relayerVars => RelayerTypeOK'
<1> SUFFICES ASSUME RelayerTypeOK, DuplicatesHandedOver, [RelayerNext]_relayerVars
             PROVE  RelayerTypeOK'
  OBVIOUS
<1>1. CASE \E w \in Workers : HandleEvent(w)
  BY <1>1, EventType, SubmitType, SubmitFailsType, MarkType DEF HandleEvent
<1>2. CASE UNCHANGED relayerVars
  BY <1>2, PartsStay, TypePartsPrime DEF relayerVars
<1> QED
  BY <1>1, <1>2, ChainsType, StartType, StopType, MainLoopType DEF RelayerNext
-----------------------------------------------------------------------------
(* What was handed over and what was issued stays so, and the parts about   *)
(* the events and the deduplication.                                        *)

LEMMA OnlyBlocksAddEvents ==
  ASSUME [RelayerNext]_relayerVars
  PROVE  (\E n \in 0..2 : MineBlock(n)) \/ UNCHANGED mantleVars
<1>1. CASE MainLoop
  BY <1>1 DEF MainLoop, TakeSnapshot, Backfill, Subscribe, CatchUp, SubscriptionError,
         Drained, PollQuery, ScanDone
<1>2. CASE \E w \in Workers : HandleEvent(w)
  BY <1>2 DEF HandleEvent, SkipEvent, AcceptEvent, Submit, SubmitAnswerLost, SubmitFails, Mark
<1>3. CASE Chains \/ Start \/ Stop \/ UNCHANGED relayerVars
  BY <1>3 DEF Chains, MineMint, DropTransaction, Expire, Start, Stop, relayerVars
<1> QED
  BY <1>1, <1>2, <1>3 DEF RelayerNext

LEMMA EventsGrow ==
  ASSUME RelayerTypeOK, [RelayerNext]_relayerVars
  PROVE  /\ Issued \subseteq Issued' /\ head <= head' /\ head' \in Nat
         /\ Issued' \subseteq Nat
         /\ \A i \in Issued : lockBlock'[i] = lockBlock[i]
         /\ \A i \in Issued' \ Issued :
              lockBlock'[i] = head + 1 /\ head' = head + 1 /\ \A j \in Issued : j < i
<1>1. CASE UNCHANGED mantleVars
  <2>1. Issued' = Issued /\ lockBlock' = lockBlock /\ head' = head
    BY <1>1 DEF mantleVars, Issued
  <2> QED
    BY <2>1, IssuedIsRange, Bounds DEF RelayerTypeOK
<1>2. ASSUME NEW n \in 0..2, MineBlock(n)
      PROVE  /\ Issued \subseteq Issued' /\ head <= head' /\ head' \in Nat
             /\ Issued' \subseteq Nat
             /\ \A i \in Issued : lockBlock'[i] = lockBlock[i]
             /\ \A i \in Issued' \ Issued :
                  lockBlock'[i] = head + 1 /\ head' = head + 1 /\ \A j \in Issued : j < i
  <2>1. head' = head + 1 /\ head \in Nat
    BY <1>2, Bounds DEF MineBlock, RelayerTypeOK
  <2>2. Issued = 1..Len(lockBlock) /\ Len(lockBlock) \in Nat
    BY IssuedIsRange
  <2>3. /\ Issued \subseteq Issued' /\ Issued' = 1..(Len(lockBlock) + n)
        /\ \A i \in Issued : lockBlock'[i] = lockBlock[i]
        /\ \A i \in Issued' \ Issued : lockBlock'[i] = head + 1 /\ i > Len(lockBlock)
    BY <1>2, MineBlockEffect
  <2> QED
    BY <2>1, <2>2, <2>3
<1> QED
  BY <1>1, <1>2, OnlyBlocksAddEvents

LEMMA HandedOverStays ==
  ASSUME [RelayerNext]_relayerVars PROVE HandedOver \subseteq HandedOver'
<1>1. sent \subseteq sent' /\ minted \subseteq minted'
  <2>1. CASE MainLoop
    BY <2>1 DEF MainLoop, TakeSnapshot, Backfill, Subscribe, CatchUp, SubscriptionError,
           Drained, PollQuery, ScanDone, ethereumVars
  <2>2. CASE \E w \in Workers : HandleEvent(w)
    BY <2>2 DEF HandleEvent, SkipEvent, AcceptEvent, Submit, SubmitAnswerLost,
           SubmitTransaction, SubmitFails, Mark, ethereumVars
  <2>3. CASE Chains \/ Start \/ Stop \/ UNCHANGED relayerVars
    BY <2>3 DEF Chains, MineBlock, MineMint, DropTransaction, Expire, Start, Stop,
           relayerVars, ethereumVars
  <2> QED
    BY <2>1, <2>2, <2>3 DEF RelayerNext
<1> QED
  BY <1>1 DEF HandedOver

LEMMA InOrderNext ==
  ASSUME RelayerTypeOK, InOrder, [RelayerNext]_relayerVars PROVE InOrder'
<1>1. \A i \in Issued : lockBlock[i] \in Nat /\ i \in Nat
  BY IssuedIsRange, Bounds
<1>2. head \in Nat /\ head' \in Nat
  BY Bounds, EventsGrow DEF RelayerTypeOK
<1>3. \A i \in Issued' : i \in Issued \/ (i \in Issued' \ Issued)
  OBVIOUS
<1>4. \A i \in Issued' : lockBlock'[i] <= head'
  BY <1>1, <1>2, <1>3, EventsGrow DEF InOrder
<1>5. ASSUME NEW i \in Issued', NEW j \in Issued', i <= j
      PROVE  lockBlock'[i] <= lockBlock'[j]
  <2>1. i \in Nat /\ j \in Nat
    BY EventsGrow
  <2> QED
    BY <1>1, <1>2, <1>3, <1>5, <2>1, EventsGrow DEF InOrder
<1> QED
  BY <1>4, <1>5 DEF InOrder

(* Only a submission makes a lock one to be marked. *)
LEMMA MarkedWasSentNext ==
  ASSUME RelayerTypeOK, MarkedWasSent, [RelayerNext]_relayerVars PROVE MarkedWasSent'
<1>1. HandedOver \subseteq HandedOver'
  BY HandedOverStays
<1>2. CASE UNCHANGED workVars
  BY <1>1, <1>2 DEF MarkedWasSent, workVars
<1>3. CASE Stop
  BY <1>3 DEF MarkedWasSent, Stop
<1>4. ASSUME NEW w \in Workers, NEW i, AcceptEvent(w, i)
      PROVE  MarkedWasSent'
  BY <1>1, <1>4 DEF AcceptEvent, MarkedWasSent, RelayerTypeOK
<1>5. ASSUME NEW w \in Workers, Submit(w)
      PROVE  MarkedWasSent'
  <2>1. job' = job /\ job[w] \in HandedOver' /\ step' = [step EXCEPT ![w] = "mark"]
    BY <1>5 DEF Submit, SubmitTransaction, HandedOver
  <2> QED
    BY <1>1, <2>1 DEF MarkedWasSent, RelayerTypeOK
<1>6. ASSUME NEW w \in Workers, SubmitFails(w) \/ Mark(w)
      PROVE  MarkedWasSent'
  <2>1. job' = [job EXCEPT ![w] = 0] /\ step' = step
    BY <1>6 DEF SubmitFails, Mark
  <2> QED
    BY <1>1, <2>1 DEF MarkedWasSent, RelayerTypeOK
<1>7. UNCHANGED workVars \/ Stop \/ \E w \in Workers :
        Submit(w) \/ SubmitFails(w) \/ Mark(w) \/ \E i \in Issued : AcceptEvent(w, i)
  <2>1. CASE MainLoop
    BY <2>1 DEF MainLoop, TakeSnapshot, Backfill, Subscribe, CatchUp, SubscriptionError,
           Drained, PollQuery, ScanDone
  <2>2. CASE \E w \in Workers : HandleEvent(w)
    BY <2>2 DEF HandleEvent, SkipEvent, SubmitAnswerLost
  <2>3. CASE Chains \/ Start \/ Stop \/ UNCHANGED relayerVars
    BY <2>3 DEF Chains, MineBlock, MineMint, DropTransaction, Expire, Start, relayerVars
  <2> QED
    BY <2>1, <2>2, <2>3 DEF RelayerNext
<1> QED
  BY <1>2, <1>3, <1>4, <1>5, <1>6, <1>7

(* Skipped locks are duplicates or minted, marked ones were sent, and the   *)
(* file only holds what memory held.                                        *)
LEMMA DuplicatesNext ==
  ASSUME RelayerTypeOK, MarkedWasSent, DuplicatesHandedOver, [RelayerNext]_relayerVars
  PROVE  DuplicatesHandedOver'
<1>1. HandedOver \subseteq HandedOver'
  BY HandedOverStays
<1>2. SUFFICES processed' \cup store'.locks \cup disk'.locks \subseteq HandedOver
  BY <1>1 DEF DuplicatesHandedOver
<1> USE DEF DuplicatesHandedOver
<1>3. CASE Chains \/ UNCHANGED relayerVars
  BY <1>3 DEF Chains, MineBlock, MineMint, DropTransaction, Expire, relayerVars, storeVars
<1>4. CASE Start \/ Stop
  BY <1>4 DEF Start, Stop, Fresh
<1>5. CASE MainLoop
  <2>1. ASSUME NEW b, NEW from, SetLastProcessedBlock(b, from)
        PROVE  store'.locks = store.locks /\ disk'.locks \subseteq disk.locks \cup store.locks
    BY <2>1 DEF SetLastProcessedBlock, Save, RelayerTypeOK, Stores
  <2> QED
    BY <1>5, <2>1 DEF MainLoop, TakeSnapshot, Backfill, Subscribe, CatchUp,
           SubscriptionError, Drained, PollQuery, ScanDone, storeVars
<1>6. CASE \E w \in Workers : HandleEvent(w)
  <2> SUFFICES ASSUME NEW w \in Workers, HandleEvent(w)
               PROVE  processed' \cup store'.locks \cup disk'.locks \subseteq HandedOver
    BY <1>6
  <2>1. CASE \E i \in Issued : SkipEvent(w, i)
    BY <2>1 DEF SkipEvent, IsDuplicate, HandedOver, storeVars
  <2>2. CASE (\E i \in Issued : AcceptEvent(w, i)) \/ Submit(w) \/ SubmitAnswerLost(w)
    BY <2>2 DEF AcceptEvent, Submit, SubmitAnswerLost, storeVars
  <2>3. CASE SubmitFails(w)
    <3>1. ASSUME NEW b, NEW from, SetLastProcessedBlock(b, from)
          PROVE  store'.locks = store.locks /\ disk'.locks \subseteq disk.locks \cup store.locks
      BY <3>1 DEF SetLastProcessedBlock, Save, RelayerTypeOK, Stores
    <3> QED
      BY <2>3, <3>1 DEF SubmitFails, storeVars
  <2>4. CASE Mark(w)
    <3>1. job[w] \in HandedOver
      BY <2>4 DEF Mark, MarkedWasSent
    <3>2. /\ processed' = processed \cup {job[w]}
          /\ store'.locks = store.locks \cup {job[w]}
          /\ disk' = disk \/ disk' = store'
      BY <2>4 DEF Mark, MarkProcessed, Save, RelayerTypeOK, Stores
    <3> QED
      BY <3>1, <3>2
  <2> QED
    BY <2>1, <2>2, <2>3, <2>4 DEF HandleEvent
<1> QED
  BY <1>3, <1>4, <1>5, <1>6 DEF RelayerNext
-----------------------------------------------------------------------------
(* Where a scan is.                                                        *)

LEMMA ScanPlacedNext ==
  ASSUME RelayerTypeOK, ScanPlaced, [RelayerNext]_relayerVars PROVE ScanPlaced'
<1> USE Bounds
<1>1. head <= head' /\ head \in Nat /\ upTo \in Nat
  BY EventsGrow DEF RelayerTypeOK
<1>2. CASE UNCHANGED <<scanVars, workVars, mode>>
  BY <1>1, <1>2, OnlyBlocksAddEvents
     DEF ScanPlaced, scanVars, workVars, MineBlock, mantleVars, RelayerTypeOK
<1>3. CASE Start \/ Stop
  BY <1>3 DEF Start, Stop, ScanPlaced, scanVars, workVars, Workers
<1>4. CASE MainLoop
  <2>1. UNCHANGED <<mantleVars, workVars>>
    BY <1>4 DEF MainLoop, TakeSnapshot, Backfill, Subscribe, CatchUp, SubscriptionError,
           Drained, PollQuery, ScanDone
  <2>2. CASE UNCHANGED scanVars /\ ~scanning
    BY <1>4, <2>1, <2>2 DEF ScanPlaced, scanVars, workVars
  <2>3. ASSUME NEW from, NEW to, Scan(from, to), to <= head, ~scanning,
               mode' \in {"backfill", "catchup", "polling"}
        PROVE  ScanPlaced'
    BY <2>1, <2>3 DEF Scan, ScanPlaced, mantleVars, workVars
  <2>4. CASE ScanDone
    BY <2>1, <2>4 DEF ScanDone, ScanPlaced, workVars
  <2>5. CASE TakeSnapshot \/ Subscribe \/ SubscriptionError \/ Drained
    <3>1. UNCHANGED scanVars /\ ~scanning
      BY <2>5 DEF TakeSnapshot, Subscribe, SubscriptionError, Drained, ScanPlaced
    <3> QED
      BY <2>2, <3>1
  <2>6. CASE Backfill
    <3>1. ~scanning /\ mode = "backfill"
      BY <2>6 DEF Backfill
    <3>2. UNCHANGED scanVars \/ (Scan(store.cursor + 1, head - 1) /\ UNCHANGED loopVars)
      BY <2>6 DEF Backfill
    <3>3. head - 1 <= head
      BY <1>1
    <3> QED
      BY <2>2, <2>3, <3>1, <3>2, <3>3 DEF loopVars
  <2>7. CASE CatchUp
    <3>1. ~scanning /\ mode = "catchup" /\ head <= head
      BY <1>1, <2>7 DEF CatchUp
    <3>2. UNCHANGED scanVars \/ (Scan(gapStart, head) /\ UNCHANGED loopVars)
      BY <2>7 DEF CatchUp
    <3> QED
      BY <2>2, <2>3, <3>1, <3>2 DEF loopVars
  <2>8. CASE PollQuery
    <3>1. ~scanning /\ mode' = "polling" /\ head <= head
      BY <1>1, <2>8 DEF PollQuery, loopVars
    <3> QED
      BY <2>3, <2>8, <3>1 DEF PollQuery
  <2> QED
    BY <1>4, <2>4, <2>5, <2>6, <2>7, <2>8 DEF MainLoop
<1>5. ASSUME NEW w \in Workers, NEW i \in Issued, SkipEvent(w, i) \/ AcceptEvent(w, i)
      PROVE  ScanPlaced'
  <2>1. /\ UNCHANGED <<mantleVars, mode>> /\ Take(w, i)
        /\ job' \in {job, [job EXCEPT ![w] = i]} /\ job[w] = 0
    BY <1>5 DEF SkipEvent, AcceptEvent, loopVars, workVars
  <2>2. CASE w = "consumer"
    <3>1. UNCHANGED scanVars /\ job'["main"] = job["main"]
      BY <2>1, <2>2, TakeEffect DEF RelayerTypeOK, Workers
    <3> QED
      BY <2>1, <3>1 DEF ScanPlaced, scanVars, mantleVars
  <2>3. CASE w = "main"
    <3>1. /\ scanning /\ IsFirst(i, todo) /\ todo' = todo \ {i} /\ UNCHANGED <<scanning, upTo>>
      BY <2>1, <2>3, TakeEffect
    <3>2. job'["main"] \in {0, i}
      BY <2>1, <2>3 DEF RelayerTypeOK
    <3>3. \A j \in todo' : i < j
      <4>1. todo \subseteq Nat /\ i \in Nat
        BY IssuedIsRange DEF RelayerTypeOK
      <4> QED
        BY <3>1, <4>1 DEF IsFirst
    <3> QED
      BY <2>1, <3>1, <3>2, <3>3 DEF ScanPlaced, mantleVars
  <2> QED
    BY <2>2, <2>3 DEF Workers
<1>6. ASSUME NEW w \in Workers, SubmitFails(w)
      PROVE  ScanPlaced'
  <2>1. CASE w = "main"
    <3>1. job'["main"] = 0 /\ scanning' = FALSE /\ todo' = {}
      BY <1>6, <2>1 DEF SubmitFails, RelayerTypeOK
    <3> QED
      BY <3>1 DEF ScanPlaced
  <2>2. CASE w = "consumer"
    <3>1. UNCHANGED <<mantleVars, mode, scanVars>> /\ job'["main"] = job["main"]
      BY <1>6, <2>2 DEF SubmitFails, loopVars, RelayerTypeOK
    <3> QED
      BY <3>1 DEF ScanPlaced, mantleVars, scanVars
  <2> QED
    BY <2>1, <2>2 DEF Workers
<1>7. ASSUME NEW w \in Workers, Submit(w) \/ SubmitAnswerLost(w) \/ Mark(w)
      PROVE  ScanPlaced'
  <2>1. UNCHANGED <<mantleVars, mode, scanVars>>
    BY <1>7 DEF Submit, SubmitAnswerLost, Mark, loopVars
  <2>2. job'["main"] \in {job["main"], 0}
    BY <1>7 DEF Submit, SubmitAnswerLost, Mark, workVars, RelayerTypeOK, Workers
  <2> QED
    BY <2>1, <2>2 DEF ScanPlaced, mantleVars, scanVars
<1>8. CASE Chains \/ UNCHANGED relayerVars
  <2>1. UNCHANGED <<scanVars, workVars, mode>>
    BY <1>8 DEF Chains, MineBlock, MineMint, DropTransaction, Expire, relayerVars, loopVars
  <2> QED
    BY <1>2, <2>1
<1> QED
  BY <1>3, <1>4, <1>5, <1>6, <1>7, <1>8 DEF RelayerNext, HandleEvent
-----------------------------------------------------------------------------
(* The cursor.                                                             *)

CursorInv == BehindHead /\ ScanCovers /\ PollingCovers /\ OriginStays /\ CursorCovers

(* What the proofs about the cursor need of the rest of the invariant. *)
Basis == RelayerTypeOK /\ InOrder /\ ScanPlaced /\ MarkedWasSent /\ DuplicatesHandedOver

LEMMA CursorTypes ==
  ASSUME RelayerTypeOK
  PROVE  /\ store.cursor \in Nat /\ disk.cursor \in Nat /\ head \in Nat /\ upTo \in Nat
         /\ fromBlock \in Nat /\ origin \in Nat /\ StartBlock \in Nat /\ gapStart \in Nat
         /\ \A i \in Issued : lockBlock[i] \in Nat /\ lockBlock[i] >= 1 /\ i # 0 /\ i \in Nat
<1>1. MaxBlock \in Nat /\ StartBlock \in Nat
  BY Bounds
<1>2. store.cursor \in 0..MaxBlock /\ disk.cursor \in 0..MaxBlock
  BY DEF RelayerTypeOK, Stores
<1>3. \A i \in Issued : lockBlock[i] \in Nat /\ lockBlock[i] >= 1 /\ i # 0 /\ i \in Nat
  BY <1>1, IssuedIsRange
<1> QED
  BY <1>1, <1>2, <1>3 DEF RelayerTypeOK

(* No new event lies in a range that was scanned. *)
LEMMA HandedOverRange ==
  ASSUME RelayerTypeOK, [RelayerNext]_relayerVars, NEW a \in Nat, NEW b \in Int, b <= head
  PROVE  /\ LogsIn(a, b)' = LogsIn(a, b)
         /\ LogsIn(a, b) \subseteq HandedOver => LogsIn(a, b)' \subseteq HandedOver'
<1>1. LogsIn(a, b)' = LogsIn(a, b)
  BY EventsGrow, CursorTypes DEF LogsIn
<1> QED
  BY <1>1, HandedOverStays

(* Everything before a lock that fails is handed over. *)
LEMMA BeforeFailed ==
  ASSUME Basis, ScanCovers, scanning, mode \in {"backfill", "polling"}, job["main"] # 0
  PROVE  /\ job["main"] \in Issued
         /\ ScanFrom <= lockBlock[job["main"]] /\ lockBlock[job["main"]] <= upTo
         /\ LogsIn(ScanFrom, lockBlock[job["main"]] - 1) \subseteq HandedOver
<1> DEFINE i == job["main"]
<1>1. ScanFrom \in Nat /\ upTo \in Nat
  BY CursorTypes DEF Basis, ScanFrom
<1>2. i \in LogsIn(ScanFrom, upTo) /\ i \in Issued
  BY DEF ScanCovers, LogsIn
<1>3. lockBlock[i] \in ScanFrom..upTo
  BY <1>2 DEF LogsIn
<1>4. ASSUME NEW e \in LogsIn(ScanFrom, lockBlock[i] - 1), e \notin HandedOver
      PROVE  FALSE
  <2>1. e \in Issued /\ lockBlock[e] < lockBlock[i] /\ lockBlock[e] >= ScanFrom
    BY <1>1, <1>2, <1>4, CursorTypes DEF LogsIn, Basis
  <2>2. e \in LogsIn(ScanFrom, upTo)
    BY <1>1, <1>2, <1>3, <2>1, CursorTypes DEF LogsIn, Basis
  <2>3. e \in todo \/ e = i
    BY <1>4, <2>2 DEF ScanCovers
  <2>4. i <= e
    BY <1>2, <2>1, <2>3, CursorTypes DEF Basis, ScanPlaced
  <2>5. lockBlock[i] <= lockBlock[e]
    BY <1>2, <2>1, <2>4 DEF Basis, InOrder
  <2> QED
    BY <1>2, <2>1, <2>5, CursorTypes DEF Basis
<1> QED
  BY <1>1, <1>2, <1>3, <1>4

(* An action that moves no cursor, while the main goroutine gets on with    *)
(* its range or leaves it alone.                                            *)
LEMMA CursorInvStays ==
  ASSUME Basis, CursorInv, [RelayerNext]_relayerVars,
         UNCHANGED <<mode, fromBlock, origin, scanning, upTo>>,
         store'.cursor = store.cursor, disk'.cursor \in {disk.cursor, store.cursor},
         todo \cup {job["main"]} \subseteq todo' \cup {job'["main"]} \cup HandedOver' \cup {0},
         todo' \cup ({job'["main"]} \ {0}) \subseteq todo \cup ({job["main"]} \ {0})
  PROVE  CursorInv'
<1>1. HandedOver \subseteq HandedOver'
  BY HandedOverStays
<1>2. ScanFrom' = ScanFrom /\ ScanFrom \in Nat /\ upTo \in Nat
  BY CursorTypes DEF ScanFrom, Basis
<1>3. ScanCovers'
  <2> SUFFICES ASSUME scanning', mode' \in {"backfill", "polling"} PROVE ScanCovers'
    BY DEF ScanCovers
  <2>1. LogsIn(ScanFrom, upTo)' = LogsIn(ScanFrom, upTo)
    <3>1. ASSUME NEW a \in Nat, a = ScanFrom, NEW b \in Nat, b = upTo
          PROVE  LogsIn(ScanFrom, upTo)' = LogsIn(a, b)'
      BY <1>2, <3>1 DEF LogsIn
    <3>2. upTo <= head
      BY DEF Basis, ScanPlaced
    <3> QED
      BY <1>2, <3>1, <3>2, HandedOverRange DEF Basis
  <2>2. 0 \notin LogsIn(ScanFrom, upTo)
    BY CursorTypes DEF LogsIn, Basis
  <2> QED
    BY <1>1, <1>2, <2>1, <2>2 DEF CursorInv, ScanCovers
<1>4. OriginStays'
  BY DEF CursorInv, OriginStays
<1>5. BehindHead'
  BY EventsGrow, CursorTypes DEF CursorInv, BehindHead, Basis
<1>6. CursorCovers'
  <2>1. ASSUME NEW c \in {store.cursor, disk.cursor}
        PROVE  {e \in Issued' : lockBlock'[e] \in origin..c} \subseteq HandedOver'
    <3>1. c \in Nat /\ c <= head /\ origin \in Nat /\ LogsIn(origin, c) \subseteq HandedOver
      BY CursorTypes DEF CursorInv, BehindHead, CursorCovers, Basis
    <3> QED
      BY <3>1, HandedOverRange DEF Basis, LogsIn
  <2> QED
    BY <2>1 DEF CursorCovers, LogsIn
<1>7. PollingCovers'
  <2> SUFFICES ASSUME mode = "polling", store.cursor > 0
               PROVE  {e \in Issued' : lockBlock'[e] \in origin..(fromBlock - 1)} \subseteq HandedOver'
    BY DEF PollingCovers, LogsIn
  <2>1. fromBlock \in Nat /\ origin \in Nat /\ head \in Nat
    BY CursorTypes DEF Basis
  <2>2. CASE fromBlock <= head + 1
    <3>1. fromBlock - 1 \in Int /\ fromBlock - 1 <= head
      BY <2>1, <2>2
    <3>2. LogsIn(origin, fromBlock - 1) \subseteq HandedOver
      BY DEF CursorInv, PollingCovers
    <3> QED
      BY <2>1, <3>1, <3>2, HandedOverRange DEF Basis, LogsIn
  <2>3. CASE fromBlock = origin
    BY <2>1, <2>3
  <2> QED
    BY <2>2, <2>3 DEF CursorInv, BehindHead
<1> QED
  BY <1>3, <1>4, <1>5, <1>6, <1>7 DEF CursorInv

(* A step of the main goroutine that moves no cursor to a place where no    *)
(* scan moves it.                                                           *)
LEMMA CursorInvLeaves ==
  ASSUME Basis, CursorInv, [RelayerNext]_relayerVars, mode # "off", mode' # "polling",
         scanning' => mode' \notin {"backfill", "polling"},
         UNCHANGED <<mantleVars, storeVars, origin>>
  PROVE  CursorInv'
<1>1. HandedOver \subseteq HandedOver' /\ Issued' = Issued
  BY HandedOverStays DEF mantleVars, Issued
<1> QED
  BY <1>1 DEF CursorInv, BehindHead, ScanCovers, PollingCovers, OriginStays, CursorCovers,
     LogsIn, mantleVars, storeVars

(* Polling starts. *)
LEMMA PollCovers ==
  ASSUME NEW c \in Nat, Poll(c), store'.cursor = c, c <= head, StartBlock \in Nat,
         UNCHANGED mantleVars, head \in Nat, origin' \in Nat,
         c > 0 => LogsIn(origin, c)' \subseteq HandedOver',
         StartBlock > 0 /\ c > 0 => origin' = StartBlock,
         StartBlock = 0 => mode' # "off"
  PROVE  /\ PollingCovers'
         /\ c > 0 => fromBlock' <= head' + 1 \/ fromBlock' = origin'
         /\ StartBlock > 0 => /\ fromBlock' >= StartBlock
                              /\ c = 0 => fromBlock' = StartBlock
         /\ StartBlock = 0 /\ c > 0 => fromBlock' > c
<1>1. CASE StartBlock > 0
  <2>1. fromBlock' = StartBlock
    BY <1>1 DEF Poll, InitialFromBlock
  <2> QED
    BY <1>1, <2>1 DEF PollingCovers, LogsIn
<1>2. CASE StartBlock = 0 /\ c > 0
  <2>1. fromBlock' = c + 1 /\ head' = head
    BY <1>2 DEF Poll, InitialFromBlock, mantleVars
  <2>2. LogsIn(origin, fromBlock - 1)' = LogsIn(origin, c)'
    BY <2>1 DEF LogsIn
  <2> QED
    BY <1>2, <2>1, <2>2 DEF PollingCovers
<1>3. CASE c = 0 /\ StartBlock = 0
  BY <1>3 DEF PollingCovers
<1> QED
  BY <1>1, <1>2, <1>3
(* Polling starts where the cursor is. *)
LEMMA CursorInvPolls ==
  ASSUME Basis, CursorInv, [RelayerNext]_relayerVars, mode # "off", ~scanning',
         Poll(store.cursor), UNCHANGED <<mantleVars, storeVars, origin>>
  PROVE  CursorInv'
<1>1. /\ store.cursor \in Nat /\ store.cursor <= head /\ StartBlock \in Nat
      /\ head \in Nat /\ origin \in Nat /\ disk.cursor \in Nat
  BY CursorTypes DEF CursorInv, BehindHead, Basis
<1>2. HandedOver \subseteq HandedOver' /\ Issued' = Issued
  BY HandedOverStays DEF mantleVars, Issued
<1>3. CursorCovers' /\ ScanCovers'
  BY <1>2 DEF CursorInv, CursorCovers, ScanCovers, LogsIn, mantleVars, storeVars
<1>4. ASSUME NEW c \in Nat, c = store.cursor
      PROVE  LogsIn(origin, c)' \subseteq HandedOver'
  BY <1>2, <1>4 DEF CursorInv, CursorCovers, LogsIn, mantleVars, storeVars
<1>5. StartBlock > 0 /\ store.cursor > 0 => origin' = StartBlock
  BY DEF CursorInv, OriginStays
<1>6. mode' = "polling" /\ store' = store /\ disk' = disk /\ head' = head
  BY DEF Poll, storeVars, mantleVars
<1>7. /\ PollingCovers'
      /\ store.cursor > 0 => fromBlock' <= head' + 1 \/ fromBlock' = origin'
      /\ StartBlock > 0 => /\ fromBlock' >= StartBlock
                           /\ store.cursor = 0 => fromBlock' = StartBlock
      /\ StartBlock = 0 /\ store.cursor > 0 => fromBlock' > store.cursor
  BY <1>1, <1>4, <1>5, <1>6, PollCovers
<1>8. BehindHead' /\ OriginStays'
  BY <1>6, <1>7 DEF CursorInv, BehindHead, OriginStays
<1> QED
  BY <1>3, <1>7, <1>8 DEF CursorInv

(* The first place a scan is handed over to is where its range begins.      *)
LEMMA CursorInvScans ==
  ASSUME Basis, CursorInv, [RelayerNext]_relayerVars, ~scanning,
         NEW to \in Nat, Scan(ScanFrom, to), ScanFrom <= to,
         mode \in {"backfill", "polling"}, mode = "backfill" => store.cursor > 0,
         UNCHANGED <<mantleVars, loopVars, storeVars, workVars, origin>>
  PROVE  CursorInv'
<1>1. HandedOver \subseteq HandedOver' /\ Issued' = Issued
  BY HandedOverStays DEF mantleVars, Issued
<1>2. job["main"] = 0
  BY DEF Basis, ScanPlaced
<1>3. /\ ScanFrom' = ScanFrom /\ job' = job /\ mode' = mode /\ store' = store /\ upTo' = to
      /\ todo' = LogsIn(ScanFrom, to)
  BY DEF ScanFrom, Scan, loopVars, storeVars, workVars
<1>4. LogsIn(ScanFrom, upTo)' = LogsIn(ScanFrom, to)
  BY <1>1, <1>3 DEF LogsIn, mantleVars
<1>5. ScanCovers'
  BY <1>1, <1>2, <1>3, <1>4 DEF ScanCovers
<1>6. BehindHead' /\ PollingCovers' /\ OriginStays' /\ CursorCovers'
  BY <1>1 DEF CursorInv, BehindHead, PollingCovers, OriginStays, CursorCovers,
     LogsIn, mantleVars, storeVars, loopVars
<1> QED
  BY <1>5, <1>6 DEF CursorInv

(* The cursor moves to a block up to which everything is handed over.       *)
LEMMA CursorMoves ==
  ASSUME Basis, CursorInv, [RelayerNext]_relayerVars, UNCHANGED mantleVars,
         NEW block \in Nat, NEW from \in Nat, SetLastProcessedBlock(block, from),
         block <= head,
         LogsIn(IF store.cursor = 0 THEN from ELSE origin, block) \subseteq HandedOver,
         StartBlock > 0 /\ store.cursor = 0 => from = StartBlock,
         StartBlock = 0 => store.cursor <= block /\ mode # "off"
  PROVE  /\ CursorCovers' /\ store'.cursor = block
         /\ store'.cursor <= head' /\ disk'.cursor <= head'
         /\ LogsIn(origin, block)' \subseteq HandedOver'
         /\ StartBlock > 0 /\ (store'.cursor > 0 \/ disk'.cursor > 0) => origin' = StartBlock
         /\ StartBlock = 0 /\ store'.cursor = 0 => disk'.cursor = 0
<1>1. /\ store.cursor \in Nat /\ disk.cursor \in Nat /\ origin \in Nat /\ StartBlock \in Nat
      /\ store.cursor <= head /\ disk.cursor <= head /\ head \in Nat
      /\ \A i \in Issued : lockBlock[i] \in Nat /\ lockBlock[i] >= 1
  BY CursorTypes DEF Basis, CursorInv, BehindHead
<1>2. HandedOver \subseteq HandedOver' /\ Issued' = Issued /\ lockBlock' = lockBlock /\ head' = head
  BY HandedOverStays DEF mantleVars, Issued
<1>3. store'.cursor = block
  BY DEF SetLastProcessedBlock, Basis, RelayerTypeOK, Stores
<1>4. disk'.cursor \in {block, disk.cursor}
  BY <1>3 DEF SetLastProcessedBlock, Save
<1>5. origin' = IF store.cursor = 0 /\ block > 0 THEN from ELSE origin
  BY DEF SetLastProcessedBlock
<1>6. StartBlock > 0 /\ (store'.cursor > 0 \/ disk'.cursor > 0) => origin' = StartBlock
  BY <1>1, <1>3, <1>4, <1>5 DEF CursorInv, OriginStays
<1>7. StartBlock = 0 /\ store'.cursor = 0 => disk'.cursor = 0
  BY <1>1, <1>3, <1>4 DEF CursorInv, OriginStays
<1>8. LogsIn(origin, block)' \subseteq HandedOver'
  <2>1. CASE block = 0
    BY <1>1, <1>2, <2>1 DEF LogsIn
  <2>2. CASE block > 0
    BY <1>1, <1>2, <1>5, <2>2 DEF LogsIn
  <2> QED
    BY <2>1, <2>2
<1>9. {e \in Issued : lockBlock[e] \in origin'..disk.cursor} \subseteq HandedOver
  <2>1. CASE disk.cursor = 0
    <3>1. origin' \in Nat
      BY <1>1, <1>5
    <3> QED
      BY <1>1, <2>1, <3>1
  <2>2. CASE disk.cursor > 0
    <3>1. origin' = origin
      BY <1>1, <1>5, <2>2 DEF CursorInv, OriginStays
    <3> QED
      BY <3>1 DEF CursorInv, CursorCovers, LogsIn
  <2> QED
    BY <1>1, <2>1, <2>2
<1>10. CursorCovers'
  BY <1>2, <1>3, <1>4, <1>8, <1>9 DEF CursorCovers, LogsIn
<1>11. store'.cursor <= head' /\ disk'.cursor <= head'
  BY <1>1, <1>2, <1>3, <1>4
<1> QED
  BY <1>3, <1>6, <1>7, <1>8, <1>10, <1>11
LEMMA CursorInvScanDone ==
  ASSUME Basis, CursorInv, [RelayerNext]_relayerVars, ScanDone
  PROVE  CursorInv'
<1>1. /\ scanning /\ todo = {} /\ job["main"] = 0 /\ scanning' = FALSE
      /\ UNCHANGED mantleVars
  BY DEF ScanDone
<1>2. /\ upTo \in Nat /\ upTo <= head /\ fromBlock \in Nat /\ store.cursor \in Nat
      /\ origin \in Nat /\ StartBlock \in Nat /\ head \in Nat /\ disk.cursor \in Nat
      /\ \A i \in Issued : lockBlock[i] \in Nat /\ lockBlock[i] >= 1 /\ i # 0
  BY <1>1, CursorTypes DEF Basis, ScanPlaced
<1>3. HandedOver \subseteq HandedOver' /\ Issued' = Issued /\ head' = head
  BY <1>1, HandedOverStays DEF mantleVars, Issued
<1>4. ScanCovers'
  BY <1>1 DEF ScanCovers
<1>5. mode \in {"backfill", "polling"} =>
        LogsIn(ScanFrom, upTo) \subseteq HandedOver /\ ScanFrom <= upTo
  BY <1>1, <1>2 DEF CursorInv, ScanCovers, LogsIn
<1>6. CASE /\ mode = "backfill" /\ SetLastProcessedBlock(upTo, store.cursor + 1)
           /\ GoTo("subscribing")
  <2>1. store.cursor > 0 /\ store.cursor < upTo
    BY <1>1, <1>2, <1>5, <1>6 DEF CursorInv, ScanCovers, ScanFrom
  <2>2. LogsIn(origin, upTo) \subseteq HandedOver
    BY <1>2, <1>5, <1>6 DEF CursorInv, CursorCovers, LogsIn, ScanFrom
  <2>3. /\ CursorCovers'
        /\ store'.cursor <= head' /\ disk'.cursor <= head'
        /\ StartBlock > 0 /\ (store'.cursor > 0 \/ disk'.cursor > 0) => origin' = StartBlock
        /\ StartBlock = 0 /\ store'.cursor = 0 => disk'.cursor = 0
    <3>1. store.cursor + 1 \in Nat /\ store.cursor <= upTo /\ mode # "off"
      BY <1>2, <1>6, <2>1
    <3> QED
      BY <1>1, <1>2, <1>6, <2>1, <2>2, <3>1, CursorMoves
  <2>4. mode' = "subscribing"
    BY <1>6 DEF GoTo
  <2>5. BehindHead' /\ PollingCovers' /\ OriginStays'
    BY <2>3, <2>4 DEF BehindHead, PollingCovers, OriginStays
  <2> QED
    BY <1>4, <2>3, <2>5 DEF CursorInv
<1>7. CASE /\ mode = "polling" /\ SetLastProcessedBlock(upTo, fromBlock)
           /\ fromBlock' = upTo + 1 /\ UNCHANGED <<mode, after, gapStart>>
  <2>1. fromBlock <= upTo /\ LogsIn(fromBlock, upTo) \subseteq HandedOver
    BY <1>5, <1>7 DEF ScanFrom
  <2>2. LogsIn(IF store.cursor = 0 THEN fromBlock ELSE origin, upTo) \subseteq HandedOver
    BY <1>2, <1>7, <2>1 DEF CursorInv, PollingCovers, LogsIn
  <2>3. /\ StartBlock > 0 => fromBlock >= StartBlock
        /\ StartBlock > 0 /\ store.cursor = 0 => fromBlock = StartBlock
        /\ StartBlock = 0 => store.cursor <= upTo /\ mode # "off"
    BY <1>2, <1>7, <2>1 DEF CursorInv, OriginStays
  <2>4. /\ CursorCovers' /\ store'.cursor = upTo
        /\ store'.cursor <= head' /\ disk'.cursor <= head'
        /\ LogsIn(origin, upTo)' \subseteq HandedOver'
        /\ StartBlock > 0 /\ (store'.cursor > 0 \/ disk'.cursor > 0) => origin' = StartBlock
        /\ StartBlock = 0 /\ store'.cursor = 0 => disk'.cursor = 0
    <3>1. ASSUME NEW u \in Nat, u = upTo
          PROVE  /\ CursorCovers' /\ store'.cursor = u
                 /\ store'.cursor <= head' /\ disk'.cursor <= head'
                 /\ LogsIn(origin, u)' \subseteq HandedOver'
                 /\ StartBlock > 0 /\ (store'.cursor > 0 \/ disk'.cursor > 0) => origin' = StartBlock
                 /\ StartBlock = 0 /\ store'.cursor = 0 => disk'.cursor = 0
      BY <1>1, <1>2, <1>7, <2>2, <2>3, <3>1, CursorMoves
    <3>2. upTo' = upTo
      BY DEF ScanDone
    <3> QED
      BY <1>2, <3>1, <3>2 DEF LogsIn
  <2>5. PollingCovers'
    <3>1. fromBlock' - 1 = upTo /\ upTo' = upTo
      BY <1>2, <1>7 DEF ScanDone
    <3> QED
      BY <2>4, <3>1 DEF PollingCovers, LogsIn
  <2>6. BehindHead'
    BY <1>2, <1>3, <1>7, <2>4 DEF BehindHead
  <2>7. OriginStays'
    BY <1>2, <1>7, <2>1, <2>3, <2>4 DEF OriginStays
  <2> QED
    BY <1>4, <2>4, <2>5, <2>6, <2>7 DEF CursorInv
<1>8. CASE mode = "catchup" /\ GoTo("subscribed") /\ UNCHANGED <<storeVars, origin>>
  BY <1>1, <1>8, CursorInvLeaves DEF GoTo
<1> QED
  BY <1>6, <1>7, <1>8 DEF ScanDone

(* A failed lock: the cursor returns to the block before it. *)
LEMMA CursorInvFails ==
  ASSUME Basis, CursorInv, [RelayerNext]_relayerVars, SubmitFails("main")
  PROVE  CursorInv'
<1> DEFINE i == job["main"]
<1>1. i # 0 /\ scanning' = FALSE /\ UNCHANGED mantleVars /\ scanning
  BY DEF SubmitFails, Basis, ScanPlaced
<1>2. /\ upTo \in Nat /\ upTo <= head /\ fromBlock \in Nat /\ store.cursor \in Nat
      /\ origin \in Nat /\ StartBlock \in Nat /\ head \in Nat /\ disk.cursor \in Nat
      /\ \A e \in Issued : lockBlock[e] \in Nat /\ lockBlock[e] >= 1 /\ e # 0
  BY <1>1, CursorTypes DEF Basis, ScanPlaced
<1>3. HandedOver \subseteq HandedOver' /\ Issued' = Issued /\ head' = head
  BY <1>1, HandedOverStays DEF mantleVars, Issued
<1>4. ScanCovers'
  BY <1>1 DEF ScanCovers
<1>5. PICK b \in Nat : mode \in {"backfill", "polling"} =>
        /\ i \in Issued /\ b = lockBlock[i] - 1 /\ CursorBefore(i) = b /\ RetryFrom(i) = b + 1
        /\ ScanFrom <= b + 1 /\ b < upTo /\ LogsIn(ScanFrom, b) \subseteq HandedOver
  <2>1. CASE mode \in {"backfill", "polling"}
    <3>1. /\ i \in Issued /\ ScanFrom <= lockBlock[i] /\ lockBlock[i] <= upTo
          /\ LogsIn(ScanFrom, lockBlock[i] - 1) \subseteq HandedOver
      BY <1>1, <2>1, BeforeFailed DEF CursorInv
    <3>2. lockBlock[i] - 1 \in Nat /\ (lockBlock[i] - 1) + 1 = lockBlock[i] /\ lockBlock[i] - 1 < upTo
      BY <1>2, <3>1
    <3>3. CursorBefore(i) = lockBlock[i] - 1 /\ RetryFrom(i) = lockBlock[i]
      BY DEF CursorBefore, RetryFrom
    <3> HIDE DEF i
    <3> QED
      BY <3>1, <3>2, <3>3
  <2>2. CASE mode \notin {"backfill", "polling"}
    BY <2>2
  <2> QED
    BY <2>1, <2>2
<1> HIDE DEF i
<1>6. CASE /\ mode = "backfill" /\ SetLastProcessedBlock(b, store.cursor + 1) /\ Poll(b)
           /\ b = CursorBefore(i)
  <2>1. store.cursor > 0 /\ store.cursor <= b
    BY <1>1, <1>2, <1>5, <1>6 DEF CursorInv, ScanCovers, ScanFrom
  <2>2. LogsIn(origin, b) \subseteq HandedOver
    BY <1>2, <1>5, <1>6 DEF CursorInv, CursorCovers, LogsIn, ScanFrom
  <2>3. b <= head /\ store.cursor + 1 \in Nat /\ mode # "off"
    BY <1>2, <1>5, <1>6
  <2>4. /\ CursorCovers' /\ store'.cursor = b
        /\ store'.cursor <= head' /\ disk'.cursor <= head'
        /\ LogsIn(origin, b)' \subseteq HandedOver'
        /\ StartBlock > 0 /\ (store'.cursor > 0 \/ disk'.cursor > 0) => origin' = StartBlock
        /\ StartBlock = 0 /\ store'.cursor = 0 => disk'.cursor = 0
    BY <1>1, <1>2, <1>6, <2>1, <2>2, <2>3, CursorMoves
  <2>5. origin' \in Nat /\ mode' = "polling"
    BY <1>2, <1>6, <2>1 DEF SetLastProcessedBlock, Poll
  <2>6. /\ PollingCovers'
        /\ b > 0 => fromBlock' <= head' + 1 \/ fromBlock' = origin'
        /\ StartBlock > 0 => /\ fromBlock' >= StartBlock
                             /\ b = 0 => fromBlock' = StartBlock
        /\ StartBlock = 0 /\ b > 0 => fromBlock' > b
    BY <1>1, <1>2, <1>6, <2>3, <2>4, <2>5, PollCovers
  <2>7. BehindHead' /\ OriginStays'
    BY <2>4, <2>6 DEF BehindHead, OriginStays
  <2> QED
    BY <1>4, <2>4, <2>6, <2>7 DEF CursorInv
<1>7. CASE /\ mode = "polling" /\ SetLastProcessedBlock(b, fromBlock)
           /\ fromBlock' = b + 1 /\ UNCHANGED <<mode, after, gapStart>>
  <2>1. fromBlock <= b + 1 /\ LogsIn(fromBlock, b) \subseteq HandedOver /\ b <= head
    BY <1>2, <1>5, <1>7 DEF ScanFrom
  <2>2. LogsIn(IF store.cursor = 0 THEN fromBlock ELSE origin, b) \subseteq HandedOver
    BY <1>2, <1>7, <2>1 DEF CursorInv, PollingCovers, LogsIn
  <2>3. /\ StartBlock > 0 => fromBlock >= StartBlock
        /\ StartBlock > 0 /\ store.cursor = 0 => fromBlock = StartBlock
        /\ StartBlock = 0 => store.cursor <= b /\ mode # "off"
    BY <1>2, <1>7, <2>1 DEF CursorInv, OriginStays
  <2>4. /\ CursorCovers' /\ store'.cursor = b
        /\ store'.cursor <= head' /\ disk'.cursor <= head'
        /\ LogsIn(origin, b)' \subseteq HandedOver'
        /\ StartBlock > 0 /\ (store'.cursor > 0 \/ disk'.cursor > 0) => origin' = StartBlock
        /\ StartBlock = 0 /\ store'.cursor = 0 => disk'.cursor = 0
    BY <1>1, <1>2, <1>7, <2>1, <2>2, <2>3, CursorMoves
  <2>5. PollingCovers'
    <3>1. fromBlock' - 1 = b
      BY <1>7
    <3> QED
      BY <2>4, <3>1 DEF PollingCovers, LogsIn
  <2>6. BehindHead'
    BY <1>3, <1>7, <2>1, <2>4, <1>2 DEF BehindHead
  <2>7. OriginStays'
    BY <1>2, <1>7, <2>1, <2>3, <2>4 DEF OriginStays
  <2> QED
    BY <1>4, <2>4, <2>5, <2>6, <2>7 DEF CursorInv
<1>8. CASE mode = "catchup" /\ Unsubscribe("polling") /\ UNCHANGED <<storeVars, origin>>
  BY <1>1, <1>8, CursorInvLeaves DEF Unsubscribe
<1> QED
  BY <1>5, <1>6, <1>7, <1>8 DEF SubmitFails, i
LEMMA CursorInvMainLoop ==
  ASSUME Basis, CursorInv, [RelayerNext]_relayerVars, MainLoop
  PROVE  CursorInv'
<1>1. store.cursor \in Nat /\ head \in Nat /\ fromBlock \in Nat /\ gapStart \in Nat
  BY CursorTypes DEF Basis
<1>2. CASE TakeSnapshot \/ SubscriptionError
  <2>1. /\ UNCHANGED <<mantleVars, storeVars, origin>> /\ ~scanning'
        /\ mode # "off" /\ mode' # "polling"
    BY <1>2 DEF TakeSnapshot, SubscriptionError, Unsubscribe, Basis, ScanPlaced, scanVars, historyVars
  <2> QED
    BY <2>1, CursorInvLeaves
<1>3. CASE Backfill
  <2>1. ~scanning /\ mode = "backfill" /\ UNCHANGED <<mantleVars, workVars, storeVars, origin>>
    BY <1>3 DEF Backfill, historyVars
  <2>2. CASE GoTo("subscribing") /\ UNCHANGED scanVars
    BY <2>1, <2>2, CursorInvLeaves DEF GoTo, scanVars
  <2>3. CASE ~NothingToBackfill /\ Scan(store.cursor + 1, head - 1) /\ UNCHANGED loopVars
    <3>1. store.cursor > 0 /\ store.cursor + 1 <= head - 1 /\ head - 1 \in Nat
      BY <1>1, <2>3 DEF NothingToBackfill
    <3>2. ScanFrom = store.cursor + 1
      BY <2>1 DEF ScanFrom
    <3> QED
      BY <2>1, <2>3, <3>1, <3>2, CursorInvScans
  <2>4. CASE Poll(store.cursor) /\ UNCHANGED scanVars
    BY <2>1, <2>4, CursorInvPolls DEF scanVars
  <2> QED
    BY <1>3, <2>2, <2>3, <2>4 DEF Backfill
<1>4. CASE Subscribe
  <2>1. /\ ~scanning' /\ mode = "subscribing" /\ UNCHANGED <<mantleVars, storeVars, origin>>
    BY <1>4 DEF Subscribe, Basis, ScanPlaced, scanVars, historyVars
  <2> QED
    BY <1>4, <2>1, CursorInvLeaves, CursorInvPolls DEF Subscribe, GoTo
<1>5. CASE CatchUp
  <2>1. mode = "catchup" /\ UNCHANGED <<mantleVars, storeVars, origin>>
    BY <1>5 DEF CatchUp, historyVars
  <2>2. mode' # "polling" /\ mode' # "backfill"
    BY <1>5 DEF CatchUp, GoTo, Unsubscribe, loopVars
  <2> QED
    BY <2>1, <2>2, CursorInvLeaves
<1>6. CASE Drained
  <2>1. /\ ~scanning' /\ mode = "draining" /\ UNCHANGED <<mantleVars, storeVars, origin>>
    BY <1>6 DEF Drained, Basis, ScanPlaced, scanVars, historyVars
  <2> QED
    BY <1>6, <2>1, CursorInvLeaves, CursorInvPolls DEF Drained, GoTo
<1>7. CASE PollQuery
  <2>1. /\ mode = "polling" /\ ~scanning /\ fromBlock <= head /\ Scan(fromBlock, head)
        /\ UNCHANGED <<mantleVars, loopVars, storeVars, workVars, origin>>
    BY <1>1, <1>7 DEF PollQuery, historyVars
  <2>2. ScanFrom = fromBlock
    BY <2>1 DEF ScanFrom
  <2> QED
    BY <1>1, <2>1, <2>2, CursorInvScans
<1> QED
  BY <1>2, <1>3, <1>4, <1>5, <1>6, <1>7, CursorInvScanDone DEF MainLoop

LEMMA CursorInvHandles ==
  ASSUME Basis, CursorInv, [RelayerNext]_relayerVars, NEW w \in Workers, HandleEvent(w)
  PROVE  CursorInv'
<1>1. CASE SubmitFails(w) /\ w = "main"
  BY <1>1, CursorInvFails
<1>2. CASE SubmitFails(w) /\ w = "consumer"
  <2>1. /\ UNCHANGED <<mode, fromBlock, origin, scanning, upTo, todo, store, disk>>
        /\ job'["main"] = job["main"]
    BY <1>2 DEF SubmitFails, loopVars, storeVars, scanVars, Basis, RelayerTypeOK, Workers
  <2> QED
    BY <2>1, CursorInvStays
<1>3. CASE Submit(w) \/ SubmitAnswerLost(w)
  <2>1. UNCHANGED <<mode, fromBlock, origin, scanning, upTo, todo, store, disk, job>>
    BY <1>3 DEF Submit, SubmitAnswerLost, loopVars, storeVars, scanVars, historyVars, workVars
  <2> QED
    BY <2>1, CursorInvStays
<1>4. CASE Mark(w)
  <2>1. /\ UNCHANGED <<mode, fromBlock, origin, scanning, upTo, todo>>
        /\ store'.cursor = store.cursor /\ disk'.cursor \in {disk.cursor, store.cursor}
    BY <1>4 DEF Mark, MarkProcessed, Save, loopVars, scanVars, historyVars,
                Basis, RelayerTypeOK, Stores
  <2>2. job'["main"] = job["main"] \/ (job'["main"] = 0 /\ job["main"] \in HandedOver)
    BY <1>4 DEF Mark, Basis, MarkedWasSent, RelayerTypeOK, Workers
  <2>3. HandedOver \subseteq HandedOver'
    BY HandedOverStays
  <2> QED
    BY <2>1, <2>2, <2>3, CursorInvStays
<1>5. ASSUME NEW i \in Issued, SkipEvent(w, i) \/ AcceptEvent(w, i)
      PROVE  CursorInv'
  <2>1. /\ UNCHANGED <<mode, fromBlock, origin, store, disk, mantleVars>>
        /\ Take(w, i) /\ job[w] = 0
    BY <1>5 DEF SkipEvent, AcceptEvent, loopVars, storeVars, historyVars
  <2>2. HandedOver \subseteq HandedOver'
    BY HandedOverStays
  <2>3. CASE w = "consumer"
    <3>1. UNCHANGED scanVars
      BY <2>1, <2>3, TakeEffect DEF Basis
    <3>2. job'["main"] = job["main"]
      BY <1>5, <2>3 DEF SkipEvent, AcceptEvent, workVars, Basis, RelayerTypeOK, Workers
    <3> QED
      BY <2>1, <3>1, <3>2, CursorInvStays DEF scanVars
  <2>4. CASE w = "main"
    <3>1. todo' = todo \ {i} /\ i \in todo /\ UNCHANGED <<scanning, upTo>>
      BY <2>1, <2>4, TakeEffect DEF Basis, IsFirst
    <3>2. (job'["main"] = 0 /\ i \in HandedOver) \/ job'["main"] = i
      BY <1>5, <2>1, <2>4 DEF SkipEvent, AcceptEvent, IsDuplicate, workVars, Basis, RelayerTypeOK,
             Workers, DuplicatesHandedOver, HandedOver
    <3> QED
      BY <2>1, <2>2, <2>4, <3>1, <3>2, CursorInvStays
  <2> QED
    BY <2>3, <2>4 DEF Workers
<1> QED
  BY <1>1, <1>2, <1>3, <1>4, <1>5 DEF HandleEvent, Workers

LEMMA CursorInvStart ==
  ASSUME Basis, CursorInv, [RelayerNext]_relayerVars, Start \/ Stop
  PROVE  CursorInv'
<1>1. HandedOver \subseteq HandedOver' /\ Issued' = Issued /\ UNCHANGED <<mantleVars, origin>>
  <2>1. UNCHANGED <<mantleVars, origin>>
    BY DEF Start, Stop, historyVars
  <2> QED
    BY <2>1, HandedOverStays DEF mantleVars, Issued
<1>2. /\ store'.cursor \in {0, store.cursor, disk.cursor}
      /\ disk'.cursor \in {0, store.cursor, disk.cursor}
      /\ mode' # "polling" /\ ~scanning'
      /\ mode' # "off" => store' = disk'
  BY DEF Start, Stop, Fresh, Basis, ScanPlaced, scanVars
<1>3. origin \in Nat /\ head \in Nat /\ store.cursor \in Nat /\ disk.cursor \in Nat
      /\ \A e \in Issued : lockBlock[e] \in Nat /\ lockBlock[e] >= 1
  BY CursorTypes DEF Basis
<1>4. LogsIn(origin, 0) = {}
  BY <1>3 DEF LogsIn
<1>5. CursorCovers'
  BY <1>1, <1>2, <1>4 DEF CursorInv, CursorCovers, LogsIn, mantleVars
<1>6. BehindHead' /\ ScanCovers' /\ PollingCovers' /\ OriginStays'
  BY <1>1, <1>2, <1>3 DEF CursorInv, BehindHead, ScanCovers, PollingCovers, OriginStays, mantleVars
<1> QED
  BY <1>5, <1>6 DEF CursorInv

LEMMA CursorInvNext ==
  ASSUME Basis, CursorInv, [RelayerNext]_relayerVars PROVE CursorInv'
<1>1. CASE Chains \/ UNCHANGED relayerVars
  <2>1. UNCHANGED <<mode, fromBlock, origin, scanning, upTo, todo, store, disk, job>>
    BY <1>1 DEF Chains, MineBlock, MineMint, DropTransaction, Expire, relayerVars, loopVars,
           storeVars, scanVars, historyVars, workVars
  <2> QED
    BY <2>1, CursorInvStays
<1> QED
  BY <1>1, CursorInvStart, CursorInvMainLoop, CursorInvHandles DEF RelayerNext

-----------------------------------------------------------------------------
(* The gap.                                                                *)

(* What was in hand and is not any more was handed over or given up. *)
LEMMA GapStays ==
  ASSUME Basis, GapClosed, [RelayerNext]_relayerVars,
         InHand \ {0} \subseteq HandedOver' \cup InHand' \cup ignored',
         ignored \subseteq ignored', UNCHANGED gapStart,
         live' => live /\ (Issued' \ Issued) \subseteq InHand',
         mode' = mode \/ mode' \notin {"subscribed", "catchup"}
           \/ (mode' = "subscribed" /\ mode = "catchup" /\ scanning),
         mode' = "catchup" /\ scanning' => scanning
  PROVE  GapClosed'
<1> SUFFICES ASSUME mode' = "subscribed" \/ (mode' = "catchup" /\ scanning'), live', gapStart > 0,
                    NEW e \in Issued', lockBlock'[e] \in gapStart..head'
             PROVE  e \in HandedOver' \cup InHand' \cup ignored'
  BY DEF GapClosed, LogsIn
<1>1. CASE e \notin Issued
  BY <1>1
<1>2. CASE e \in Issued
  <2>1. lockBlock[e] \in gapStart..head /\ e # 0
    BY <1>2, EventsGrow, CursorTypes DEF Basis, InOrder
  <2>2. e \in HandedOver \cup InHand \cup ignored
    BY <1>2, <2>1 DEF GapClosed, LogsIn
  <2> QED
    BY <2>1, <2>2, HandedOverStays
<1> QED
  BY <1>1, <1>2
LEMMA GapElsewhere ==
  ASSUME mode' \notin {"subscribed", "catchup"} PROVE GapClosed'
BY DEF GapClosed

(* New events of a live subscription join the channel. *)
LEMMA GapMineBlock ==
  ASSUME Basis, GapClosed, [RelayerNext]_relayerVars, NEW n \in 0..2, MineBlock(n)
  PROVE  GapClosed'
<1> DEFINE new == [k \in 1..n |-> Len(lockBlock) + k]
<1>1. /\ Len(lockBlock) \in Nat /\ Issued = 1..Len(lockBlock)
      /\ Issued' = 1..(Len(lockBlock) + n)
  BY MineBlockEffect, IssuedIsRange DEF Basis
<1>2. new \in Seq(Nat) /\ Len(new) = n /\ queue \in Seq(Nat)
  <2>1. queue \in Seq(Issued) /\ Issued \subseteq Nat
    BY <1>1 DEF Basis, RelayerTypeOK
  <2> QED
    BY <1>1, <2>1
<1>3. \A e \in Issued' \ Issued : \E k \in 1..n : new[k] = e
  <2> TAKE e \in Issued' \ Issued
  <2>1. e - Len(lockBlock) \in 1..n /\ new[e - Len(lockBlock)] = e
    BY <1>1
  <2> QED
    BY <2>1
<1>4. live' = live /\ queue' = (IF live THEN queue \o new ELSE queue)
  BY DEF MineBlock
<1> HIDE DEF new
<1>5. /\ \A k \in DOMAIN queue : k \in DOMAIN (queue \o new) /\ (queue \o new)[k] = queue[k]
      /\ \A k \in 1..n : /\ Len(queue) + k \in DOMAIN (queue \o new)
                         /\ (queue \o new)[Len(queue) + k] = new[k]
  BY <1>2, ConcatProperties
<1>6. UNCHANGED <<job, todo, ignored, gapStart, mode, scanning>>
  BY DEF MineBlock, workVars, scanVars, historyVars, loopVars
<1>7. InHand \subseteq InHand'
  BY <1>4, <1>5, <1>6 DEF InHand
<1>8. live' => live /\ (Issued' \ Issued) \subseteq InHand'
  <2> SUFFICES ASSUME live, NEW e \in Issued' \ Issued PROVE e \in InHand'
    BY <1>4
  <2>1. PICK k \in 1..n : new[k] = e
    BY <1>3
  <2>2. \E m \in DOMAIN queue' : queue'[m] = e
    BY <1>4, <1>5, <2>1
  <2> QED
    BY <2>2 DEF InHand
<1> QED
  BY <1>6, <1>7, <1>8, GapStays

(* Nothing was issued and nothing that was in hand got lost.                *)
LEMMA GapKept ==
  ASSUME Basis, GapClosed, [RelayerNext]_relayerVars,
         InHand \ {0} \subseteq HandedOver' \cup InHand' \cup ignored',
         ignored \subseteq ignored', UNCHANGED <<gapStart, mode, live, mantleVars, scanning>>
  PROVE  GapClosed'
BY GapStays DEF mantleVars, Issued

LEMMA GapMainLoop ==
  ASSUME Basis, GapClosed, [RelayerNext]_relayerVars, MainLoop
  PROVE  GapClosed'
<1>1. CASE TakeSnapshot \/ Backfill \/ SubscriptionError \/ Drained \/ PollQuery
  <2>1. mode' \notin {"subscribed", "catchup"}
    BY <1>1 DEF TakeSnapshot, Backfill, SubscriptionError, Drained, PollQuery,
       GoTo, Poll, Unsubscribe, loopVars
  <2> QED
    BY <2>1, GapElsewhere
<1>2. CASE Subscribe
  <2>1. mode' \in {"catchup", "polling"} /\ ~scanning'
    BY <1>2 DEF Subscribe, GoTo, Poll, Basis, ScanPlaced, scanVars
  <2> QED
    BY <2>1 DEF GapClosed
<1>3. CASE CatchUp
  <2>1. CASE gapStart = 0 /\ GoTo("subscribed")
    BY <2>1 DEF GoTo, GapClosed
  <2>2. CASE Scan(gapStart, head) /\ UNCHANGED <<loopVars, subVars>>
    <3>1. todo' = LogsIn(gapStart, head) /\ LogsIn(gapStart, head)' = LogsIn(gapStart, head)
      BY <1>3, <2>2 DEF Scan, CatchUp, loopVars, mantleVars, LogsIn, Issued
    <3> QED
      BY <3>1 DEF GapClosed, InHand
  <2>3. CASE Unsubscribe("polling")
    BY <2>3, GapElsewhere DEF Unsubscribe
  <2> QED
    BY <1>3, <2>1, <2>2, <2>3 DEF CatchUp
<1>4. CASE ScanDone
  <2>1. CASE mode = "catchup"
    <3>1. /\ mode' = "subscribed" /\ scanning /\ UNCHANGED <<gapStart, live, Issued>>
          /\ InHand' = InHand /\ ignored' = ignored
      BY <1>4, <2>1 DEF ScanDone, GoTo, workVars, subVars, mantleVars, Issued, InHand
    <3> QED
      BY <2>1, <3>1, GapStays
  <2>2. CASE mode \in {"backfill", "polling"}
    BY <1>4, <2>2, GapElsewhere DEF ScanDone, GoTo
  <2> QED
    BY <1>4, <2>1, <2>2 DEF ScanDone
<1> QED
  BY <1>1, <1>2, <1>3, <1>4 DEF MainLoop

LEMMA GapHandles ==
  ASSUME Basis, GapClosed, [RelayerNext]_relayerVars, NEW w \in Workers, HandleEvent(w)
  PROVE  GapClosed'
<1> USE DEF Workers
<1>1. CASE Submit(w) \/ SubmitAnswerLost(w)
  <2>1. UNCHANGED <<job, todo, queue, ignored, gapStart, mode, live, mantleVars, scanning>>
    BY <1>1 DEF Submit, SubmitAnswerLost, workVars, scanVars, historyVars, loopVars, subVars
  <2> QED
    BY <2>1, GapKept DEF InHand
<1>2. CASE Mark(w)
  <2>1. UNCHANGED <<todo, queue, ignored, gapStart, mode, live, mantleVars, scanning>>
    BY <1>2 DEF Mark, scanVars, historyVars, loopVars, subVars
  <2>2. \A v \in Workers : job'[v] = job[v] \/ job[v] \in HandedOver'
    BY <1>2, HandedOverStays DEF Mark, Basis, MarkedWasSent, RelayerTypeOK
  <2> QED
    BY <2>1, <2>2, GapKept DEF InHand
<1>3. CASE SubmitFails(w)
  <2>1. CASE w = "main"
    <3>1. mode' \notin {"subscribed", "catchup"}
      BY <1>3, <2>1 DEF SubmitFails, Poll, Unsubscribe
    <3> QED
      BY <3>1, GapElsewhere
  <2>2. CASE w = "consumer"
    <3>1. UNCHANGED <<todo, queue, gapStart, mode, live, mantleVars, scanning>>
      BY <1>3, <2>2 DEF SubmitFails, scanVars, loopVars, subVars
    <3>2. ignored' = ignored \cup {job[w]} /\ \A v \in Workers : job'[v] = job[v] \/ v = w
      BY <1>3, <2>2 DEF SubmitFails, Basis, RelayerTypeOK
    <3> QED
      BY <3>1, <3>2, GapKept DEF InHand
  <2> QED
    BY <2>1, <2>2
<1>4. ASSUME NEW i \in Issued, SkipEvent(w, i) \/ AcceptEvent(w, i)
      PROVE  GapClosed'
  <2>1. /\ UNCHANGED <<ignored, gapStart, mode, mantleVars>> /\ Take(w, i) /\ job[w] = 0
    BY <1>4 DEF SkipEvent, AcceptEvent, loopVars, historyVars
  <2>2. UNCHANGED <<live, scanning>>
    BY <2>1, TakeEffect DEF scanVars, subVars, Basis
  <2>3. i \in HandedOver' \/ job'[w] = i
    BY <1>4, HandedOverStays DEF SkipEvent, AcceptEvent, IsDuplicate, Basis, RelayerTypeOK,
       DuplicatesHandedOver, HandedOver
  <2>4. \A v \in Workers : job[v] = 0 \/ job'[v] = job[v]
    BY <1>4, <2>1 DEF SkipEvent, AcceptEvent, Basis, RelayerTypeOK, workVars
  <2>5. \A e \in todo : e = i \/ e \in todo'
    BY <2>1, TakeEffect DEF scanVars, Basis
  <2>6. \A k \in DOMAIN queue : queue[k] = i \/ \E m \in DOMAIN queue' : queue'[m] = queue[k]
    BY <2>1, TakeEffect DEF subVars, Basis
  <2>7. InHand \ {0} \subseteq HandedOver' \cup InHand'
    BY <2>3, <2>4, <2>5, <2>6 DEF InHand
  <2> QED
    BY <2>1, <2>2, <2>7, GapKept
<1> QED
  BY <1>1, <1>2, <1>3, <1>4 DEF HandleEvent

LEMMA GapNext ==
  ASSUME Basis, GapClosed, [RelayerNext]_relayerVars PROVE GapClosed'
<1>1. CASE Start \/ Stop
  BY <1>1, GapElsewhere DEF Start, Stop
<1>2. CASE \E n \in 0..2 : MineBlock(n)
  BY <1>2, GapMineBlock
<1>3. CASE (\E i \in mempool : MineMint(i) \/ DropTransaction(i))
             \/ (\E i \in Issued : Expire(i)) \/ UNCHANGED relayerVars
  <2>1. UNCHANGED <<job, todo, queue, ignored, gapStart, mode, live, mantleVars, scanning>>
    BY <1>3 DEF MineMint, DropTransaction, Expire, relayerVars, workVars, scanVars,
       historyVars, loopVars, subVars
  <2> QED
    BY <2>1, GapKept DEF InHand
<1> QED
  BY <1>1, <1>2, <1>3, GapMainLoop, GapHandles DEF RelayerNext, Chains

-----------------------------------------------------------------------------
(* The theorems.                                                           *)

LEMMA RelayerInvInit == RelayerInit => RelayerInv
<1> SUFFICES ASSUME RelayerInit PROVE RelayerInv
  OBVIOUS
<1>1. RelayerTypeOK
  BY RelayerInitType
<1>2. Issued = {} /\ \A w \in Workers : job[w] = 0
  BY DEF RelayerInit, Issued
<1>3. InOrder /\ ScanPlaced /\ MarkedWasSent /\ DuplicatesHandedOver
  BY <1>2 DEF RelayerInit, InOrder, ScanPlaced, MarkedWasSent, DuplicatesHandedOver, Fresh, Workers
<1>4. BehindHead /\ ScanCovers /\ PollingCovers /\ OriginStays /\ GapClosed
  BY DEF RelayerInit, BehindHead, ScanCovers, PollingCovers, OriginStays, GapClosed, Fresh
<1>5. CursorCovers
  BY <1>2 DEF CursorCovers, LogsIn
<1> QED
  BY <1>1, <1>3, <1>4, <1>5 DEF RelayerInv

LEMMA RelayerInvNext == RelayerInv /\ [RelayerNext]_relayerVars => RelayerInv'
<1> SUFFICES ASSUME RelayerInv, [RelayerNext]_relayerVars PROVE RelayerInv'
  OBVIOUS
<1>1. Basis /\ CursorInv
  BY DEF RelayerInv, Basis, CursorInv
<1>2. RelayerTypeOK'
  BY RelayerNextType DEF RelayerInv
<1>3. InOrder' /\ ScanPlaced' /\ MarkedWasSent' /\ DuplicatesHandedOver'
  BY InOrderNext, ScanPlacedNext, MarkedWasSentNext, DuplicatesNext DEF RelayerInv
<1>4. CursorInv' /\ GapClosed'
  BY <1>1, CursorInvNext, GapNext DEF RelayerInv
<1> QED
  BY <1>2, <1>3, <1>4 DEF RelayerInv, CursorInv

LEMMA RelayerInvAlways == RelayerSpec => []RelayerInv
BY RelayerInvInit, RelayerInvNext, PTL DEF RelayerSpec

(* The relayer's and the store's state keep their type.                     *)
THEOREM RelayerTypeCorrect == RelayerSpec => []RelayerTypeOK
<1>1. RelayerInv => RelayerTypeOK
  BY DEF RelayerInv
<1> QED
  BY <1>1, RelayerInvAlways, PTL

(* The cursor, in memory or in the file, never passes a lock from the first *)
(* scanned block on that Ethereum's node did not accept, whatever fails,    *)
(* crashes or restarts (setLastProcessedBlock and its callers).             *)
THEOREM NothingBehindTheCursor == RelayerSpec => []CursorCovers
<1>1. RelayerInv => CursorCovers
  BY DEF RelayerInv
<1> QED
  BY <1>1, RelayerInvAlways, PTL

(* What the relayer or its store remembers as processed was handed over:    *)
(* no lock is taken for a duplicate that was never submitted                *)
(* (processLockedEvent, MarkProcessed).                                     *)
THEOREM OnlyHandedOverIsSkipped == RelayerSpec => []DuplicatesHandedOver
<1>1. RelayerInv => DuplicatesHandedOver
  BY DEF RelayerInv
<1> QED
  BY <1>1, RelayerInvAlways, PTL

(* Between the snapshot and a served subscription no event falls into a gap *)
(* (runSubscription: backfill, subscription, catch-up).                     *)
THEOREM SubscriptionLeavesNoGap == RelayerSpec => []NoGap
<1>1. RelayerInv => NoGap
  BY DEF RelayerInv, GapClosed, NoGap
<1> QED
  BY <1>1, RelayerInvAlways, PTL
=============================================================================
