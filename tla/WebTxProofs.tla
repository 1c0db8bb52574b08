------------------------------ MODULE WebTxProofs ------------------------------
(***************************************************************************)
(* The flows of WebTx: what a borrower starts (BorrowerSession) and what   *)
(* the operator starts from the release queue and the radar (ReleaseDesk), *)
(* for any number of clicks, prompts, transactions and borrowers; and what *)
(* they approve, spend and repay.                                          *)
(***************************************************************************)
EXTENDS BorrowerSession, ReleaseDesk, CollateralLockerProofs, SequenceTheorems, TLAPS

(* BorrowerSession: at most one deposit is in progress. *)

(* Flows are records in a sequence, whatever their arguments are. *)
FlowsAreRecords ==
  /\ \E S : flows \in Seq(S)
  /\ \A f \in DOMAIN flows : {"hook", "stage", "step"} \subseteq DOMAIN flows[f]

(* isLocking holds while a flow of the lock runs, and only one does. *)
LockInv ==
  /\ FlowsAreRecords
  /\ isLocking \in BOOLEAN
  /\ Running("lock") # {} => isLocking
  /\ \A f, g \in Running("lock") : f = g

(* What every step but a click does to the flows: none begins, none begins  *)
(* again, and none changes its hook.                                        *)
Continues ==
  /\ DOMAIN flows' = DOMAIN flows
  /\ FlowsAreRecords'
  /\ \A f \in DOMAIN flows :
       /\ flows'[f].hook = flows[f].hook
       /\ flows[f].stage \in Ended => flows'[f].stage \in Ended

LEMMA LockInvShown == LockInv => OneLockAtATime
<1> SUFFICES ASSUME LockInv PROVE OneLockAtATime
  OBVIOUS
<1>1. CASE Running("lock") = {}
  <2>1. Cardinality({}) = 0
    BY FS_EmptySet
  <2> QED
    BY <1>1, <2>1 DEF OneLockAtATime
<1>2. CASE Running("lock") # {}
  <2>1. PICK f : Running("lock") = {f}
    BY <1>2 DEF LockInv
  <2>2. Cardinality({f}) = 1
    BY FS_Singleton
  <2>3. Cardinality(Running("lock")) = 1
    BY <2>1, <2>2
  <2> QED
    BY <2>3 DEF OneLockAtATime
<1> QED
  BY <1>1, <1>2

LEMMA LockInvInit == SessionInit => LockInv
<1> SUFFICES ASSUME flows = <<>>, isLocking = FALSE PROVE LockInv
  BY DEF SessionInit, WebInit
<1>1. flows \in Seq({}) /\ DOMAIN flows = {}
  OBVIOUS
<1>2. Running("lock") = {}
  BY <1>1 DEF Running
<1> QED
  BY <1>1, <1>2 DEF LockInv, FlowsAreRecords

LEMMA Unmoved == FlowsAreRecords /\ UNCHANGED flows => Continues
BY DEF Continues, FlowsAreRecords

(* A flow of which only one field is another one. *)
LEMMA FlowMoves ==
  ASSUME FlowsAreRecords, NEW f \in DOMAIN flows, flows[f].stage \notin Ended,
         NEW r, flows' = [flows EXCEPT ![f] = r],
         {"hook", "stage", "step"} \subseteq DOMAIN r, r.hook = flows[f].hook
  PROVE  Continues
<1>1. PICK S : flows \in Seq(S)
  BY DEF FlowsAreRecords
<1>2. flows \in Seq(S \cup {r}) /\ r \in S \cup {r}
  BY <1>1
<1>3. flows' \in Seq(S \cup {r})
  BY <1>2, ExceptSeq
<1> QED
  BY <1>3 DEF FlowsAreRecords, Continues

LEMMA FlowGoesTo ==
  ASSUME FlowsAreRecords, NEW f \in DOMAIN flows, flows[f].stage \notin Ended,
         NEW s, GoTo(f, s)
  PROVE  Continues
<1>1. flows' = [flows EXCEPT ![f] = [flows[f] EXCEPT !.stage = s]]
  BY DEF GoTo
<1>2. {"hook", "stage", "step"} \subseteq DOMAIN flows[f]
  BY DEF FlowsAreRecords
<1> QED
  BY <1>1, <1>2, FlowMoves

LEMMA FlowSteps ==
  ASSUME FlowsAreRecords, NEW f \in DOMAIN flows, flows[f].stage \notin Ended,
         NEW s, NEW k,
         \/ flows' = [flows EXCEPT ![f].step = k]
         \/ flows' = [flows EXCEPT ![f].stage = s, ![f].step = k]
  PROVE  Continues
<1>1. {"hook", "stage", "step"} \subseteq DOMAIN flows[f]
  BY DEF FlowsAreRecords
<1>2. CASE flows' = [flows EXCEPT ![f].step = k]
  <2>1. flows' = [flows EXCEPT ![f] = [flows[f] EXCEPT !.step = k]]
    BY <1>2
  <2> QED
    BY <1>1, <2>1, FlowMoves
<1>3. CASE flows' = [flows EXCEPT ![f].stage = s, ![f].step = k]
  <2>1. flows' = [flows EXCEPT ![f] = [flows[f] EXCEPT !.stage = s, !.step = k]]
    BY <1>3, <1>1 DEF FlowsAreRecords
  <2> QED
    BY <1>1, <2>1, FlowMoves
<1> QED
  BY <1>2, <1>3

(* A flow's own steps are steps of a flow that has not ended. *)
LEMMA AdvanceContinues ==
  ASSUME FlowsAreRecords, NEW f \in DOMAIN flows, Advance(f)
  PROVE  Continues
<1>1. CASE Warmed(f)
  BY <1>1, FlowGoesTo DEF Warmed, AwaitsAt, Ended, Fail
<1>2. CASE Connected(f)
  BY <1>2, FlowSteps DEF Connected, Prompt, AwaitsAt, Ended
<1>3. CASE NotConnected(f) \/ TimeOut(f) \/ NoReceipt(f) \/ Refreshed(f)
  BY <1>3, FlowGoesTo DEF NotConnected, TimeOut, NoReceipt, Refreshed, AwaitsAt, Ended, Fail
<1>4. CASE Receipt(f)
  <2>1. flows[f].stage \notin Ended
    BY <1>4 DEF Receipt, Settled, AwaitsAt, Ended
  <2>2. \/ \E k : flows' = [flows EXCEPT ![f].stage = "connecting", ![f].step = k]
        \/ \E k : flows' = [flows EXCEPT ![f].stage = "signing", ![f].step = k]
        \/ \E s : GoTo(f, s)
    BY <1>4 DEF Receipt, Settled, Prompt, Fail
  <2> QED
    BY <2>1, <2>2, FlowSteps, FlowGoesTo
<1> QED
  BY <1>1, <1>2, <1>3, <1>4 DEF Advance

(* An answer of the wallet moves at most the flow that waits for it. *)
LEMMA AnswerContinues ==
  ASSUME FlowsAreRecords, NEW t, Sign(t) \/ SignOffChain(t) \/ Reject(t)
  PROVE  Continues
<1>1. CASE UNCHANGED flows
  BY <1>1, Unmoved
<1>2. CASE ~UNCHANGED flows
  <2>1. t[1] \in DOMAIN flows /\ flows[t[1]].stage \notin Ended
    BY <1>2 DEF Sign, SignOffChain, Reject, Awaited, AwaitsAt, Ended
  <2>2. \/ \E s : GoTo(t[1], s)
        \/ flows' = [flows EXCEPT ![t[1]].step = 2]
    BY <1>2 DEF Sign, SignOffChain, Reject, Fail
  <2> QED
    BY <2>1, <2>2, FlowGoesTo, FlowSteps
<1> QED
  BY <1>1, <1>2

(* The end of the lock's flow is the end of isLocking, and of nothing else. *)
LEMMA LockInvContinues ==
  ASSUME LockInv, Continues, Unlocking \/ (UNCHANGED flows /\ UNCHANGED isLocking)
  PROVE  LockInv'
<1>1. Running("lock")' \subseteq Running("lock")
  BY DEF Running, Continues
<1>2. Running("lock")' # {} => isLocking'
  <2> SUFFICES ASSUME NEW f \in Running("lock")' PROVE isLocking'
    OBVIOUS
  <2>1. isLocking /\ f \in Running("lock")
    BY <1>1 DEF LockInv
  <2>2. ASSUME EndsLock PROVE FALSE
    <3>1. PICK g \in Running("lock") : flows'[g].stage \in Ended
      BY <2>2 DEF EndsLock
    <3>2. g = f
      BY <2>1, <3>1 DEF LockInv
    <3> QED
      BY <3>1, <3>2 DEF Running
  <2> QED
    BY <2>1, <2>2 DEF Unlocking
<1>3. isLocking' \in BOOLEAN
  BY DEF LockInv, Unlocking
<1>4. \A f, g \in Running("lock")' : f = g
  BY <1>1 DEF LockInv
<1> QED
  BY <1>2, <1>3, <1>4 DEF LockInv, Continues

(* A click: another flow, and the first lock among those that run. *)
LEMMA LockInvClick ==
  ASSUME LockInv, NEW h, NEW args, Click(h, args), h = "lock" => ~isLocking
  PROVE  LockInv'
<1> DEFINE r == [hook |-> h, args |-> args, stage |-> "warming", step |-> 1]
<1>1. flows' = Append(flows, r)
  BY DEF Click, Start
<1>2. PICK S : flows \in Seq(S)
  BY DEF LockInv, FlowsAreRecords
<1>3. flows \in Seq(S \cup {r}) /\ r \in S \cup {r}
  BY <1>2
<1>4. /\ flows' \in Seq(S \cup {r})
      /\ DOMAIN flows' = DOMAIN flows \cup {Len(flows) + 1}
      /\ flows'[Len(flows) + 1] = r
      /\ \A f \in DOMAIN flows : flows'[f] = flows[f]
  BY <1>1, <1>3, AppendProperties
<1>5. r.hook = h /\ {"hook", "stage", "step"} \subseteq DOMAIN r
  OBVIOUS
<1> HIDE DEF r
<1>6. FlowsAreRecords'
  BY <1>4, <1>5 DEF LockInv, FlowsAreRecords
<1>7. isLocking' = (isLocking \/ h = "lock") /\ isLocking' \in BOOLEAN
  BY DEF Click, LockInv
<1>8. CASE h = "lock"
  <2>1. Running("lock") = {}
    BY <1>8 DEF LockInv
  <2>2. Running("lock")' \subseteq {Len(flows) + 1}
    BY <1>4, <2>1 DEF Running
  <2> QED
    BY <1>6, <1>7, <1>8, <2>2 DEF LockInv
<1>9. CASE h # "lock"
  <2>1. Running("lock")' = Running("lock")
    BY <1>4, <1>5, <1>9 DEF Running
  <2> QED
    BY <1>6, <1>7, <1>9, <2>1 DEF LockInv
<1> QED
  BY <1>8, <1>9

(* No flow survives a reload. *)
LEMMA LockInvReload == LockInv /\ ReloadTab => LockInv'
<1> SUFFICES ASSUME LockInv, ReloadTab PROVE LockInv'
  OBVIOUS
<1> DEFINE after(f) == IF flows[f].stage \in Ended THEN flows[f]
                       ELSE [flows[f] EXCEPT !.stage = "gone"]
<1>1. flows' = [f \in DOMAIN flows |-> after(f)] /\ isLocking' = FALSE
  BY DEF ReloadTab, Reload
<1>2. DOMAIN flows = 1..Len(flows) /\ Len(flows) \in Nat
  BY DEF LockInv, FlowsAreRecords
<1>3. ASSUME NEW f \in DOMAIN flows
      PROVE  /\ {"hook", "stage", "step"} \subseteq DOMAIN after(f)
             /\ after(f).stage \in Ended
  BY DEF LockInv, FlowsAreRecords, Ended
<1> DEFINE S == {after(f) : f \in DOMAIN flows}
<1>4. flows' \in [1..Len(flows) -> S]
  BY <1>1, <1>2
<1>5. flows' \in Seq(S)
  <2> HIDE DEF S
  <2> QED
    BY <1>2, <1>4
<1>6. FlowsAreRecords'
  <2> HIDE DEF S
  <2>1. \A f \in DOMAIN flows' : {"hook", "stage", "step"} \subseteq DOMAIN flows'[f]
    BY <1>1, <1>3
  <2> QED
    BY <1>5, <2>1 DEF FlowsAreRecords
<1>7. Running("lock")' = {}
  <2> HIDE DEF after
  <2> QED
    BY <1>1, <1>3 DEF Running
<1> QED
  BY <1>1, <1>6, <1>7 DEF LockInv

LEMMA LockInvNext == LockInv /\ [SessionNext]_sessionVars => LockInv'
<1> SUFFICES ASSUME LockInv, [SessionNext]_sessionVars PROVE LockInv'
  OBVIOUS
<1>1. CASE ClickLock(1)
  BY <1>1, LockInvClick DEF ClickLock
<1>2. CASE \/ ClickSupplyCollateral(1) \/ ClickBorrow(Dollars) \/ ClickRepay(Dollars)
           \/ ClickRepayFull \/ ClickWithdrawCollateral(1) \/ ClickSupply(Dollars)
           \/ ClickWithdraw(Dollars) \/ CallSupplyBundle(Dollars)
  <2>1. PICK h, args : Click(h, args) /\ h # "lock"
    BY <1>2 DEF ClickSupplyCollateral, ClickBorrow, ClickRepay, ClickRepayFull,
                ClickWithdrawCollateral, ClickSupply, ClickWithdraw, CallSupplyBundle
  <2> QED
    BY <2>1, LockInvClick
<1>3. CASE \E f \in DOMAIN flows : StepFlow(f)
  BY <1>3, AdvanceContinues, LockInvContinues DEF StepFlow, LockInv
<1>4. CASE \E t \in prompts : Answer(t)
  BY <1>4, AnswerContinues, LockInvContinues DEF Answer, LockInv
<1>5. CASE \/ \E h \in {"supplyCollateral", "borrow", "repay", "withdrawCollateral"} : Dismiss(h)
           \/ ResetLockForm \/ DismissLender
           \/ \E t \in pending : Mine(t) \/ Cancel(t)
           \/ Poll \/ Accrue \/ UNCHANGED sessionVars
  <2>1. UNCHANGED flows /\ UNCHANGED isLocking
    BY <1>5 DEF Dismiss, ResetLockForm, DismissLender, Mine, MinedAs, Cancel, Replaced, Poll, Accrue,
                sessionVars, webVars
  <2> QED
    BY <2>1, Unmoved, LockInvContinues DEF LockInv
<1>6. CASE ReloadTab
  BY <1>6, LockInvReload
<1> QED
  BY <1>1, <1>2, <1>3, <1>4, <1>5, <1>6 DEF SessionNext

(* From the click to the end of the handler, through timeouts, late answers *)
(* of the wallet and reloads, no second deposit is started: the flag set    *)
(* before the first await and cleared in the finally                        *)
(* (app/borrow/page.tsx:288) allows one flow of the lock at a time.         *)
THEOREM OneDepositAtATime == SessionSpec => []OneLockAtATime
BY LockInvInit, LockInvNext, LockInvShown, PTL DEF SessionSpec

-----------------------------------------------------------------------------
(* ReleaseDesk: what the queue and the radar show when a flow sends it. *)

(* The arguments of the desk's flows. *)
ReleaseArgs ==
  [amount: Nat, full: BOOLEAN, market: BOOLEAN, debt: Int, shares: Nat,
   known: BOOLEAN, borrower: Users, counted: Nat, issued: Nat]
LiquidationArgs ==
  [borrower: Users, amount: Nat, full: BOOLEAN, market: BOOLEAN, debt: Int, shares: Nat]
DeskFlow ==
  [hook: {"unlock", "release", "liquidate"}, args: ReleaseArgs \cup LiquidationArgs,
   stage: Stages, step: 1..2]

Releases(f) == flows[f].hook \in {"unlock", "release"}
Steps(hook) == IF hook = "liquidate" THEN 1..2 ELSE {1}
Sent == prompts \cup pending \cup mined \cup reverted \cup replaced

(* Rows of the queue and of the radar, and the queue's reads of a borrower. *)
QueueRow ==
  [shown: {TRUE}, borrower: Users, amount: Nat, ready: BOOLEAN, known: BOOLEAN, counted: Nat,
   issued: Nat]
RadarRow == [shown: {TRUE}, borrower: Users, shares: Nat, risk: {"liquidatable", "danger", "warning", "safe"}]
QueueRead ==
  [active: {TRUE}, left: {<<"locked", "debt">>, <<"debt">>, <<>>},
   amount: Nat, debt: Nat, counted: Nat, issued: Nat]

(* What a flow is, and what it has written. *)
FlowsInv ==
  /\ flows \in Seq(DeskFlow) /\ Len(flows) <= MaxFlows
  /\ \A f \in DOMAIN flows :
       /\ flows[f].step \in Steps(flows[f].hook)
       /\ flows[f].args \in IF Releases(f) THEN ReleaseArgs ELSE LiquidationArgs
       /\ Releases(f) /\ flows[f].stage \in {"refreshing", "succeeded"} => <<f, 1>> \in Accepted
  /\ \A t \in Sent : \E f \in DOMAIN flows : \E k \in Steps(flows[f].hook) : t = <<f, k>>

LocksInv ==
  /\ LockerTypeOK
  /\ NoncesSpent
  /\ IsFiniteSet(lockerConsumed)

(* A read that goes on after the locked balance has counted at most what    *)
(* was locked until now, and one that is done what was until the debt.      *)
ReadInv(u) ==
  LET r == reading[u] IN
    /\ r.left = <<"debt">> => r.counted <= EverLocked(u)
    /\ r.left = <<>> /\ r.debt = 0 /\ r.amount # 0 => r.counted <= r.issued

CountsOld(row) == row.ready => row.counted <= row.issued

ReadsInv ==
  /\ reading \in [Users -> QueueRead \cup {NoFetch}]
  /\ \A u \in Users : reading[u] # NoFetch => ReadInv(u)

RowsInv ==
  /\ rows \in [Users -> QueueRow \cup {NoRow}]
  /\ \A u \in Users : rows[u] # NoRow => CountsOld(rows[u])
  /\ pendingUnlock \in QueueRow \cup {NoRow}
  /\ pendingUnlock # NoRow => pendingUnlock.ready /\ CountsOld(pendingUnlock)

ReleasesInv == \A f \in DOMAIN flows : Releases(f) => flows[f].args.counted <= flows[f].args.issued

(* A liquidation that has read the position again, and what it then sends.  *)
HasRead(f) == ~Releases(f) /\ flows[f].stage \notin {"warming", "failed"}
HasSent(f) == \E k \in 1..2 : <<f, k>> \in Sent

RadarInv ==
  /\ radar \in [Users -> RadarRow \cup {NoRow}]
  /\ pendingLiquidation \in RadarRow \cup {NoRow}

DebtsInv ==
  /\ debt \in [Users -> Nat]
  /\ owed \in [1..MaxFlows -> SUBSET Nat]
  /\ \A f \in DOMAIN flows : ~Releases(f) =>
       /\ debt[flows[f].args.borrower] \in owed[f]
       /\ HasRead(f) \/ HasSent(f) => flows[f].args.shares \in owed[f] \ {0}
       /\ flows[f].stage = "warming" => ~HasSent(f)

DeskInv == FlowsInv /\ LocksInv /\ ReadsInv /\ RowsInv /\ ReleasesInv /\ RadarInv /\ DebtsInv

-----------------------------------------------------------------------------
(* The lock ids of a borrower, and their sum. *)
LEMMA EverLockedIsNat ==
  ASSUME LockerTypeOK, IsFiniteSet(lockerConsumed), NEW u \in Users
  PROVE  EverLocked(u) \in Nat
<1>1. IsFiniteSet(LocksOf(u))
  BY FS_Subset DEF LocksOf
<1>2. [id \in LocksOf(u) |-> id.amount] \in [LocksOf(u) -> Nat]
  BY LockerAssumption DEF LocksOf, LockerTypeOK, LockIds
<1> QED
  BY <1>1, <1>2, SumIsNat DEF EverLocked

LEMMA EverLockedGrows ==
  ASSUME LocksInv, NEW u \in Users, NEW a \in Amounts, NEW d \in Deadlines, Lock(u, a, d)
  PROVE  /\ IsFiniteSet(lockerConsumed')
         /\ EverLocked(u)' = EverLocked(u) + a
         /\ \A v \in Users \ {u} : EverLocked(v)' = EverLocked(v)
<1> DEFINE x == LockIdOf(u, a, d)
           f == [id \in LocksOf(u) |-> id.amount]
           g == [id \in LocksOf(u)' |-> id.amount]
<1>1. lockerConsumed' = lockerConsumed \cup {x} /\ x \notin lockerConsumed
  BY DEF Lock
<1>2. x.borrower = u /\ x.amount = a
  BY DEF LockIdOf
<1> HIDE DEF x
<1>3. LocksOf(u)' = LocksOf(u) \cup {x} /\ x \notin LocksOf(u)
  BY <1>1, <1>2 DEF LocksOf
<1>4. IsFiniteSet(LocksOf(u))
  BY FS_Subset DEF LocksOf, LocksInv
<1>5. \A id \in LocksOf(u) : id.amount \in Nat
  BY LockerAssumption DEF LocksInv, LocksOf, LockerTypeOK, LockIds
<1>6. a \in Nat
  BY LockerAssumption
<1>7. /\ DOMAIN f = LocksOf(u) /\ DOMAIN g = DOMAIN f \cup {x} /\ g[x] = a
      /\ \A id \in DOMAIN g : g[id] \in Nat
      /\ \A id \in DOMAIN f : g[id] = f[id]
  BY <1>2, <1>3, <1>5, <1>6
<1>8. EverLocked(u) = SumFunction(f) /\ EverLocked(u)' = SumFunction(g)
  BY DEF EverLocked
<1> HIDE DEF f, g
<1>9. SumFunction(g) = SumFunction(f) + g[x]
  BY <1>3, <1>4, <1>7, SumWithOneMore
<1>10. ASSUME NEW v \in Users \ {u} PROVE EverLocked(v)' = EverLocked(v)
  <2>1. LocksOf(v)' = LocksOf(v)
    BY <1>1, <1>2 DEF LocksOf
  <2> QED
    BY <2>1 DEF EverLocked
<1> QED
  BY <1>1, <1>7, <1>8, <1>9, <1>10, FS_AddElement DEF LocksInv

(* What the locker does in a step of the desk. *)
LockerMoves ==
  \/ \E u \in Users, a \in Amounts, d \in Deadlines : Lock(u, a, d)
  \/ \E u \in Users, a \in Nat, id \in lockerConsumed : Unlock(Operator, u, a, id)
  \/ \E a \in Admins : SetAdmin(lockerAdmin, a)
  \/ UNCHANGED lockerVars

LEMMA LocksInvStep == LocksInv /\ LockerMoves => LocksInv' /\ \A u \in Users : EverLocked(u) <= EverLocked(u)'
<1> SUFFICES ASSUME LocksInv, LockerMoves
             PROVE  LocksInv' /\ \A u \in Users : EverLocked(u) <= EverLocked(u)'
  OBVIOUS
<1>1. LockerTypeOK /\ NoncesSpent /\ \A u \in Users : EverLocked(u) \in Nat
  BY EverLockedIsNat DEF LocksInv
<1>2. ASSUME NEW u \in Users, NEW a \in Amounts, NEW d \in Deadlines, Lock(u, a, d)
      PROVE  LocksInv' /\ \A v \in Users : EverLocked(v) <= EverLocked(v)'
  <2>1. LockerTypeOK' /\ NoncesSpent'
    <3>1. LockerNext
      BY <1>2 DEF LockerNext
    <3> QED
      BY <1>1, <3>1, LockerStepType, NoncesStep
  <2>2. a \in Nat
    BY LockerAssumption
  <2>3. /\ IsFiniteSet(lockerConsumed')
        /\ EverLocked(u)' = EverLocked(u) + a
        /\ \A v \in Users \ {u} : EverLocked(v)' = EverLocked(v)
    BY <1>2, EverLockedGrows
  <2>4. ASSUME NEW v \in Users PROVE EverLocked(v) <= EverLocked(v)'
    <3>1. EverLocked(v) \in Nat
      BY <1>1
    <3> QED
      BY <2>2, <2>3, <3>1
  <2> QED
    BY <2>1, <2>3, <2>4 DEF LocksInv
<1>3. CASE UNCHANGED <<lockerConsumed, userNonce>> /\ LockerTypeOK'
  <2>1. \A v \in Users : EverLocked(v)' = EverLocked(v)
    BY <1>3 DEF EverLocked, LocksOf
  <2> QED
    BY <1>1, <1>3, <2>1 DEF LocksInv, NoncesSpent
<1>4. ASSUME NEW u \in Users, NEW a \in Nat, NEW id \in lockerConsumed, Unlock(Operator, u, a, id)
      PROVE  UNCHANGED <<lockerConsumed, userNonce>> /\ LockerTypeOK'
  <2>1. LockerTypeOK'
    BY <1>1, <1>4, UnlockType DEF LockerTypeOK
  <2> QED
    BY <1>4, <2>1 DEF Unlock
<1>5. CASE (\E a \in Admins : SetAdmin(lockerAdmin, a)) \/ UNCHANGED lockerVars
  <2>1. UNCHANGED <<lockerConsumed, userNonce>>
    BY <1>5 DEF SetAdmin, lockerVars
  <2>2. LockerTypeOK'
    BY <1>1, <1>5 DEF LockerTypeOK, SetAdmin, lockerVars
  <2> QED
    BY <1>3, <2>1, <2>2
<1> QED
  BY <1>2, <1>3, <1>4, <1>5 DEF LockerMoves

-----------------------------------------------------------------------------
(* The hooks of the desk. *)
LEMMA DeskHooks ==
  /\ Hook["unlock"] = UseUnlockCollateral
  /\ Hook["release"] = ReleaseHook
  /\ Hook["liquidate"] = LiquidateHook
BY DEF Hook, HookNames

LEMMA DeskWrites ==
  /\ \A h \in {"unlock", "release"} :
       /\ Len(Hook[h].writes) = 1 /\ Hook[h].writes[1].call = "unlock"
       /\ Hook[h].checksReceipt
  /\ Len(Hook["liquidate"].writes) = 2
  /\ Hook["liquidate"].writes[1].call = "approveMax"
  /\ Hook["liquidate"].writes[2].call = "liquidate"
<1>1. Untimed("unlocking", "unlock").call = "unlock"
  BY DEF Untimed
<1>2. ASSUME NEW h \in {"unlock", "release"}
      PROVE  Hook[h].writes = <<Untimed("unlocking", "unlock")>> /\ Hook[h].checksReceipt
  <2>1. /\ UseUnlockCollateral.writes = <<Untimed("unlocking", "unlock")>>
        /\ UseUnlockCollateral.checksReceipt
    BY DEF UseUnlockCollateral
  <2>2. /\ ReleaseHook.writes = <<Untimed("unlocking", "unlock")>>
        /\ ReleaseHook.checksReceipt
    BY DEF UseUnlockCollateral, ReleaseHook
  <2> QED
    BY <2>1, <2>2, DeskHooks
<1>3. ASSUME NEW h \in {"unlock", "release"}
      PROVE  Len(Hook[h].writes) = 1 /\ Hook[h].writes[1].call = "unlock"
  BY <1>1, <1>2
<1>4. Hook["liquidate"].writes = <<Write("approving", "approveMax"), Write("liquidating", "liquidate")>>
  BY DeskHooks DEF LiquidateHook
<1>5. /\ Write("approving", "approveMax").call = "approveMax"
      /\ Write("liquidating", "liquidate").call = "liquidate"
  BY DEF Write
<1>6. /\ Len(Hook["liquidate"].writes) = 2
      /\ Hook["liquidate"].writes[1].call = "approveMax"
      /\ Hook["liquidate"].writes[2].call = "liquidate"
  BY <1>4, <1>5
<1> QED
  BY <1>2, <1>3, <1>6

(* A flow that goes to another stage, and to another of its writes. *)
Went(fs, f, s, k) == [fs EXCEPT ![f] = [fs[f] EXCEPT !.stage = s, !.step = k]]

LEMMA WentIs ==
  ASSUME NEW fs \in Seq(DeskFlow), NEW f \in DOMAIN fs, NEW s \in Stages, NEW k \in 1..2
  PROVE  /\ Went(fs, f, s, k) \in Seq(DeskFlow)
         /\ Len(Went(fs, f, s, k)) = Len(fs)
         /\ DOMAIN Went(fs, f, s, k) = DOMAIN fs
         /\ Went(fs, f, s, k)[f].stage = s
         /\ Went(fs, f, s, k)[f].step = k
         /\ Went(fs, f, s, k)[f].hook = fs[f].hook
         /\ Went(fs, f, s, k)[f].args = fs[f].args
         /\ \A g \in DOMAIN fs \ {f} : Went(fs, f, s, k)[g] = fs[g]
<1> DEFINE r == [fs[f] EXCEPT !.stage = s, !.step = k]
<1>1. fs[f] \in DeskFlow
  OBVIOUS
<1>2. r \in DeskFlow /\ r.stage = s /\ r.step = k /\ r.hook = fs[f].hook /\ r.args = fs[f].args
  BY <1>1 DEF DeskFlow
<1>3. Went(fs, f, s, k) = [fs EXCEPT ![f] = r]
  BY DEF Went
<1> HIDE DEF r
<1>4. [fs EXCEPT ![f] = r] \in Seq(DeskFlow)
  BY <1>2, ExceptSeq
<1> QED
  BY <1>2, <1>3, <1>4, ExceptSeq

LEMMA FormsOfWent ==
  ASSUME NEW fs \in Seq(DeskFlow), NEW f \in DOMAIN fs, NEW s, NEW k
  PROVE  /\ [fs EXCEPT ![f].stage = s] = Went(fs, f, s, fs[f].step)
         /\ [fs EXCEPT ![f].stage = s, ![f].step = k] = Went(fs, f, s, k)
<1>1. fs[f] \in DeskFlow
  OBVIOUS
<1>2. [fs[f] EXCEPT !.stage = s] = [fs[f] EXCEPT !.stage = s, !.step = fs[f].step]
  BY <1>1 DEF DeskFlow
<1>3. [fs EXCEPT ![f].stage = s] = [fs EXCEPT ![f] = [fs[f] EXCEPT !.stage = s]]
  OBVIOUS
<1>4. [fs EXCEPT ![f].stage = s, ![f].step = k] = [fs EXCEPT ![f] = [fs[f] EXCEPT !.stage = s, !.step = k]]
  BY <1>1 DEF DeskFlow
<1> QED
  BY <1>2, <1>3, <1>4 DEF Went

(* A step of flow f: none but a running flow moves, a release is called     *)
(* done only when its transaction has executed, and what is written is the  *)
(* flow's next write.                                                       *)
FlowMove(f, s, k) ==
  /\ f \in DOMAIN flows /\ flows[f].stage \notin Ended
  /\ s \in Stages \ {"warming"} /\ k \in Steps(flows[f].hook)
  /\ flows' = Went(flows, f, s, k)
  /\ Releases(f) /\ s \in {"refreshing", "succeeded"} => <<f, 1>> \in Accepted
  /\ Sent' \subseteq Sent \cup {<<f, k>>}
  /\ UNCHANGED <<mined, replaced>>

LEMMA FlowIs ==
  ASSUME FlowsInv, NEW f \in DOMAIN flows
  PROVE  /\ flows[f] \in DeskFlow
         /\ flows[f].hook \in {"unlock", "release", "liquidate"}
         /\ flows[f].stage \in Stages
         /\ flows[f].step \in Steps(flows[f].hook)
         /\ Steps(flows[f].hook) = 1..Len(HookOf(f).writes)
<1>1. flows[f] \in DeskFlow
  BY DEF FlowsInv
<1>2. flows[f].hook \in {"unlock", "release", "liquidate"} /\ flows[f].stage \in Stages
  BY <1>1 DEF DeskFlow
<1>3. Steps(flows[f].hook) = 1..Len(HookOf(f).writes)
  <2>1. CASE flows[f].hook = "liquidate"
    BY <2>1, DeskWrites DEF Steps, HookOf
  <2>2. CASE flows[f].hook # "liquidate"
    <3>1. flows[f].hook \in {"unlock", "release"}
      BY <1>2, <2>2
    <3>2. Len(HookOf(f).writes) = 1
      BY <3>1, DeskWrites DEF HookOf
    <3>3. Steps(flows[f].hook) = {1}
      BY <2>2 DEF Steps
    <3> QED
      BY <3>2, <3>3
  <2> QED
    BY <2>1, <2>2
<1> QED
  BY <1>1, <1>2, <1>3 DEF FlowsInv

LEMMA FlowGoes ==
  ASSUME FlowsInv, NEW f \in DOMAIN flows, flows[f].stage \notin Ended,
         NEW s \in Stages \ {"warming"}, GoTo(f, s),
         Releases(f) /\ s \in {"refreshing", "succeeded"} => <<f, 1>> \in Accepted,
         Sent' \subseteq Sent, UNCHANGED <<mined, replaced>>
  PROVE  FlowMove(f, s, flows[f].step)
<1>1. flows' = Went(flows, f, s, flows[f].step)
  BY FormsOfWent DEF GoTo, FlowsInv
<1> QED
  BY <1>1, FlowIs DEF FlowMove

LEMMA FlowSignsNext ==
  ASSUME FlowsInv, NEW f \in DOMAIN flows, flows[f].stage \notin Ended,
         NEW k \in Steps(flows[f].hook), Prompt(f, k), UNCHANGED <<pending, mined, reverted, replaced>>
  PROVE  FlowMove(f, "signing", k)
<1>1. flows' = Went(flows, f, "signing", k)
  BY FormsOfWent DEF Prompt, FlowsInv
<1>2. Sent' \subseteq Sent \cup {<<f, k>>}
  BY DEF Prompt, Sent
<1> QED
  BY <1>1, <1>2 DEF FlowMove, Stages

LEMMA AdvanceMoves ==
  ASSUME FlowsInv, NEW f \in DOMAIN flows, Advance(f)
  PROVE  \E s, k : FlowMove(f, s, k)
<1> DEFINE h == flows[f].hook
           k == flows[f].step
<1>1. /\ h \in {"unlock", "release", "liquidate"}
      /\ k \in Steps(h) /\ Steps(h) = 1..Len(HookOf(f).writes)
  BY FlowIs
<1>2. CASE Warmed(f)
  <2>1. /\ flows[f].stage \notin Ended /\ Sent' \subseteq Sent /\ UNCHANGED <<mined, replaced>>
        /\ GoTo(f, "connecting") \/ GoTo(f, "failed")
    BY <1>2 DEF Warmed, AwaitsAt, Ended, Fail, Sent
  <2> QED
    BY <2>1, FlowGoes DEF Stages
<1>3. CASE Connected(f)
  BY <1>1, <1>3, FlowSignsNext DEF Connected, AwaitsAt, Ended
<1>4. CASE NotConnected(f) \/ TimeOut(f) \/ NoReceipt(f)
  <2>1. /\ flows[f].stage \notin Ended /\ Sent' \subseteq Sent /\ UNCHANGED <<mined, replaced>>
        /\ GoTo(f, "failed")
    BY <1>4 DEF NotConnected, TimeOut, NoReceipt, AwaitsAt, Ended, Fail, Sent
  <2> QED
    BY <2>1, FlowGoes DEF Stages
<1>5. CASE Refreshed(f)
  <2>1. /\ flows[f].stage = "refreshing" /\ Sent' \subseteq Sent /\ UNCHANGED <<mined, replaced>>
        /\ GoTo(f, "succeeded")
    BY <1>5 DEF Refreshed, AwaitsAt, Sent
  <2>2. Releases(f) => <<f, 1>> \in Accepted
    BY <2>1 DEF FlowsInv
  <2> QED
    BY <2>1, <2>2, FlowGoes DEF Stages, Ended
<1>6. CASE Receipt(f)
  <2>1. flows[f].stage = "mining" /\ flows[f].stage \notin Ended
    BY <1>6 DEF Receipt, Settled, AwaitsAt, Ended
  <2>2. UNCHANGED <<pending, mined, reverted, replaced>>
    BY <1>6 DEF Receipt, Settled
  <2>3. CASE k < Len(HookOf(f).writes)
    <3>1. k + 1 \in Steps(h) /\ h = "liquidate"
      <4>1. k + 1 \in Steps(h)
        BY <1>1, <2>3 DEF Steps
      <4>2. ASSUME h \in {"unlock", "release"} PROVE FALSE
        <5>1. Len(HookOf(f).writes) = 1
          BY <4>2, DeskWrites DEF HookOf
        <5>2. k \in 1..1
          BY <1>1, <5>1
        <5> QED
          BY <2>3, <5>1, <5>2
      <4> QED
        BY <1>1, <4>1, <4>2
    <3>2. CASE HookOf(f).reconnects
      <4>1. flows' = [flows EXCEPT ![f].stage = "connecting", ![f].step = @ + 1] /\ UNCHANGED prompts
        BY <1>6, <2>3, <3>2 DEF Receipt, Settled
      <4>2. flows' = [flows EXCEPT ![f].stage = "connecting", ![f].step = k + 1]
        BY <4>1
      <4>3. flows' = Went(flows, f, "connecting", k + 1)
        BY <4>2, FormsOfWent DEF FlowsInv
      <4>4. Sent' = Sent
        BY <2>2, <4>1 DEF Sent
      <4> QED
        BY <2>1, <2>2, <3>1, <4>3, <4>4 DEF FlowMove, Stages
    <3>3. CASE ~HookOf(f).reconnects
      <4>1. CASE Prompt(f, k + 1)
        BY <2>1, <2>2, <3>1, <4>1, FlowSignsNext
      <4>2. CASE GoTo(f, "failed") /\ UNCHANGED prompts
        BY <2>1, <2>2, <4>2, FlowGoes DEF Stages, Sent
      <4> QED
        BY <1>6, <2>3, <3>3, <4>1, <4>2 DEF Receipt, Settled, Fail
    <3> QED
      BY <3>2, <3>3
  <2>4. CASE ~(k < Len(HookOf(f).writes))
    <3>1. Sent' = Sent
      BY <1>6, <2>2, <2>4 DEF Receipt, Settled, Sent
    <3>2. CASE GoTo(f, "failed")
      BY <2>1, <2>2, <3>1, <3>2, FlowGoes DEF Stages
    <3>3. CASE GoTo(f, "refreshing") /\ ~(HookOf(f).checksReceipt /\ <<f, k>> \in reverted)
      <4>1. ASSUME Releases(f) PROVE <<f, 1>> \in Accepted
        <5>1. k = 1 /\ HookOf(f).checksReceipt
          BY <1>1, <4>1, DeskWrites DEF Releases, Steps, HookOf
        <5> QED
          BY <1>6, <3>3, <5>1 DEF Receipt, Settled, Accepted
      <4> QED
        BY <2>1, <2>2, <3>1, <3>3, <4>1, FlowGoes DEF Stages
    <3> QED
      BY <1>6, <2>4, <3>2, <3>3 DEF Receipt, Settled, Fail
  <2> QED
    BY <2>3, <2>4
<1> QED
  BY <1>2, <1>3, <1>4, <1>5, <1>6 DEF Advance

(* An answer of the wallet moves a flow that has a prompt, or none. *)
LEMMA AnswerMoves ==
  ASSUME FlowsInv, NEW t \in prompts, Sign(t) \/ Reject(t)
  PROVE  /\ UNCHANGED <<mined, replaced>> /\ Sent' \subseteq Sent
         /\ \/ UNCHANGED flows
            \/ /\ \E s, k : FlowMove(t[1], s, k)
               /\ flows[t[1]].stage = "signing"
<1>1. UNCHANGED <<mined, replaced>> /\ Sent' \subseteq Sent
  BY DEF Sign, Reject, Sent
<1>2. CASE Awaited(t, "signing")
  <2>1. /\ t[1] \in DOMAIN flows /\ flows[t[1]].stage = "signing"
        /\ flows[t[1]].stage \notin Ended
    BY <1>2 DEF Awaited, AwaitsAt, Ended
  <2>2. GoTo(t[1], "mining") \/ GoTo(t[1], "failed")
    BY <1>2 DEF Sign, Reject, Fail
  <2> QED
    BY <1>1, <2>1, <2>2, FlowGoes DEF Stages
<1>3. CASE ~Awaited(t, "signing")
  BY <1>1, <1>3 DEF Sign, Reject
<1> QED
  BY <1>2, <1>3

-----------------------------------------------------------------------------
LEMMA FlowsInvMoves ==
  ASSUME FlowsInv, NEW f, NEW s, NEW k, FlowMove(f, s, k)
  PROVE  /\ FlowsInv'
         /\ DOMAIN flows' = DOMAIN flows
         /\ flows'[f].stage = s
         /\ \A g \in DOMAIN flows :
              /\ flows'[g].hook = flows[g].hook
              /\ flows'[g].args = flows[g].args
              /\ g # f => flows'[g] = flows[g]
<1>1. /\ flows \in Seq(DeskFlow) /\ f \in DOMAIN flows
      /\ s \in Stages /\ k \in 1..2 /\ k \in Steps(flows[f].hook)
  BY DEF FlowsInv, FlowMove, Steps
<1>2. /\ flows' \in Seq(DeskFlow) /\ Len(flows') = Len(flows) /\ DOMAIN flows' = DOMAIN flows
      /\ flows'[f].stage = s /\ flows'[f].step = k
      /\ flows'[f].hook = flows[f].hook /\ flows'[f].args = flows[f].args
      /\ \A g \in DOMAIN flows \ {f} : flows'[g] = flows[g]
  BY <1>1, WentIs DEF FlowMove
<1>3. ASSUME NEW g \in DOMAIN flows
      PROVE  /\ flows'[g].step \in Steps(flows'[g].hook)
             /\ flows'[g].args \in IF Releases(g)' THEN ReleaseArgs ELSE LiquidationArgs
             /\ Releases(g)' /\ flows'[g].stage \in {"refreshing", "succeeded"} => <<g, 1>> \in Accepted'
  <2>1. CASE g = f
    BY <1>1, <1>2, <2>1 DEF FlowsInv, FlowMove, Releases, Accepted
  <2>2. CASE g # f
    BY <1>2, <2>2 DEF FlowsInv, FlowMove, Releases, Accepted
  <2> QED
    BY <2>1, <2>2
<1>4. ASSUME NEW t \in Sent'
      PROVE  \E g \in DOMAIN flows' : \E n \in Steps(flows'[g].hook) : t = <<g, n>>
  <2>1. CASE t = <<f, k>>
    BY <1>1, <1>2, <2>1
  <2>2. CASE t \in Sent
    <3>1. PICK g \in DOMAIN flows : \E n \in Steps(flows[g].hook) : t = <<g, n>>
      BY <2>2 DEF FlowsInv
    <3>2. flows'[g].hook = flows[g].hook
      BY <1>2
    <3> QED
      BY <1>2, <3>1, <3>2
  <2> QED
    BY <1>4, <2>1, <2>2 DEF FlowMove
<1>5. Len(flows') <= MaxFlows
  BY <1>2 DEF FlowsInv
<1> QED
  BY <1>2, <1>3, <1>4, <1>5 DEF FlowsInv

LEMMA FlowsInvStays ==
  ASSUME FlowsInv, UNCHANGED flows, Sent' \subseteq Sent, Accepted \subseteq Accepted'
  PROVE  FlowsInv'
<1>1. FlowsInv' <=>
        /\ flows \in Seq(DeskFlow) /\ Len(flows) <= MaxFlows
        /\ \A f \in DOMAIN flows :
             /\ flows[f].step \in Steps(flows[f].hook)
             /\ flows[f].args \in IF Releases(f) THEN ReleaseArgs ELSE LiquidationArgs
             /\ Releases(f) /\ flows[f].stage \in {"refreshing", "succeeded"} => <<f, 1>> \in Accepted'
        /\ \A t \in Sent' : \E f \in DOMAIN flows : \E k \in Steps(flows[f].hook) : t = <<f, k>>
  BY DEF FlowsInv, Releases
<1> QED
  BY <1>1 DEF FlowsInv

(* A click that starts another flow. *)
LEMMA FlowsInvBegins ==
  ASSUME FlowsInv, NEW h \in {"unlock", "release", "liquidate"},
         NEW args \in IF h = "liquidate" THEN LiquidationArgs ELSE ReleaseArgs, Begin(h, args)
  PROVE  /\ FlowsInv' /\ Sent' = Sent /\ UNCHANGED <<mined, replaced>>
         /\ Len(flows') = Len(flows) + 1 /\ Len(flows) \in Nat /\ Len(flows') <= MaxFlows
         /\ DOMAIN flows' = DOMAIN flows \cup {Len(flows')} /\ Len(flows') \notin DOMAIN flows
         /\ flows'[Len(flows')].hook = h
         /\ flows'[Len(flows')].args = args
         /\ flows'[Len(flows')].stage = "warming"
         /\ \A g \in DOMAIN flows : flows'[g] = flows[g]
<1> DEFINE r == [hook |-> h, args |-> args, stage |-> "warming", step |-> 1]
<1>1. flows' = Append(flows, r) /\ Len(flows) < MaxFlows
  BY DEF Begin, Start
<1>2. r \in DeskFlow /\ r.hook = h /\ r.args = args /\ r.stage = "warming" /\ r.step = 1
  <2>1. args \in ReleaseArgs \cup LiquidationArgs
    OBVIOUS
  <2> QED
    BY <2>1 DEF DeskFlow, Stages
<1> HIDE DEF r
<1>3. flows \in Seq(DeskFlow) /\ Len(flows) \in Nat /\ DOMAIN flows = 1..Len(flows)
  BY DEF FlowsInv
<1>4. /\ flows' \in Seq(DeskFlow) /\ Len(flows') = Len(flows) + 1
      /\ flows'[Len(flows) + 1] = r
      /\ \A g \in 1..Len(flows) : flows'[g] = flows[g]
  BY <1>1, <1>2, <1>3, AppendProperties
<1>5. /\ DOMAIN flows' = DOMAIN flows \cup {Len(flows')} /\ Len(flows') \notin DOMAIN flows
      /\ flows'[Len(flows')] = r
      /\ \A g \in DOMAIN flows : flows'[g] = flows[g]
  BY <1>3, <1>4
<1>6. Sent' = Sent /\ UNCHANGED <<mined, replaced>>
  BY DEF Begin, Start, Sent
<1>7. Len(flows') <= MaxFlows
  BY <1>1, <1>3, <1>4, WebAssumption
<1>8. ASSUME NEW g \in DOMAIN flows'
      PROVE  /\ flows'[g].step \in Steps(flows'[g].hook)
             /\ flows'[g].args \in IF Releases(g)' THEN ReleaseArgs ELSE LiquidationArgs
             /\ Releases(g)' /\ flows'[g].stage \in {"refreshing", "succeeded"} => <<g, 1>> \in Accepted'
  <2>1. CASE g = Len(flows')
    <3>1. 1 \in Steps(h)
      BY DEF Steps
    <3> QED
      BY <1>2, <1>5, <2>1, <3>1 DEF Releases
  <2>2. CASE g # Len(flows')
    BY <1>5, <1>6, <2>2 DEF FlowsInv, Releases, Accepted
  <2> QED
    BY <2>1, <2>2
<1>9. ASSUME NEW t \in Sent'
      PROVE  \E g \in DOMAIN flows' : \E n \in Steps(flows'[g].hook) : t = <<g, n>>
  <2>1. PICK g \in DOMAIN flows : \E n \in Steps(flows[g].hook) : t = <<g, n>>
    BY <1>6, <1>9 DEF FlowsInv
  <2> QED
    BY <1>5, <2>1
<1>10. FlowsInv'
  BY <1>4, <1>7, <1>8, <1>9 DEF FlowsInv
<1> QED
  BY <1>2, <1>3, <1>4, <1>5, <1>6, <1>7, <1>10

(* Who wrote a call of the desk. *)
LEMMA WhoSent ==
  ASSUME FlowsInv, NEW t \in Sent
  PROVE  /\ t[1] \in DOMAIN flows /\ t[2] \in 1..2 /\ t = <<t[1], t[2]>>
         /\ CallOf(t) = "unlock" => Releases(t[1]) /\ ArgsOf(t) \in ReleaseArgs
         /\ CallOf(t) = "liquidate" =>
              ~Releases(t[1]) /\ HasSent(t[1]) /\ ArgsOf(t) \in LiquidationArgs
<1>1. PICK f \in DOMAIN flows : \E k \in Steps(flows[f].hook) : t = <<f, k>>
  BY DEF FlowsInv
<1>2. PICK k \in Steps(flows[f].hook) : t = <<f, k>>
  BY <1>1
<1>3. t[1] = f /\ t[2] = k /\ k \in 1..2
  BY <1>2 DEF Steps
<1>4. flows[f].hook \in {"unlock", "release", "liquidate"}
  BY FlowIs
<1>5. CASE flows[f].hook = "liquidate"
  <2>1. CallOf(t) \in {"approveMax", "liquidate"} /\ ~Releases(f)
    BY <1>3, <1>5, DeskWrites DEF CallOf, HookOf, Releases
  <2>2. HasSent(f)
    BY <1>2, <1>3 DEF HasSent
  <2>3. ArgsOf(t) \in LiquidationArgs
    BY <1>3, <2>1 DEF FlowsInv, ArgsOf
  <2> QED
    BY <1>1, <1>2, <1>3, <2>1, <2>2, <2>3
<1>6. CASE flows[f].hook # "liquidate"
  <2>1. flows[f].hook \in {"unlock", "release"} /\ Releases(f)
    BY <1>4, <1>6 DEF Releases
  <2>2. k = 1
    BY <1>2, <1>6 DEF Steps
  <2>3. CallOf(t) = "unlock"
    BY <1>3, <2>1, <2>2, DeskWrites DEF CallOf, HookOf
  <2>4. ArgsOf(t) \in ReleaseArgs
    BY <1>3, <2>1 DEF FlowsInv, ArgsOf
  <2> QED
    BY <1>1, <1>2, <1>3, <2>1, <2>3, <2>4
<1> QED
  BY <1>5, <1>6

(* The two invariants follow, and what an unlock that is sent has counted. *)
LEMMA DeskInvShown ==
  ASSUME DeskInv
  PROVE  /\ SuccessMeansUnlocked /\ LiquidationIsFresh
         /\ \A t \in Sent : CallOf(t) = "unlock" =>
              ArgsOf(t) \in ReleaseArgs /\ ArgsOf(t).counted <= ArgsOf(t).issued
<1>1. SuccessMeansUnlocked
  BY DEF DeskInv, FlowsInv, Releases, SuccessMeansUnlocked
<1>2. ASSUME NEW t \in Sent, CallOf(t) = "unlock"
      PROVE  ArgsOf(t) \in ReleaseArgs /\ ArgsOf(t).counted <= ArgsOf(t).issued
  BY <1>2, WhoSent DEF DeskInv, ReleasesInv, ArgsOf
<1>3. ASSUME NEW t \in prompts \cup pending \cup mined, CallOf(t) = "liquidate"
      PROVE  ArgsOf(t).shares \in owed[t[1]] \ {0}
  <2>1. t \in Sent
    BY DEF Sent
  <2> QED
    BY <1>3, <2>1, WhoSent DEF DeskInv, DebtsInv, ArgsOf
<1> QED
  BY <1>1, <1>2, <1>3 DEF LiquidationIsFresh

-----------------------------------------------------------------------------
(* What the locker was ever paid grows. *)
Grows == \A u \in Users : EverLocked(u) \in Nat /\ EverLocked(u)' \in Nat /\ EverLocked(u) <= EverLocked(u)'

LEMMA LocksGrows == LocksInv /\ LockerMoves => LocksInv' /\ Grows
<1> SUFFICES ASSUME LocksInv, LockerMoves PROVE LocksInv' /\ Grows
  OBVIOUS
<1>1. LocksInv' /\ \A u \in Users : EverLocked(u) <= EverLocked(u)'
  BY LocksInvStep
<1>2. ASSUME NEW u \in Users PROVE EverLocked(u) \in Nat
  BY EverLockedIsNat DEF LocksInv
<1>3. ASSUME NEW u \in Users PROVE EverLocked(u)' \in Nat
  <2>1. LockerTypeOK' /\ IsFiniteSet(lockerConsumed')
    BY <1>1 DEF LocksInv
  <2>2. IsFiniteSet(LocksOf(u)')
    BY <2>1, FS_Subset DEF LocksOf
  <2>3. [id \in LocksOf(u)' |-> id.amount] \in [LocksOf(u)' -> Nat]
    BY <2>1, LockerAssumption DEF LocksOf, LockerTypeOK, LockIds
  <2> QED
    BY <2>2, <2>3, SumIsNat DEF EverLocked
<1> QED
  BY <1>1, <1>2, <1>3 DEF Grows

LEMMA LeftIs ==
  /\ <<"locked", "debt">> # <<"debt">> /\ <<"locked", "debt">> # <<>> /\ <<"debt">> # <<>>
  /\ Head(<<"locked", "debt">>) = "locked" /\ Tail(<<"locked", "debt">>) = <<"debt">>
  /\ Head(<<"debt">>) = "debt" /\ Tail(<<"debt">>) = <<>>
<1>1. Len(<<"locked", "debt">>) = 2 /\ Len(<<"debt">>) = 1 /\ Len(<<>>) = 0
  OBVIOUS
<1>2. 2 # 1 /\ 2 # 0 /\ 1 # 0
  OBVIOUS
<1>3. /\ <<"locked", "debt">> # <<"debt">> /\ <<"locked", "debt">> # <<>> /\ <<"debt">> # <<>>
  BY <1>1, <1>2
<1> QED
  BY <1>3

LEMMA ReadsInvStays ==
  ASSUME ReadsInv, Grows, UNCHANGED reading
  PROVE  ReadsInv'
<1> SUFFICES ASSUME NEW u \in Users, reading[u] # NoFetch PROVE ReadInv(u)'
  BY DEF ReadsInv, NoFetch
<1>1. reading[u] \in QueueRead /\ ReadInv(u)
  BY DEF ReadsInv
<1>2. reading[u].counted \in Nat
  BY <1>1 DEF QueueRead
<1>3. ReadInv(u)' <=>
        /\ reading[u].left = <<"debt">> => reading[u].counted <= EverLocked(u)'
        /\ reading[u].left = <<>> /\ reading[u].debt = 0 /\ reading[u].amount # 0
             => reading[u].counted <= reading[u].issued
  BY DEF ReadInv
<1> QED
  BY <1>1, <1>2, <1>3 DEF ReadInv, Grows

LEMMA ReadsInvBegun == Begun => ReadsInv'
<1> SUFFICES ASSUME Begun PROVE ReadsInv'
  OBVIOUS
<1> DEFINE r == Fetch
<1>1. r \in QueueRead /\ r.left = <<"locked", "debt">>
  BY DEF Fetch, QueueRead, Order
<1>2. reading' = [u \in Users |-> r]
  BY DEF Begun
<1> HIDE DEF r
<1>3. reading' \in [Users -> QueueRead \cup {NoFetch}]
  BY <1>1, <1>2
<1>4. ASSUME NEW u \in Users PROVE ReadInv(u)'
  <2>1. reading'[u].left = <<"locked", "debt">>
    BY <1>1, <1>2
  <2> QED
    BY <2>1, LeftIs DEF ReadInv
<1> QED
  BY <1>3, <1>4 DEF ReadsInv

LEMMA ReadsInvReads ==
  ASSUME ReadsInv, LocksInv, Grows, debt \in [Users -> Nat], UNCHANGED lockerVars,
         NEW u \in Users, NEW r \in QueueRead, reading' = [reading EXCEPT ![u] = r],
         r.left = <<"debt">> => r.counted <= EverLocked(u),
         r.left = <<>> /\ r.debt = 0 /\ r.amount # 0 => r.counted <= r.issued
  PROVE  ReadsInv'
<1>1. \A v \in Users : EverLocked(v)' = EverLocked(v)
  BY DEF lockerVars, EverLocked, LocksOf
<1>2. reading' \in [Users -> QueueRead \cup {NoFetch}]
  BY DEF ReadsInv
<1>3. ASSUME NEW v \in Users, reading'[v] # NoFetch PROVE ReadInv(v)'
  <2>1. CASE v = u
    <3>1. reading'[v] = r
      BY <2>1 DEF ReadsInv
    <3> QED
      BY <1>1, <2>1, <3>1 DEF ReadInv
  <2>2. CASE v # u
    <3>1. reading'[v] = reading[v] /\ ReadInv(v)
      BY <1>3, <2>2 DEF ReadsInv
    <3> QED
      BY <1>1, <3>1 DEF ReadInv
  <2> QED
    BY <2>1, <2>2
<1> QED
  BY <1>2, <1>3 DEF ReadsInv

LEMMA ReadBorrowerInv ==
  ASSUME ReadsInv, LocksInv, Grows, debt \in [Users -> Nat], NEW u \in Users,
         ReadBorrower(u) \/ ReadFails(u)
  PROVE  ReadsInv'
<1> DEFINE r == reading[u]
<1>1. r.active /\ r.left # <<>> /\ UNCHANGED lockerVars
  BY DEF ReadBorrower, ReadFails, chainVars
<1>2. r \in QueueRead /\ ReadInv(u)
  BY <1>1 DEF ReadsInv, NoFetch
<1>3. /\ r.left \in {<<"locked", "debt">>, <<"debt">>, <<>>}
      /\ r.amount \in Nat /\ r.debt \in Nat /\ r.counted \in Nat /\ r.issued \in Nat
  BY <1>2 DEF QueueRead
<1>4. EverLocked(u) \in Nat /\ lockedBalance[u] \in Nat /\ debt[u] \in Nat
  BY DEF Grows, LocksInv, LockerTypeOK
<1> DEFINE all == EverLocked(u)
<1> HIDE DEF all
<1>5. all \in Nat /\ all = EverLocked(u)
  BY <1>4 DEF all
<1>6. CASE ReadFails(u)
  <2> DEFINE s == [Fetch EXCEPT !.left = <<>>]
  <2>1. reading' = [reading EXCEPT ![u] = s]
    BY <1>6 DEF ReadFails
  <2>2. s \in QueueRead /\ s.left = <<>> /\ s.counted = 0 /\ s.issued = 0
    BY DEF Fetch, QueueRead
  <2> HIDE DEF s
  <2>3. s.left # <<"debt">> /\ s.counted <= s.issued
    BY <2>2, LeftIs
  <2> QED
    BY <1>1, <2>1, <2>2, <2>3, ReadsInvReads
<1>7. CASE ReadBorrower(u) /\ r.left = <<"locked", "debt">>
  <2> DEFINE next == IF lockedBalance[u] = 0 THEN <<>> ELSE <<"debt">>
             s == [r EXCEPT !.amount = lockedBalance[u], !.counted = all, !.left = next]
  <2>1. reading' = [reading EXCEPT ![u] = s]
    BY <1>7, LeftIs DEF ReadBorrower, all
  <2>2. next \in {<<"locked", "debt">>, <<"debt">>, <<>>} /\ (next = <<>> => lockedBalance[u] = 0)
    BY LeftIs
  <2>3. s \in QueueRead /\ s.left = next /\ s.counted = all /\ s.amount = lockedBalance[u]
    <3> HIDE DEF next
    <3> QED
      BY <1>2, <1>4, <1>5, <2>2 DEF QueueRead
  <2>4. s.counted <= EverLocked(u)
    BY <1>5, <2>3
  <2>5. s.left = <<>> => s.amount = 0
    BY <2>2, <2>3
  <2> HIDE DEF s, next
  <2> QED
    BY <1>1, <2>1, <2>3, <2>4, <2>5, ReadsInvReads
<1>8. CASE ReadBorrower(u) /\ r.left = <<"debt">>
  <2> DEFINE s == [r EXCEPT !.debt = debt[u], !.issued = all, !.left = <<>>]
  <2>1. reading' = [reading EXCEPT ![u] = s]
    BY <1>8, LeftIs DEF ReadBorrower, all
  <2>2. /\ s \in QueueRead /\ s.left = <<>> /\ s.counted = r.counted /\ s.issued = all
    BY <1>2, <1>4, <1>5 DEF QueueRead
  <2> HIDE DEF s
  <2>3. s.counted <= s.issued
    BY <1>2, <1>5, <1>8, <2>2 DEF ReadInv
  <2> QED
    BY <1>1, <2>1, <2>2, <2>3, LeftIs, ReadsInvReads
<1> QED
  BY <1>1, <1>3, <1>6, <1>7, <1>8

(* The result takes the place of the rows. *)
LEMMA ShowQueueInv ==
  ASSUME ReadsInv, RowsInv, ShowQueue
  PROVE  ReadsInv' /\ RowsInv'
<1>1. ReadsInv'
  <2>1. reading' = [u \in Users |-> NoFetch]
    BY DEF ShowQueue
  <2> QED
    BY <2>1 DEF ReadsInv, NoFetch
<1>2. ASSUME NEW u \in Users
      PROVE  /\ RowOf(u) \in QueueRow \cup {NoRow}
             /\ RowOf(u) # NoRow => CountsOld(RowOf(u))
  <2>1. CASE reading[u].active /\ reading[u].amount # 0
    <3>1. reading[u] \in QueueRead /\ ReadInv(u) /\ reading[u].left = <<>>
      BY <2>1 DEF ReadsInv, NoFetch, ShowQueue
    <3> DEFINE ready == reading[u].debt = 0
               known == u \in scanned
               counted == IF reading[u].debt = 0 THEN reading[u].counted ELSE 0
               issued == IF reading[u].debt = 0 THEN reading[u].issued ELSE 0
               row == [shown |-> TRUE, borrower |-> u, amount |-> reading[u].amount,
                       ready |-> ready, known |-> known, counted |-> counted, issued |-> issued]
    <3>2. RowOf(u) = row
      BY <2>1 DEF RowOf
    <3>3. ready \in BOOLEAN /\ known \in BOOLEAN
      OBVIOUS
    <3>6. counted \in Nat /\ issued \in Nat
      BY <3>1 DEF QueueRead
    <3>4. /\ row \in QueueRow /\ row.counted = counted /\ row.issued = issued
      <4> HIDE DEF ready, known, counted, issued
      <4> QED
        BY <3>1, <3>3, <3>6 DEF QueueRow, QueueRead
    <3>5. counted <= issued
      BY <2>1, <3>1 DEF ReadInv
    <3> HIDE DEF row, counted, issued
    <3> QED
      BY <3>2, <3>4, <3>5 DEF CountsOld
  <2>2. CASE ~(reading[u].active /\ reading[u].amount # 0)
    BY <2>2 DEF RowOf
  <2> QED
    BY <2>1, <2>2
<1>3. rows' = [u \in Users |-> RowOf(u)] /\ UNCHANGED pendingUnlock
  BY DEF ShowQueue
<1> QED
  BY <1>1, <1>2, <1>3 DEF RowsInv

-----------------------------------------------------------------------------
LEMMA RowsInvStays ==
  ASSUME RowsInv, UNCHANGED rows, pendingUnlock' = pendingUnlock \/ pendingUnlock' = NoRow
  PROVE  RowsInv'
<1>1. RowsInv' <=>
        /\ rows \in [Users -> QueueRow \cup {NoRow}]
        /\ \A u \in Users : rows[u] # NoRow => CountsOld(rows[u])
        /\ pendingUnlock' \in QueueRow \cup {NoRow}
        /\ pendingUnlock' # NoRow => pendingUnlock'.ready /\ CountsOld(pendingUnlock')
  BY DEF RowsInv
<1> QED
  BY <1>1 DEF RowsInv

LEMMA RowIs ==
  ASSUME RowsInv, NEW u \in Users, rows[u].shown
  PROVE  rows[u] # NoRow /\ rows[u] \in QueueRow /\ CountsOld(rows[u])
<1>1. rows[u] # NoRow
  BY DEF NoRow
<1> QED
  BY <1>1 DEF RowsInv

LEMMA ClickUnlockInv ==
  ASSUME RowsInv, NEW u \in Users, ClickUnlock(u)
  PROVE  RowsInv'
<1>1. rows[u] \in QueueRow /\ CountsOld(rows[u]) /\ rows[u].ready
  BY RowIs DEF ClickUnlock, UnlockOffered
<1>2. pendingUnlock' = rows[u] /\ rows' = rows
  BY DEF ClickUnlock, queueVars
<1> QED
  BY <1>1, <1>2 DEF RowsInv, CountsOld

(* The arguments of an unlock are those of a row that is ready. *)
LEMMA UnlockArgsAre ==
  ASSUME NEW row \in QueueRow, row.ready, CountsOld(row)
  PROVE  /\ UnlockArgs(row) \in ReleaseArgs
         /\ UnlockArgs(row).counted <= UnlockArgs(row).issued
<1> DEFINE known == row.known /\ isAdmin
<1>1. known \in BOOLEAN
  OBVIOUS
<1>2. /\ row.amount \in Nat /\ row.borrower \in Users
      /\ row.counted \in Nat /\ row.issued \in Nat
  BY DEF QueueRow
<1>3. UnlockArgs(row) =
        [amount |-> row.amount, full |-> FALSE, market |-> TRUE, debt |-> Unknown, shares |-> 0,
         known |-> known, borrower |-> row.borrower,
         counted |-> row.counted, issued |-> row.issued]
  BY DEF UnlockArgs
<1> HIDE DEF known
<1>4. UnlockArgs(row) \in ReleaseArgs
  BY <1>1, <1>2, <1>3 DEF ReleaseArgs, Unknown
<1>5. UnlockArgs(row).counted = row.counted /\ UnlockArgs(row).issued = row.issued
  BY <1>3
<1> QED
  BY <1>4, <1>5 DEF CountsOld

LEMMA ReleasesInvStays ==
  ASSUME ReleasesInv, DOMAIN flows' = DOMAIN flows,
         \A g \in DOMAIN flows : flows'[g].hook = flows[g].hook
                                 /\ (Releases(g) => flows'[g].args = flows[g].args)
  PROVE  ReleasesInv'
BY DEF ReleasesInv, Releases

LEMMA ReleasesInvBegins ==
  ASSUME ReleasesInv, NEW n, DOMAIN flows' = DOMAIN flows \cup {n},
         \A g \in DOMAIN flows : flows'[g] = flows[g],
         Releases(n)' => flows'[n].args.counted <= flows'[n].args.issued
  PROVE  ReleasesInv'
BY DEF ReleasesInv, Releases

-----------------------------------------------------------------------------
LEMMA RadarInvStays == RadarInv /\ UNCHANGED <<radar, pendingLiquidation>> => RadarInv'
BY DEF RadarInv

LEMMA RadarStepInv ==
  ASSUME RadarInv, debt \in [Users -> Nat],
         \E u \in Users : RefreshRadar(u) \/ ClickLiquidate(u)
  PROVE  RadarInv'
<1>1. ASSUME NEW u \in Users, RefreshRadar(u) PROVE RadarInv'
  <2> DEFINE row == [shown |-> TRUE, borrower |-> u, shares |-> debt[u], risk |-> RiskLevel(u)]
             new == IF debt[u] = 0 THEN NoRow ELSE row
  <2>1. RiskLevel(u) \in {"liquidatable", "danger", "warning", "safe"}
    BY DEF RiskLevel
  <2>2. row \in RadarRow
    BY <2>1 DEF RadarRow
  <2>3. new \in RadarRow \cup {NoRow}
    BY <2>2
  <2>4. radar' = [radar EXCEPT ![u] = new] /\ pendingLiquidation' = pendingLiquidation
    BY <1>1 DEF RefreshRadar
  <2> HIDE DEF new
  <2> QED
    BY <2>3, <2>4 DEF RadarInv
<1>2. ASSUME NEW u \in Users, ClickLiquidate(u) PROVE RadarInv'
  BY <1>2 DEF ClickLiquidate, RadarInv
<1> QED
  BY <1>1, <1>2

-----------------------------------------------------------------------------
LEMMA FlowsAreFew == FlowsInv => DOMAIN flows \subseteq 1..MaxFlows
<1> SUFFICES ASSUME FlowsInv PROVE DOMAIN flows \subseteq 1..MaxFlows
  OBVIOUS
<1>1. DOMAIN flows = 1..Len(flows) /\ Len(flows) \in Nat /\ Len(flows) <= MaxFlows
  BY DEF FlowsInv
<1> QED
  BY <1>1, WebAssumption

(* What DebtsInv says of a flow. *)
LEMMA DebtsInvIs ==
  ASSUME NEW fs, NEW ds, NEW os, flows' = fs, debt' = ds, owed' = os,
         ds \in [Users -> Nat], os \in [1..MaxFlows -> SUBSET Nat],
         \A g \in DOMAIN fs : fs[g].hook \notin {"unlock", "release"} =>
           /\ ds[fs[g].args.borrower] \in os[g]
           /\ fs[g].stage \notin {"warming", "failed"} \/ HasSent(g)' =>
                fs[g].args.shares \in os[g] \ {0}
           /\ fs[g].stage = "warming" => ~HasSent(g)'
  PROVE  DebtsInv'
<1> SUFFICES ASSUME NEW g \in DOMAIN flows', ~Releases(g)'
             PROVE  /\ debt'[flows'[g].args.borrower] \in owed'[g]
                    /\ HasRead(g)' \/ HasSent(g)' => flows'[g].args.shares \in owed'[g] \ {0}
                    /\ flows'[g].stage = "warming" => ~HasSent(g)'
  BY DEF DebtsInv
<1>1. fs[g].hook \notin {"unlock", "release"}
  BY DEF Releases
<1>2. HasRead(g)' => fs[g].stage \notin {"warming", "failed"}
  BY DEF HasRead
<1> QED
  BY <1>1, <1>2

LEMMA SentBefore ==
  ASSUME Sent' \subseteq Sent, NEW g, HasSent(g)'
  PROVE  HasSent(g)
<1>1. PICK k \in 1..2 : <<g, k>> \in Sent'
  BY DEF HasSent
<1> QED
  BY <1>1 DEF HasSent

LEMMA DebtsInvStays ==
  ASSUME DebtsInv, Sent' \subseteq Sent, UNCHANGED <<flows, debt, owed>>
  PROVE  DebtsInv'
BY SentBefore, DebtsInvIs DEF DebtsInv, HasRead, Releases

LEMMA DebtsInvMoves ==
  ASSUME FlowsInv, DebtsInv, NEW f, NEW s, NEW k, FlowMove(f, s, k), UNCHANGED <<debt, owed>>,
         \/ Releases(f)
         \/ flows[f].stage # "warming"
         \/ s = "failed" /\ Sent' \subseteq Sent
  PROVE  DebtsInv'
<1>1. /\ DOMAIN flows' = DOMAIN flows
      /\ flows'[f].stage = s /\ s # "warming"
      /\ \A g \in DOMAIN flows :
           /\ flows'[g].hook = flows[g].hook
           /\ flows'[g].args = flows[g].args
           /\ g # f => flows'[g] = flows[g]
  BY FlowsInvMoves DEF FlowMove
<1>2. ASSUME NEW g \in DOMAIN flows, g # f, HasSent(g)' PROVE HasSent(g)
  <2>1. PICK n \in 1..2 : <<g, n>> \in Sent'
    BY <1>2 DEF HasSent
  <2>2. <<g, n>> # <<f, k>>
    BY <1>2
  <2>3. <<g, n>> \in Sent
    BY <2>1, <2>2 DEF FlowMove
  <2> QED
    BY <2>3 DEF HasSent
<1>3. ASSUME NEW g \in DOMAIN flows', flows'[g].hook \notin {"unlock", "release"}
      PROVE  /\ debt[flows'[g].args.borrower] \in owed[g]
             /\ flows'[g].stage \notin {"warming", "failed"} \/ HasSent(g)' =>
                  flows'[g].args.shares \in owed[g] \ {0}
             /\ flows'[g].stage = "warming" => ~HasSent(g)'
  <2>1. g \in DOMAIN flows /\ ~Releases(g) /\ flows'[g].args = flows[g].args
    BY <1>1, <1>3 DEF Releases
  <2>2. CASE g # f
    BY <1>1, <1>2, <2>1, <2>2 DEF DebtsInv, HasRead
  <2>3. CASE g = f /\ flows[f].stage # "warming"
    <3>1. HasRead(f)
      BY <2>1, <2>3 DEF HasRead, FlowMove, Ended
    <3> QED
      BY <1>1, <2>1, <2>3, <3>1 DEF DebtsInv
  <2>4. CASE g = f /\ flows[f].stage = "warming"
    <3>1. ~HasSent(f)
      BY <2>1, <2>4 DEF DebtsInv
    <3>2. s = "failed" /\ ~HasSent(f)'
      BY <2>1, <2>4, <3>1, SentBefore
    <3> QED
      BY <1>1, <2>1, <2>4, <3>2 DEF DebtsInv
  <2> QED
    BY <2>2, <2>3, <2>4
<1>4. debt \in [Users -> Nat] /\ owed \in [1..MaxFlows -> SUBSET Nat] /\ debt' = debt /\ owed' = owed
  BY DEF DebtsInv
<1> QED
  BY <1>3, <1>4, DebtsInvIs

(* Another flow, and if it is a liquidation, the debt its borrower has now. *)
LEMMA DebtsInvBegins ==
  ASSUME FlowsInv, DebtsInv, NEW n \in 1..MaxFlows, n \notin DOMAIN flows,
         DOMAIN flows' = DOMAIN flows \cup {n},
         \A g \in DOMAIN flows : flows'[g] = flows[g],
         flows'[n].stage = "warming", Sent' = Sent, debt' = debt,
         \/ Releases(n)' /\ owed' = owed
         \/ /\ flows'[n].args.borrower \in Users
            /\ owed' = [owed EXCEPT ![n] = {debt[flows'[n].args.borrower]}]
  PROVE  DebtsInv'
<1>1. debt \in [Users -> Nat] /\ owed \in [1..MaxFlows -> SUBSET Nat]
  BY DEF DebtsInv
<1>2. /\ owed' \in [1..MaxFlows -> SUBSET Nat]
      /\ \A g \in DOMAIN flows : owed'[g] = owed[g]
  <2>1. CASE owed' = owed
    BY <1>1, <2>1
  <2>2. CASE /\ flows'[n].args.borrower \in Users
             /\ owed' = [owed EXCEPT ![n] = {debt[flows'[n].args.borrower]}]
    <3>1. {debt[flows'[n].args.borrower]} \in SUBSET Nat
      BY <1>1, <2>2
    <3> QED
      BY <1>1, <2>2, <3>1, FlowsAreFew
  <2> QED
    BY <2>1, <2>2
<1>3. ~HasSent(n)'
  <2> SUFFICES ASSUME NEW m \in 1..2, <<n, m>> \in Sent PROVE FALSE
    BY DEF HasSent
  <2>1. <<n, m>>[1] \in DOMAIN flows
    BY WhoSent
  <2> QED
    BY <2>1
<1>4. ASSUME NEW g \in DOMAIN flows', flows'[g].hook \notin {"unlock", "release"}
      PROVE  /\ debt[flows'[g].args.borrower] \in owed'[g]
             /\ flows'[g].stage \notin {"warming", "failed"} \/ HasSent(g)' =>
                  flows'[g].args.shares \in owed'[g] \ {0}
             /\ flows'[g].stage = "warming" => ~HasSent(g)'
  <2>1. CASE g = n
    BY <1>1, <1>3, <1>4, <2>1 DEF Releases
  <2>2. CASE g # n
    <3>1. g \in DOMAIN flows /\ flows'[g] = flows[g] /\ ~Releases(g)
      BY <1>4, <2>2 DEF Releases
    <3> QED
      BY <1>2, <3>1, SentBefore DEF DebtsInv, HasRead
  <2> QED
    BY <2>1, <2>2
<1> QED
  BY <1>1, <1>2, <1>4, DebtsInvIs

(* A borrower's debt changes. *)
LEMMA DebtsInvSets ==
  ASSUME FlowsInv, DebtsInv, NEW u \in Users, NEW n \in Nat, SetDebt(u, n),
         UNCHANGED flows, Sent' \subseteq Sent
  PROVE  DebtsInv'
<1> DEFINE os == [f \in 1..MaxFlows |->
                    IF f \in DOMAIN flows /\ flows[f].args.borrower = u
                    THEN owed[f] \cup {n} ELSE owed[f]]
<1>1. debt \in [Users -> Nat] /\ owed \in [1..MaxFlows -> SUBSET Nat]
  BY DEF DebtsInv
<1>2. debt' = [debt EXCEPT ![u] = n] /\ owed' = os
  BY DEF SetDebt
<1>3. debt' \in [Users -> Nat]
  BY <1>1, <1>2
<1>4. os \in [1..MaxFlows -> SUBSET Nat]
  BY <1>1
<1>5. DOMAIN flows \subseteq 1..MaxFlows
  BY FlowsAreFew
<1>6. ASSUME NEW g \in DOMAIN flows
      PROVE  /\ owed[g] \subseteq os[g]
             /\ flows[g].args.borrower = u => n \in os[g]
  BY <1>5
<1> HIDE DEF os
<1>7. ASSUME NEW g \in DOMAIN flows, flows[g].hook \notin {"unlock", "release"}
      PROVE  /\ debt'[flows[g].args.borrower] \in os[g]
             /\ flows[g].stage \notin {"warming", "failed"} \/ HasSent(g)' =>
                  flows[g].args.shares \in os[g] \ {0}
             /\ flows[g].stage = "warming" => ~HasSent(g)'
  <2>1. ~Releases(g)
    BY <1>7 DEF Releases
  <2>2. flows[g].args.borrower \in Users
    BY <2>1 DEF FlowsInv, LiquidationArgs
  <2>3. debt[flows[g].args.borrower] \in owed[g]
    BY <2>1 DEF DebtsInv
  <2>4. debt'[flows[g].args.borrower] \in os[g]
    BY <1>1, <1>2, <1>6, <2>2, <2>3
  <2> QED
    BY <1>6, <2>1, <2>4, SentBefore DEF DebtsInv, HasRead
<1> QED
  BY <1>2, <1>3, <1>4, <1>7, DebtsInvIs

-----------------------------------------------------------------------------
(* The actions.  First those that do not touch the flows. *)
LEMMA QuietFlows ==
  ASSUME DeskInv, UNCHANGED flows, Sent' \subseteq Sent, Accepted \subseteq Accepted'
  PROVE  FlowsInv' /\ ReleasesInv'
BY FlowsInvStays, ReleasesInvStays DEF DeskInv

LEMMA QuietInv ==
  ASSUME DeskInv, UNCHANGED flows, Sent' \subseteq Sent, Accepted \subseteq Accepted',
         LockerMoves, UNCHANGED <<debt, owed>>
  PROVE  FlowsInv' /\ ReleasesInv' /\ DebtsInv' /\ LocksInv' /\ Grows
BY QuietFlows, DebtsInvStays, LocksGrows DEF DeskInv

LEMMA StillSent == UNCHANGED <<prompts, pending, mined, reverted, replaced>> => Sent' \subseteq Sent /\ Accepted \subseteq Accepted'
BY DEF Sent, Accepted

LEMMA BorrowerActsInv == ASSUME DeskInv, NEW u \in Users, BorrowerActs(u) PROVE DeskInv'
<1>1. /\ UNCHANGED <<webVars, lockerVars, queueVars, pendingUnlock, radar, pendingLiquidation>>
      /\ \E n \in Nat : SetDebt(u, n)
  <2>1. debt[u] \in Nat
    BY DEF DeskInv, DebtsInv
  <2>2. ASSUME NEW n \in Loans PROVE debt[u] + n \in Nat
    BY <2>1, DeskAssumption
  <2>3. ASSUME NEW n \in Payments, debt[u] >= n PROVE debt[u] - n \in Nat
    BY <2>1, <2>3, DeskAssumption
  <2> QED
    BY <2>2, <2>3 DEF BorrowerActs, radarVars
<1>2. UNCHANGED flows /\ Sent' \subseteq Sent /\ Accepted \subseteq Accepted' /\ LockerMoves
  BY <1>1, StillSent DEF webVars, LockerMoves
<1>3. FlowsInv' /\ ReleasesInv' /\ LocksInv' /\ Grows
  BY <1>2, QuietFlows, LocksGrows DEF DeskInv
<1>4. DebtsInv'
  BY <1>1, <1>2, DebtsInvSets DEF DeskInv
<1> QED
  BY <1>1, <1>3, <1>4, ReadsInvStays, RowsInvStays, RadarInvStays DEF DeskInv, queueVars

LEMMA LockerActsInv ==
  ASSUME DeskInv, \/ \E u \in Users : BorrowerLocks(u)
                  \/ AdminChanges \/ PriceMoves \/ ReadAdmin \/ UNCHANGED deskVars
  PROVE  DeskInv'
<1>1. /\ UNCHANGED <<webVars, queueVars, pendingUnlock, radar, pendingLiquidation, debt, owed>>
      /\ LockerMoves
  BY DEF BorrowerLocks, AdminChanges, PriceMoves, ReadAdmin, deskVars, LockerMoves, chainVars,
         mainnetVars, radarVars
<1>2. UNCHANGED flows /\ Sent' \subseteq Sent /\ Accepted \subseteq Accepted'
  BY <1>1, StillSent DEF webVars
<1>3. FlowsInv' /\ ReleasesInv' /\ DebtsInv' /\ LocksInv' /\ Grows
  BY <1>1, <1>2, QuietInv
<1> QED
  BY <1>1, <1>3, ReadsInvStays, RowsInvStays, RadarInvStays DEF DeskInv, queueVars

LEMMA QueueActsInv ==
  ASSUME DeskInv, \/ \E u \in Users : ReadBorrower(u) \/ ReadFails(u)
                  \/ BeginQueue \/ ShowQueue
  PROVE  DeskInv'
<1>1. /\ UNCHANGED <<webVars, chainVars, pendingUnlock, radar, pendingLiquidation, owed>>
  BY DEF ReadBorrower, ReadFails, BeginQueue, ShowQueue, radarVars
<1>2. UNCHANGED flows /\ Sent' \subseteq Sent /\ Accepted \subseteq Accepted' /\ LockerMoves
      /\ UNCHANGED <<debt, owed>>
  BY <1>1, StillSent DEF webVars, chainVars, mainnetVars, LockerMoves
<1>3. FlowsInv' /\ ReleasesInv' /\ DebtsInv' /\ LocksInv' /\ Grows
  BY <1>2, QuietInv
<1>4. RadarInv'
  BY <1>1, RadarInvStays DEF DeskInv
<1>5. CASE ShowQueue
  BY <1>3, <1>4, <1>5, ShowQueueInv DEF DeskInv
<1>6. CASE ~ShowQueue
  <2>1. RowsInv'
    BY <1>1, <1>6, RowsInvStays DEF DeskInv, ReadBorrower, ReadFails, BeginQueue
  <2>2. ReadsInv'
    BY <1>3, <1>6, ReadBorrowerInv, ReadsInvBegun DEF DeskInv, DebtsInv, BeginQueue
  <2> QED
    BY <1>3, <1>4, <2>1, <2>2 DEF DeskInv
<1> QED
  BY <1>5, <1>6

LEMMA ModalInv ==
  ASSUME DeskInv, (\E u \in Users : ClickUnlock(u)) \/ CloseModal
  PROVE  DeskInv'
<1>1. /\ UNCHANGED <<flows, prompts, pending, mined, reverted, replaced, chainVars, queueVars,
                     radar, pendingLiquidation, owed>>
  BY DEF ClickUnlock, CloseModal, radarVars
<1>2. Sent' \subseteq Sent /\ Accepted \subseteq Accepted' /\ LockerMoves /\ UNCHANGED <<debt, owed>>
  BY <1>1, StillSent DEF chainVars, mainnetVars, LockerMoves
<1>3. FlowsInv' /\ ReleasesInv' /\ DebtsInv' /\ LocksInv' /\ Grows
  BY <1>1, <1>2, QuietInv
<1>4. RowsInv'
  BY <1>1, ClickUnlockInv, RowsInvStays DEF DeskInv, CloseModal, queueVars
<1> QED
  BY <1>1, <1>3, <1>4, ReadsInvStays, RadarInvStays DEF DeskInv, queueVars

LEMMA RadarActsInv ==
  ASSUME DeskInv, (\E u \in Users : RefreshRadar(u) \/ ClickLiquidate(u)) \/ DismissLiquidation
  PROVE  DeskInv'
<1>1. /\ UNCHANGED <<webVars, chainVars, queueVars, pendingUnlock, owed>>
  BY DEF RefreshRadar, ClickLiquidate, DismissLiquidation
<1>2. UNCHANGED flows /\ Sent' \subseteq Sent /\ Accepted \subseteq Accepted' /\ LockerMoves
      /\ UNCHANGED <<debt, owed>>
  BY <1>1, StillSent DEF webVars, chainVars, mainnetVars, LockerMoves
<1>3. FlowsInv' /\ ReleasesInv' /\ DebtsInv' /\ LocksInv' /\ Grows
  BY <1>2, QuietInv
<1>4. RadarInv'
  <2>1. CASE DismissLiquidation
    BY <2>1 DEF DeskInv, RadarInv, DismissLiquidation
  <2>2. CASE ~DismissLiquidation
    BY <2>2, RadarStepInv DEF DeskInv, DebtsInv
  <2> QED
    BY <2>1, <2>2
<1> QED
  BY <1>1, <1>3, <1>4, ReadsInvStays, RowsInvStays DEF DeskInv, queueVars

-----------------------------------------------------------------------------
(* The clicks that start a flow. *)
LEMMA ReleaseBegins ==
  ASSUME DeskInv, NEW h \in {"unlock", "release"}, NEW row \in QueueRow, row.ready, CountsOld(row),
         Begin(h, UnlockArgs(row)), UNCHANGED <<debt, owed>>
  PROVE  FlowsInv' /\ ReleasesInv' /\ DebtsInv'
<1> DEFINE args == UnlockArgs(row)
<1> PICK n : n = Len(flows')
  OBVIOUS
<1>1. args \in ReleaseArgs /\ args.counted <= args.issued
  BY UnlockArgsAre
<1> HIDE DEF args
<1>2. /\ FlowsInv' /\ Sent' = Sent
      /\ n = Len(flows) + 1 /\ Len(flows) \in Nat /\ n <= MaxFlows
      /\ DOMAIN flows' = DOMAIN flows \cup {n} /\ n \notin DOMAIN flows
      /\ flows'[n].hook = h /\ flows'[n].args = args /\ flows'[n].stage = "warming"
      /\ \A g \in DOMAIN flows : flows'[g] = flows[g]
  BY <1>1, FlowsInvBegins DEF DeskInv, args
<1>3. n \in 1..MaxFlows
  BY <1>2, WebAssumption
<1>4. Releases(n)'
  BY <1>2 DEF Releases
<1>5. ReleasesInv'
  BY <1>1, <1>2, ReleasesInvBegins DEF DeskInv
<1>6. DebtsInv'
  BY <1>2, <1>3, <1>4, DebtsInvBegins DEF DeskInv
<1> QED
  BY <1>2, <1>5, <1>6

LEMMA ReleaseActsInv ==
  ASSUME DeskInv, (\E u \in Users : ProcessRelease(u)) \/ ConfirmUnlock
  PROVE  DeskInv'
<1>1. UNCHANGED <<chainVars, queueVars, pendingUnlock, radar, pendingLiquidation, owed>>
  BY DEF ProcessRelease, ConfirmUnlock, radarVars
<1>2. LockerMoves /\ UNCHANGED <<debt, owed>>
  BY <1>1 DEF LockerMoves, chainVars, mainnetVars
<1>3. LocksInv' /\ Grows
  BY <1>2, LocksGrows DEF DeskInv
<1>4. CASE \E u \in Users : ProcessRelease(u)
  <2>1. PICK u \in Users : ProcessRelease(u)
    BY <1>4
  <2>2. rows[u] \in QueueRow /\ CountsOld(rows[u]) /\ rows[u].ready
    BY <2>1, RowIs DEF DeskInv, ProcessRelease
  <2>3. Begin("release", UnlockArgs(rows[u]))
    BY <2>1 DEF ProcessRelease
  <2>4. FlowsInv' /\ ReleasesInv' /\ DebtsInv'
    BY <1>2, <2>2, <2>3, ReleaseBegins
  <2> QED
    BY <1>1, <1>3, <2>4, ReadsInvStays, RowsInvStays, RadarInvStays DEF DeskInv, queueVars
<1>5. CASE ConfirmUnlock
  <2>1. pendingUnlock \in QueueRow /\ CountsOld(pendingUnlock) /\ pendingUnlock.ready
    BY <1>5 DEF DeskInv, RowsInv, NoRow, ConfirmUnlock
  <2>2. Begin("unlock", UnlockArgs(pendingUnlock))
    BY <1>5 DEF ConfirmUnlock
  <2>3. FlowsInv' /\ ReleasesInv' /\ DebtsInv'
    BY <1>2, <2>1, <2>2, ReleaseBegins
  <2> QED
    BY <1>1, <1>3, <2>3, ReadsInvStays, RowsInvStays, RadarInvStays DEF DeskInv, queueVars
<1> QED
  BY <1>4, <1>5

LEMMA ConfirmLiquidationInv == ASSUME DeskInv, ConfirmLiquidation PROVE DeskInv'
<1> DEFINE row == pendingLiquidation
           args == [borrower |-> row.borrower, amount |-> 0, full |-> FALSE,
                    market |-> TRUE, debt |-> Unknown, shares |-> row.shares]
<1> PICK n : n = Len(flows')
  OBVIOUS
<1>1. /\ UNCHANGED <<chainVars, queueVars, pendingUnlock, radar>>
      /\ pendingLiquidation' = NoRow
      /\ Begin("liquidate", args)
      /\ owed' = [owed EXCEPT ![n] = {debt[row.borrower]}]
  BY DEF ConfirmLiquidation
<1>2. row \in RadarRow
  BY DEF DeskInv, RadarInv, ConfirmLiquidation, NoRow
<1>3. args \in LiquidationArgs /\ args.borrower = row.borrower /\ row.borrower \in Users
  BY <1>2 DEF RadarRow, LiquidationArgs, Unknown
<1> HIDE DEF args
<1>4. /\ FlowsInv' /\ Sent' = Sent
      /\ n = Len(flows) + 1 /\ Len(flows) \in Nat /\ n <= MaxFlows
      /\ DOMAIN flows' = DOMAIN flows \cup {n} /\ n \notin DOMAIN flows
      /\ flows'[n].hook = "liquidate" /\ flows'[n].args = args /\ flows'[n].stage = "warming"
      /\ \A g \in DOMAIN flows : flows'[g] = flows[g]
  BY <1>1, <1>3, FlowsInvBegins DEF DeskInv
<1>5. n \in 1..MaxFlows
  BY <1>4, WebAssumption
<1>6. LockerMoves /\ UNCHANGED <<debt, reading, rows>>
  BY <1>1 DEF LockerMoves, chainVars, mainnetVars, queueVars
<1>7. ReleasesInv'
  <2>1. ~Releases(n)'
    BY <1>4 DEF Releases
  <2> QED
    BY <1>4, <2>1, ReleasesInvBegins DEF DeskInv
<1>8. DebtsInv'
  BY <1>1, <1>3, <1>4, <1>5, <1>6, DebtsInvBegins DEF DeskInv
<1>9. RadarInv'
  BY <1>1 DEF DeskInv, RadarInv
<1> QED
  BY <1>1, <1>4, <1>6, <1>7, <1>8, <1>9, LocksGrows, ReadsInvStays, RowsInvStays DEF DeskInv

(* The position is read again: what is repaid is the debt of this moment.   *)
LEMMA ReadFreshFlows ==
  ASSUME DeskInv, NEW f \in DOMAIN flows, ReadFresh(f)
  PROVE  FlowsInv' /\ ReleasesInv' /\ DebtsInv'
<1> DEFINE b == flows[f].args.borrower
           shares == debt[b]
           next == IF allowance < shares THEN 1 ELSE 2
<1>1. /\ flows[f].hook = "liquidate" /\ flows[f].stage = "warming" /\ ~Releases(f)
      /\ flows[f].stage \notin Ended
      /\ UNCHANGED <<prompts, pending, mined, reverted, replaced, debt, owed>>
  BY DEF ReadFresh, AwaitsAt, Releases, chainVars, mainnetVars, Ended
<1>2. FlowsInv /\ DebtsInv /\ ReleasesInv /\ Sent' = Sent /\ ~HasSent(f)
  BY <1>1 DEF DeskInv, DebtsInv, Sent
<1>3. CASE shares = 0
  <2>1. GoTo(f, "failed")
    BY <1>3 DEF ReadFresh, Fail
  <2>2. FlowMove(f, "failed", flows[f].step)
    BY <1>1, <1>2, <2>1, FlowGoes DEF Stages
  <2> QED
    BY <1>1, <1>2, <2>2, FlowsInvMoves, DebtsInvMoves, ReleasesInvStays
<1>4. CASE shares # 0
  <2>1. flows[f] \in DeskFlow /\ flows[f].args \in LiquidationArgs /\ flows \in Seq(DeskFlow)
    <3>1. flows \in Seq(DeskFlow) /\ flows[f] \in DeskFlow
      BY <1>2, FlowIs DEF FlowsInv
    <3>2. flows[f].args \in IF Releases(f) THEN ReleaseArgs ELSE LiquidationArgs
      BY <1>2 DEF FlowsInv
    <3> QED
      BY <1>1, <3>1, <3>2
  <2>2. shares \in Nat /\ shares \in owed[f]
    BY <1>1, <1>2, <2>1 DEF DebtsInv, LiquidationArgs
  <2>3. next \in 1..2
    OBVIOUS
  <2> DEFINE args == [flows[f].args EXCEPT !.shares = shares]
             r == [flows[f] EXCEPT !.stage = "connecting", !.step = next, !.args = args]
  <2>4. args \in LiquidationArgs /\ args.shares = shares /\ args.borrower = b
    BY <2>1, <2>2 DEF LiquidationArgs
  <2>5. flows' = [flows EXCEPT ![f] = r]
    <3>1. flows' = [flows EXCEPT ![f].stage = "connecting", ![f].step = next,
                                 ![f].args.shares = shares]
      BY <1>4 DEF ReadFresh
    <3> HIDE DEF next, shares
    <3> QED
      BY <2>1, <3>1 DEF DeskFlow
  <2> HIDE DEF args, next
  <2>6. /\ r \in DeskFlow /\ r.stage = "connecting" /\ r.step = next /\ r.args = args
        /\ r.hook = "liquidate"
    BY <1>1, <2>1, <2>3, <2>4 DEF DeskFlow, Stages
  <2> HIDE DEF r
  <2>7. /\ flows' \in Seq(DeskFlow) /\ Len(flows') = Len(flows) /\ DOMAIN flows' = DOMAIN flows
        /\ flows'[f] = r /\ \A g \in DOMAIN flows \ {f} : flows'[g] = flows[g]
    BY <2>1, <2>5, <2>6, ExceptSeq
  <2>8. ASSUME NEW g \in DOMAIN flows'
        PROVE  /\ flows'[g].step \in Steps(flows'[g].hook)
               /\ flows'[g].args \in IF Releases(g)' THEN ReleaseArgs ELSE LiquidationArgs
               /\ Releases(g)' /\ flows'[g].stage \in {"refreshing", "succeeded"} => <<g, 1>> \in Accepted'
    <3>1. CASE g = f
      BY <2>3, <2>4, <2>6, <2>7, <3>1 DEF Releases, Steps
    <3>2. CASE g # f
      BY <1>1, <1>2, <2>7, <2>8, <3>2 DEF FlowsInv, Releases, Accepted
    <3> QED
      BY <3>1, <3>2
  <2>9. ASSUME NEW t \in Sent'
        PROVE  \E g \in DOMAIN flows' : \E n \in Steps(flows'[g].hook) : t = <<g, n>>
    <3>1. PICK g \in DOMAIN flows : \E n \in Steps(flows[g].hook) : t = <<g, n>>
      BY <1>2, <2>9 DEF FlowsInv
    <3>2. flows'[g].hook = flows[g].hook
      BY <1>1, <2>6, <2>7
    <3> QED
      BY <2>7, <3>1, <3>2
  <2>10. FlowsInv'
    <3>1. Len(flows') <= MaxFlows
      BY <1>2, <2>7 DEF FlowsInv
    <3> QED
      BY <2>7, <2>8, <2>9, <3>1 DEF FlowsInv
  <2>11. ReleasesInv'
    <3>1. \A g \in DOMAIN flows : flows'[g].hook = flows[g].hook
                                  /\ (Releases(g) => flows'[g].args = flows[g].args)
      BY <1>1, <2>6, <2>7 DEF Releases
    <3> QED
      BY <1>2, <2>7, <3>1, ReleasesInvStays
  <2>12. ASSUME NEW g \in DOMAIN flows', flows'[g].hook \notin {"unlock", "release"}
         PROVE  /\ debt[flows'[g].args.borrower] \in owed[g]
                /\ flows'[g].stage \notin {"warming", "failed"} \/ HasSent(g)' =>
                     flows'[g].args.shares \in owed[g] \ {0}
                /\ flows'[g].stage = "warming" => ~HasSent(g)'
    <3>1. CASE g = f
      BY <1>4, <2>2, <2>4, <2>6, <2>7, <3>1
    <3>2. CASE g # f
      <4>1. g \in DOMAIN flows /\ flows'[g] = flows[g] /\ ~Releases(g)
        BY <2>7, <2>12, <3>2 DEF Releases
      <4> QED
        BY <1>2, <4>1, SentBefore DEF DebtsInv, HasRead
    <3> QED
      BY <3>1, <3>2
  <2>13. debt \in [Users -> Nat] /\ owed \in [1..MaxFlows -> SUBSET Nat] /\ debt' = debt /\ owed' = owed
    BY <1>1, <1>2 DEF DebtsInv
  <2>14. DebtsInv'
    BY <2>12, <2>13, DebtsInvIs
  <2> QED
    BY <2>10, <2>11, <2>14
<1> QED
  BY <1>3, <1>4

LEMMA ReadFreshInv == ASSUME DeskInv, NEW f \in DOMAIN flows, ReadFresh(f) PROVE DeskInv'
<1>1. UNCHANGED <<chainVars, queueVars, pendingUnlock, radar, pendingLiquidation>>
  BY DEF ReadFresh
<1>2. LockerMoves /\ UNCHANGED <<reading, rows>>
  BY <1>1 DEF LockerMoves, chainVars, queueVars
<1> QED
  BY <1>1, <1>2, ReadFreshFlows, LocksGrows, ReadsInvStays, RowsInvStays, RadarInvStays DEF DeskInv

-----------------------------------------------------------------------------
LEMMA StepDeskInv == ASSUME DeskInv, NEW f \in DOMAIN flows, StepDesk(f) PROVE DeskInv'
<1>1. /\ UNCHANGED <<chainVars, radar, pendingLiquidation, rows, owed>>
      /\ Begun \/ UNCHANGED reading
      /\ pendingUnlock' = pendingUnlock \/ pendingUnlock' = NoRow
  BY DEF StepDesk, queueVars
<1>2. LockerMoves /\ UNCHANGED <<debt, owed>>
  BY <1>1 DEF LockerMoves, chainVars, mainnetVars
<1>3. PICK s, k : FlowMove(f, s, k)
  BY AdvanceMoves DEF StepDesk, DeskInv
<1>4. flows[f].stage # "warming" \/ Releases(f)
  <2>1. flows[f].hook \in {"unlock", "release", "liquidate"}
    BY FlowIs DEF DeskInv
  <2> QED
    BY <2>1 DEF StepDesk, AwaitsAt, Releases
<1>5. FlowsInv' /\ ReleasesInv' /\ DebtsInv'
  BY <1>2, <1>3, <1>4, FlowsInvMoves, DebtsInvMoves, ReleasesInvStays DEF DeskInv
<1>6. LocksInv' /\ Grows
  BY <1>2, LocksGrows DEF DeskInv
<1>7. ReadsInv'
  BY <1>1, <1>6, ReadsInvBegun, ReadsInvStays DEF DeskInv
<1> QED
  BY <1>1, <1>5, <1>6, <1>7, RowsInvStays, RadarInvStays DEF DeskInv

LEMMA AnswerDeskInv == ASSUME DeskInv, NEW t \in prompts, AnswerDesk(t) PROVE DeskInv'
<1>1. UNCHANGED <<chainVars, queueVars, pendingUnlock, radar, pendingLiquidation, owed>>
  BY DEF AnswerDesk
<1>2. LockerMoves /\ UNCHANGED <<debt, owed, reading, rows>>
  BY <1>1 DEF LockerMoves, chainVars, mainnetVars, queueVars
<1>3. /\ UNCHANGED <<mined, replaced>> /\ Sent' \subseteq Sent
      /\ \/ UNCHANGED flows
         \/ /\ \E s, k : FlowMove(t[1], s, k)
            /\ flows[t[1]].stage = "signing"
  BY AnswerMoves DEF AnswerDesk, DeskInv
<1>4. FlowsInv' /\ ReleasesInv' /\ DebtsInv'
  <2>1. CASE UNCHANGED flows
    BY <1>2, <1>3, <2>1, QuietInv DEF Accepted
  <2>2. CASE ~UNCHANGED flows
    <3>1. PICK s, k : FlowMove(t[1], s, k)
      BY <1>3, <2>2
    <3>2. flows[t[1]].stage # "warming"
      BY <1>3, <2>2
    <3> QED
      BY <1>2, <3>1, <3>2, FlowsInvMoves, DebtsInvMoves, ReleasesInvStays DEF DeskInv
  <2> QED
    BY <2>1, <2>2
<1> QED
  BY <1>1, <1>2, <1>4, LocksGrows, ReadsInvStays, RowsInvStays, RadarInvStays DEF DeskInv

LEMMA CancelDeskInv == ASSUME DeskInv, NEW t \in pending, CancelDesk(t) PROVE DeskInv'
<1>1. UNCHANGED <<chainVars, queueVars, pendingUnlock, radar, pendingLiquidation, owed>>
  BY DEF CancelDesk, radarVars
<1>2. /\ UNCHANGED flows /\ Sent' \subseteq Sent /\ Accepted \subseteq Accepted' /\ LockerMoves
      /\ UNCHANGED <<debt, owed, reading, rows>>
  BY <1>1 DEF CancelDesk, Replaced, Sent, Accepted, LockerMoves, chainVars, mainnetVars, queueVars
<1> QED
  BY <1>1, <1>2, QuietInv, ReadsInvStays, RowsInvStays, RadarInvStays DEF DeskInv

(* A mined transaction. *)
LEMMA MinedIsSent ==
  ASSUME NEW t, NEW executes, MinedAs(t, executes)
  PROVE  t \in Sent /\ Sent' \subseteq Sent /\ Accepted \subseteq Accepted' /\ UNCHANGED flows
BY DEF MinedAs, Sent, Accepted

LEMMA MineUnlockInv == ASSUME DeskInv, NEW t \in pending, MineUnlock(t) PROVE DeskInv'
<1>1. UNCHANGED <<mainnetVars, queueVars, pendingUnlock, radar, pendingLiquidation, owed>>
  BY DEF MineUnlock, radarVars
<1>2. t \in Sent /\ Sent' \subseteq Sent /\ Accepted \subseteq Accepted' /\ UNCHANGED flows
  BY MinedIsSent DEF MineUnlock
<1>3. UNCHANGED <<debt, owed, reading, rows>>
  BY <1>1 DEF mainnetVars, queueVars
<1>4. LockerMoves
  <2>1. ArgsOf(t) \in ReleaseArgs
    BY <1>2, WhoSent DEF DeskInv, MineUnlock
  <2>2. ArgsOf(t).borrower \in Users /\ ArgsOf(t).amount \in Nat
    BY <2>1 DEF ReleaseArgs
  <2> QED
    BY <2>2 DEF MineUnlock, LockerMoves, LocksOf
<1> QED
  BY <1>1, <1>2, <1>3, <1>4, QuietInv, ReadsInvStays, RowsInvStays, RadarInvStays DEF DeskInv

LEMMA MineMorphoInv == ASSUME DeskInv, NEW t \in pending, MineMorpho(t) PROVE DeskInv'
<1>1. UNCHANGED <<lockerVars, queueVars, pendingUnlock, radar, pendingLiquidation>>
  BY DEF MineMorpho, radarVars
<1>2. t \in Sent /\ Sent' \subseteq Sent /\ Accepted \subseteq Accepted' /\ UNCHANGED flows
  BY MinedIsSent DEF MineMorpho
<1>3. LockerMoves /\ UNCHANGED <<reading, rows>>
  BY <1>1 DEF LockerMoves, queueVars
<1>4. FlowsInv' /\ ReleasesInv' /\ LocksInv' /\ Grows
  BY <1>2, <1>3, QuietFlows, LocksGrows DEF DeskInv
<1>5. DebtsInv'
  <2>1. CASE UNCHANGED <<debt, owed>>
    BY <1>2, <2>1, DebtsInvStays DEF DeskInv
  <2>2. CASE ~UNCHANGED <<debt, owed>>
    <3> DEFINE a == ArgsOf(t)
    <3>1. /\ CallOf(t) = "liquidate" /\ CanLiquidate(a)
          /\ SetDebt(a.borrower, debt[a.borrower] - a.shares)
      BY <2>2 DEF MineMorpho
    <3>2. a \in LiquidationArgs
      BY <1>2, <3>1, WhoSent DEF DeskInv
    <3> HIDE DEF a
    <3>3. a.borrower \in Users /\ a.shares \in Nat /\ debt[a.borrower] \in Nat
      BY <3>2 DEF LiquidationArgs, DeskInv, DebtsInv
    <3>4. debt[a.borrower] - a.shares \in Nat
      BY <3>1, <3>3 DEF CanLiquidate
    <3> QED
      BY <1>2, <3>1, <3>3, <3>4, DebtsInvSets DEF DeskInv
  <2> QED
    BY <2>1, <2>2
<1> QED
  BY <1>1, <1>3, <1>4, <1>5, ReadsInvStays, RowsInvStays, RadarInvStays DEF DeskInv

-----------------------------------------------------------------------------
LEMMA DeskInvNext == DeskInv /\ [DeskNext]_deskVars => DeskInv'
<1> SUFFICES ASSUME DeskInv, [DeskNext]_deskVars PROVE DeskInv'
  OBVIOUS
<1>1. CASE \E u \in Users : BorrowerActs(u)
  BY <1>1, BorrowerActsInv
<1>2. CASE (\E u \in Users : BorrowerLocks(u)) \/ AdminChanges \/ PriceMoves \/ ReadAdmin \/ UNCHANGED deskVars
  BY <1>2, LockerActsInv
<1>3. CASE (\E u \in Users : ReadBorrower(u) \/ ReadFails(u)) \/ BeginQueue \/ ShowQueue
  BY <1>3, QueueActsInv
<1>4. CASE (\E u \in Users : ClickUnlock(u)) \/ CloseModal
  BY <1>4, ModalInv
<1>5. CASE (\E u \in Users : ProcessRelease(u)) \/ ConfirmUnlock
  BY <1>5, ReleaseActsInv
<1>6. CASE (\E u \in Users : RefreshRadar(u) \/ ClickLiquidate(u)) \/ DismissLiquidation
  BY <1>6, RadarActsInv
<1>7. CASE ConfirmLiquidation
  BY <1>7, ConfirmLiquidationInv
<1>8. CASE \E f \in DOMAIN flows : ReadFresh(f) \/ StepDesk(f)
  BY <1>8, ReadFreshInv, StepDeskInv
<1>9. CASE \E t \in prompts : AnswerDesk(t)
  BY <1>9, AnswerDeskInv
<1>10. CASE \E t \in pending : MineUnlock(t) \/ MineMorpho(t) \/ CancelDesk(t)
  BY <1>10, MineUnlockInv, MineMorphoInv, CancelDeskInv
<1> QED
  BY <1>1, <1>2, <1>3, <1>4, <1>5, <1>6, <1>7, <1>8, <1>9, <1>10 DEF DeskNext

LEMMA DeskInvInit == DeskInit => DeskInv
<1> SUFFICES ASSUME DeskInit PROVE DeskInv
  OBVIOUS
<1>1. flows = <<>> /\ flows \in Seq(DeskFlow) /\ DOMAIN flows = {} /\ Len(flows) = 0 /\ Sent = {}
  BY DEF DeskInit, WebInit, Sent
<1>2. FlowsInv
  BY <1>1, WebAssumption DEF FlowsInv
<1>3. LocksInv
  <2>1. LockerTypeOK /\ NoncesSpent /\ lockerConsumed = {}
    BY LockerInitType DEF DeskInit, LockerInit, NoncesSpent
  <2>2. IsFiniteSet(lockerConsumed)
    BY <2>1, FS_EmptySet
  <2> QED
    BY <2>1, <2>2 DEF LocksInv
<1>4. ReadsInv /\ RowsInv /\ RadarInv
  BY DEF DeskInit, ReadsInv, RowsInv, RadarInv
<1>5. ReleasesInv
  BY <1>1 DEF ReleasesInv
<1>6. DebtsInv
  BY <1>1 DEF DebtsInv, DeskInit
<1> QED
  BY <1>2, <1>3, <1>4, <1>5, <1>6 DEF DeskInv

LEMMA DeskInvHolds == DeskSpec => []DeskInv
BY DeskInvInit, DeskInvNext, PTL DEF DeskSpec

(* A release that the queue's page or the dashboard calls done has left the *)
(* locker, however many flows and transactions of the operator are on their *)
(* way: the receipt's status is looked at (useUnlockCollateral.ts:160).     *)
THEOREM SuccessIsUnlocked == DeskSpec => []SuccessMeansUnlocked
BY DeskInvHolds, DeskInvShown, PTL

(* Only the mining of a transaction of the desk adds to what was mined.     *)
LEMMA WhoIsMined ==
  ASSUME [DeskNext]_deskVars, NEW t \in mined' \ mined, CallOf(t) = "unlock"
  PROVE  t \in pending /\ MineUnlock(t)
<1>1. ASSUME NEW h \in HookNames, NEW args, Begin(h, args) PROVE mined' = mined
  BY <1>1 DEF Begin, Start
<1>2. CASE \/ \E u \in Users : \/ BorrowerActs(u) \/ BorrowerLocks(u) \/ ReadBorrower(u)
                               \/ ReadFails(u) \/ RefreshRadar(u) \/ ClickLiquidate(u)
           \/ AdminChanges \/ PriceMoves \/ ReadAdmin \/ DismissLiquidation \/ BeginQueue
           \/ ShowQueue \/ UNCHANGED deskVars
  BY <1>2 DEF BorrowerActs, BorrowerLocks, ReadBorrower, ReadFails, RefreshRadar, ClickLiquidate,
       AdminChanges, PriceMoves, ReadAdmin, DismissLiquidation, BeginQueue, ShowQueue, deskVars, webVars
<1>3. CASE (\E u \in Users : ClickUnlock(u)) \/ CloseModal
  BY <1>3 DEF ClickUnlock, CloseModal
<1>4. CASE (\E u \in Users : ProcessRelease(u)) \/ ConfirmUnlock \/ ConfirmLiquidation
  BY <1>1, <1>4 DEF ProcessRelease, ConfirmUnlock, ConfirmLiquidation, HookNames
<1>5. CASE \E f \in DOMAIN flows : ReadFresh(f) \/ StepDesk(f)
  BY <1>5 DEF ReadFresh, StepDesk, Advance, Warmed, Connected, NotConnected, TimeOut, Receipt,
       NoReceipt, Refreshed
<1>6. CASE \E g \in prompts : AnswerDesk(g)
  BY <1>6 DEF AnswerDesk, Sign, Reject
<1>7. CASE \E g \in pending : MineUnlock(g) \/ MineMorpho(g) \/ CancelDesk(g)
  <2>1. PICK g \in pending : MineUnlock(g) \/ MineMorpho(g) \/ CancelDesk(g)
    BY <1>7
  <2>2. mined' \subseteq mined \cup {g}
    BY <2>1 DEF MineUnlock, MineMorpho, CancelDesk, MinedAs, Replaced
  <2>3. t = g
    BY <2>2
  <2>4. ~MineMorpho(g)
    BY <2>3 DEF MineMorpho
  <2>5. ~CancelDesk(g)
    BY DEF CancelDesk, Replaced
  <2> QED
    BY <2>1, <2>3, <2>4, <2>5
<1> QED
  BY <1>2, <1>3, <1>4, <1>5, <1>6, <1>7 DEF DeskNext

LEMMA ReleaseStep ==
  ASSUME DeskInv, [DeskNext]_deskVars, NEW t \in mined' \ mined, CallOf(t) = "unlock",
         EverReleased(ArgsOf(t).borrower) = ArgsOf(t).counted - ArgsOf(t).amount
  PROVE  lockedBalance'[ArgsOf(t).borrower] >= EverLocked(ArgsOf(t).borrower) - ArgsOf(t).issued
<1> DEFINE a == ArgsOf(t)
           u == a.borrower
<1>1. t \in pending /\ MineUnlock(t)
  BY WhoIsMined
<1>2. a \in ReleaseArgs /\ a.counted <= a.issued
  BY <1>1, DeskInvShown DEF Sent
<1>3. u \in Users /\ a.amount \in Nat /\ a.counted \in Nat /\ a.issued \in Nat
  BY <1>2 DEF ReleaseArgs
<1>4. EverLocked(u) \in Nat /\ lockedBalance \in [Users -> Nat]
  BY <1>3, EverLockedIsNat DEF DeskInv, LocksInv, LockerTypeOK
<1>5. \E id \in LocksOf(u) : Unlock(Operator, u, a.amount, id)
  BY <1>1 DEF MineUnlock, MinedAs
<1>6. lockedBalance' = [lockedBalance EXCEPT ![u] = @ - a.amount]
  BY <1>5 DEF Unlock
<1>7. EverLocked(u) - lockedBalance[u] = a.counted - a.amount
  BY DEF EverReleased
<1> HIDE DEF a, u
<1>8. lockedBalance'[u] = lockedBalance[u] - a.amount /\ lockedBalance[u] \in Nat
  BY <1>3, <1>4, <1>6
<1>9. lockedBalance'[u] >= EverLocked(u) - a.issued
  BY <1>2, <1>3, <1>4, <1>7, <1>8
<1> QED
  BY <1>9 DEF a, u

(* Unless another release has taken since what a row counted, the unlock    *)
(* that was started from it leaves every lock in place that was made after  *)
(* its borrower was seen without debt: the locked balance is read first     *)
(* (useReleaseQueue.ts:177).                                                *)
THEOREM ReleasesTakeOldLocks == DeskSpec => LaterLocksStay
<1>1. DeskInv /\ [DeskNext]_deskVars =>
        [\A t \in mined' \ mined :
           LET a == ArgsOf(t)
               u == a.borrower
           IN CallOf(t) = "unlock" /\ EverReleased(u) = a.counted - a.amount
              => lockedBalance'[u] >= EverLocked(u) - a.issued]_deskVars
  BY ReleaseStep
<1> QED
  BY <1>1, DeskInvHolds, PTL DEF DeskSpec, LaterLocksStay

(* What a liquidation repays was the borrower's debt at some moment after   *)
(* the click, and is never nothing: the position is read again after the    *)
(* session is warm (handleConfirmLiquidation of the dashboard).             *)
THEOREM LiquidationsAreFresh == DeskSpec => []LiquidationIsFresh
BY DeskInvHolds, DeskInvShown, PTL

-----------------------------------------------------------------------------
(* BorrowerSession: what was approved is spent. *)

(* The flows of the borrow and lend pages, whatever their arguments. *)
SessionHooks ==
  {"supplyCollateral", "borrow", "repay", "withdrawCollateral", "lock", "supply",
   "withdraw", "supplyBundle"}
SessionArgs == [amount: Nat, full: BOOLEAN, market: BOOLEAN, debt: Int, shares: Nat]
SessionFlow == [hook: SessionHooks, args: SessionArgs, stage: Stages, step: 1..2]

(* The writes of a hook that approves are two: the approval and the spending. *)
Approvers == {"supplyCollateral", "repay", "lock", "supply"}
TwoWrites == Approvers \cup {"supplyBundle"}
StepsOf(hook) == IF hook \in TwoWrites THEN 1..2 ELSE {1}

(* A write is asked for when the flow comes to it, once, and the second one *)
(* when the first one is no longer on its way.                              *)
Reached(f, k) ==
  \/ k < flows[f].step
  \/ k = flows[f].step /\ flows[f].stage \notin {"warming", "connecting"}

Apart ==
  /\ prompts \cap (pending \cup mined \cup reverted \cup replaced) = {}
  /\ pending \cap (mined \cup reverted \cup replaced) = {}

WritesInv ==
  /\ flows \in Seq(SessionFlow)
  /\ \A f \in DOMAIN flows :
       /\ flows[f].step \in StepsOf(flows[f].hook)
       /\ flows[f].step = 2 => <<f, 1>> \notin prompts \cup pending
       /\ flows[f].stage \in {"refreshing", "succeeded"} =>
            /\ flows[f].hook \in Approvers => flows[f].step = 2
            /\ <<f, flows[f].step>> \in mined \cup reverted \cup replaced
  /\ \A t \in Sent :
       \E f \in DOMAIN flows : \E k \in StepsOf(flows[f].hook) : t = <<f, k>> /\ Reached(f, k)
  /\ Apart

(* What was read is of the past, and a debt only grows by its index. *)
WalletInv ==
  /\ w \in [Balances -> Nat] /\ w.index > 0
  /\ seen \in [read: BOOLEAN, market: BOOLEAN, data: [Balances -> Nat]]
  /\ seen.data.index <= w.index

FullInv ==
  \A f \in DOMAIN flows : flows[f].args.full =>
    /\ flows[f].hook = "repay"
    /\ flows[f].args.debt \in Nat
    /\ flows[f].args.debt * 1000 <= flows[f].args.shares * w.index

(* What may still be taken is what the last approval gave, whose spending   *)
(* is not mined, or the rest of a full repayment.                           *)
Unspent(f, hooks) == flows[f].hook \in hooks /\ <<f, 2>> \notin mined
Rest == \E f \in DOMAIN flows : flows[f].args.full /\ w.usdcAllowance * 1000 <= flows[f].args.debt

AllowedInv ==
  /\ \/ w.lockerAllowance = 0
     \/ \E f \in DOMAIN flows :
          Unspent(f, {"lock"}) /\ w.lockerAllowance <= flows[f].args.amount
  /\ \/ w.acAllowance = 0
     \/ \E f \in DOMAIN flows :
          Unspent(f, {"supplyCollateral"}) /\ w.acAllowance <= flows[f].args.amount
  /\ \/ w.usdcAllowance = 0
     \/ \E f \in DOMAIN flows :
          Unspent(f, {"repay", "supply"}) /\ w.usdcAllowance <= Approval(flows[f].args)
     \/ Rest

(* What is signed off chain is never sent. *)
SignedInv == \A t \in pending : CallOf(t) \notin OffChain

(* The session begins with nothing approved. *)
NothingApproved ==
  Opening.lockerAllowance = 0 /\ Opening.acAllowance = 0 /\ Opening.usdcAllowance = 0

SessionInv ==
  /\ WritesInv /\ SignedInv /\ WalletInv /\ FullInv
  /\ NothingApproved => AllowedInv

(* The table of their hooks. *)
LEMMA OnMorphoWrites ==
  ASSUME NEW s PROVE OnMorpho(s).writes = s
BY DEF OnMorpho

LEMMA SessionWrites ==
  /\ Hook["supplyCollateral"].writes
       = <<Write("approving", "approveAcUSDY"), Write("supplying", "supplyCollateral")>>
  /\ Hook["borrow"].writes = <<Write("borrowing", "borrow")>>
  /\ Hook["repay"].writes = <<Write("approving", "approveUSDC"), Write("repaying", "repay")>>
  /\ Hook["withdrawCollateral"].writes = <<Write("withdrawing", "withdrawCollateral")>>
  /\ Hook["lock"].writes = <<Write("approving", "approveUSDY"), Write("locking", "lock")>>
  /\ Hook["supply"].writes = <<Write("approving", "approveUSDC"), Write("supplying", "supply")>>
  /\ Hook["withdraw"].writes = <<Untimed("withdrawing", "withdraw")>>
  /\ Hook["supplyBundle"].writes
       = <<Untimed("signing", "signPermit"), Untimed("submitting", "multicall")>>
<1>1. /\ Hook["supplyCollateral"] = UseSupplyAcUSDY /\ Hook["borrow"] = UseBorrowUSDC
      /\ Hook["repay"] = UseRepayUSDC /\ Hook["withdrawCollateral"] = UseWithdrawAcUSDY
      /\ Hook["lock"] = LockAndDeposit /\ Hook["supply"] = UseSupplyUSDCDirect
      /\ Hook["withdraw"] = UseWithdrawUSDCDirect /\ Hook["supplyBundle"] = UseSupplyUSDC
  BY DEF Hook, HookNames
<1>2. UseSupplyAcUSDY.writes
        = <<Write("approving", "approveAcUSDY"), Write("supplying", "supplyCollateral")>>
  BY OnMorphoWrites DEF UseSupplyAcUSDY
<1>3. UseBorrowUSDC.writes = <<Write("borrowing", "borrow")>>
  BY OnMorphoWrites DEF UseBorrowUSDC
<1>4. UseRepayUSDC.writes = <<Write("approving", "approveUSDC"), Write("repaying", "repay")>>
  BY OnMorphoWrites DEF UseRepayUSDC
<1>5. UseWithdrawAcUSDY.writes = <<Write("withdrawing", "withdrawCollateral")>>
  BY OnMorphoWrites DEF UseWithdrawAcUSDY
<1>6. LockAndDeposit.writes = <<Write("approving", "approveUSDY"), Write("locking", "lock")>>
  BY DEF LockAndDeposit
<1>7. UseSupplyUSDCDirect.writes
        = <<Write("approving", "approveUSDC"), Write("supplying", "supply")>>
  BY DEF UseSupplyUSDCDirect, OnMorpho
<1>8. UseWithdrawUSDCDirect.writes = <<Untimed("withdrawing", "withdraw")>>
  BY DEF UseWithdrawUSDCDirect, OnMorpho
<1>9. UseSupplyUSDC.writes
        = <<Untimed("signing", "signPermit"), Untimed("submitting", "multicall")>>
  BY DEF UseSupplyUSDC, OnMorpho
<1> QED
  BY <1>1, <1>2, <1>3, <1>4, <1>5, <1>6, <1>7, <1>8, <1>9

(* What write k of a hook calls. *)
IsCall(hook, k, call) ==
  \/ hook = "supplyCollateral" /\ k = 1 /\ call = "approveAcUSDY"
  \/ hook = "supplyCollateral" /\ k = 2 /\ call = "supplyCollateral"
  \/ hook = "borrow" /\ k = 1 /\ call = "borrow"
  \/ hook = "repay" /\ k = 1 /\ call = "approveUSDC"
  \/ hook = "repay" /\ k = 2 /\ call = "repay"
  \/ hook = "withdrawCollateral" /\ k = 1 /\ call = "withdrawCollateral"
  \/ hook = "lock" /\ k = 1 /\ call = "approveUSDY"
  \/ hook = "lock" /\ k = 2 /\ call = "lock"
  \/ hook = "supply" /\ k = 1 /\ call = "approveUSDC"
  \/ hook = "supply" /\ k = 2 /\ call = "supply"
  \/ hook = "withdraw" /\ k = 1 /\ call = "withdraw"
  \/ hook = "supplyBundle" /\ k = 1 /\ call = "signPermit"
  \/ hook = "supplyBundle" /\ k = 2 /\ call = "multicall"

LEMMA CallsOfHooks ==
  ASSUME NEW h \in SessionHooks
  PROVE  /\ 1..Len(Hook[h].writes) = StepsOf(h)
         /\ \A k \in StepsOf(h) : IsCall(h, k, Hook[h].writes[k].call)
<1>1. ASSUME NEW s, NEW c PROVE Write(s, c).call = c /\ Untimed(s, c).call = c
  BY DEF Write, Untimed
<1>2. CASE h = "supplyCollateral"
  BY <1>1, <1>2, SessionWrites DEF StepsOf, TwoWrites, Approvers, IsCall
<1>3. CASE h = "borrow"
  BY <1>1, <1>3, SessionWrites DEF StepsOf, TwoWrites, Approvers, IsCall
<1>4. CASE h = "repay"
  BY <1>1, <1>4, SessionWrites DEF StepsOf, TwoWrites, Approvers, IsCall
<1>5. CASE h = "withdrawCollateral"
  BY <1>1, <1>5, SessionWrites DEF StepsOf, TwoWrites, Approvers, IsCall
<1>6. CASE h = "lock"
  BY <1>1, <1>6, SessionWrites DEF StepsOf, TwoWrites, Approvers, IsCall
<1>7. CASE h = "supply"
  BY <1>1, <1>7, SessionWrites DEF StepsOf, TwoWrites, Approvers, IsCall
<1>8. CASE h = "withdraw"
  BY <1>1, <1>8, SessionWrites DEF StepsOf, TwoWrites, Approvers, IsCall
<1>9. CASE h = "supplyBundle"
  BY <1>1, <1>9, SessionWrites DEF StepsOf, TwoWrites, Approvers, IsCall
<1> QED
  BY <1>2, <1>3, <1>4, <1>5, <1>6, <1>7, <1>8, <1>9 DEF SessionHooks

(* A flow of the session that goes to another stage or write. *)
LEMMA SessionWent ==
  ASSUME NEW fs \in Seq(SessionFlow), NEW f \in DOMAIN fs, NEW s \in Stages, NEW k \in 1..2
  PROVE  /\ Went(fs, f, s, k) \in Seq(SessionFlow)
         /\ DOMAIN Went(fs, f, s, k) = DOMAIN fs
         /\ Went(fs, f, s, k)[f].stage = s
         /\ Went(fs, f, s, k)[f].step = k
         /\ Went(fs, f, s, k)[f].hook = fs[f].hook
         /\ Went(fs, f, s, k)[f].args = fs[f].args
         /\ \A g \in DOMAIN fs \ {f} : Went(fs, f, s, k)[g] = fs[g]
<1> DEFINE r == [fs[f] EXCEPT !.stage = s, !.step = k]
<1>1. fs[f] \in SessionFlow
  OBVIOUS
<1>2. r \in SessionFlow /\ r.stage = s /\ r.step = k /\ r.hook = fs[f].hook /\ r.args = fs[f].args
  BY <1>1 DEF SessionFlow
<1>3. Went(fs, f, s, k) = [fs EXCEPT ![f] = r]
  BY DEF Went
<1> HIDE DEF r
<1>4. [fs EXCEPT ![f] = r] \in Seq(SessionFlow)
  BY <1>2, ExceptSeq
<1> QED
  BY <1>2, <1>3, <1>4, ExceptSeq

LEMMA FormsOfSessionWent ==
  ASSUME NEW fs \in Seq(SessionFlow), NEW f \in DOMAIN fs, NEW s, NEW k
  PROVE  /\ [fs EXCEPT ![f].stage = s] = Went(fs, f, s, fs[f].step)
         /\ [fs EXCEPT ![f].stage = s, ![f].step = k] = Went(fs, f, s, k)
         /\ [fs EXCEPT ![f].step = k] = Went(fs, f, fs[f].stage, k)
<1>1. fs[f] \in SessionFlow
  OBVIOUS
<1>2. [fs[f] EXCEPT !.stage = s] = [fs[f] EXCEPT !.stage = s, !.step = fs[f].step]
  BY <1>1 DEF SessionFlow
<1>3. [fs EXCEPT ![f].stage = s] = [fs EXCEPT ![f] = [fs[f] EXCEPT !.stage = s]]
  OBVIOUS
<1>4. [fs EXCEPT ![f].stage = s, ![f].step = k] = [fs EXCEPT ![f] = [fs[f] EXCEPT !.stage = s, !.step = k]]
  BY <1>1 DEF SessionFlow
<1>5. [fs[f] EXCEPT !.step = k] = [fs[f] EXCEPT !.stage = fs[f].stage, !.step = k]
  BY <1>1 DEF SessionFlow
<1>6. [fs EXCEPT ![f].step = k] = [fs EXCEPT ![f] = [fs[f] EXCEPT !.step = k]]
  OBVIOUS
<1> QED
  BY <1>2, <1>3, <1>4, <1>5, <1>6 DEF Went

LEMMA SessionFlowIs ==
  ASSUME WritesInv, NEW f \in DOMAIN flows
  PROVE  /\ flows[f] \in SessionFlow
         /\ flows[f].hook \in SessionHooks
         /\ flows[f].args \in SessionArgs
         /\ flows[f].stage \in Stages
         /\ flows[f].step \in StepsOf(flows[f].hook) /\ flows[f].step \in 1..2
         /\ StepsOf(flows[f].hook) = 1..Len(HookOf(f).writes)
<1>1. flows[f] \in SessionFlow
  BY DEF WritesInv
<1>2. flows[f].hook \in SessionHooks
  BY <1>1 DEF SessionFlow
<1>3. StepsOf(flows[f].hook) = 1..Len(HookOf(f).writes)
  BY <1>2, CallsOfHooks DEF HookOf
<1> QED
  BY <1>1, <1>2, <1>3 DEF WritesInv, SessionFlow

(* No flow begins, and none changes its hook or its arguments. *)
Keeps ==
  /\ DOMAIN flows' = DOMAIN flows
  /\ \A f \in DOMAIN flows : flows'[f].hook = flows[f].hook /\ flows'[f].args = flows[f].args

(* What a step of flow f to its write k does to the writes on their way. *)
WritesMove(f, k) ==
  /\ (prompts \cup pending)' \subseteq prompts \cup pending \cup {<<f, k>>}
  /\ mined \cup reverted \cup replaced \subseteq (mined \cup reverted \cup replaced)'
  /\ Sent' \subseteq Sent \cup {<<f, k>>}
  /\ Apart'

LEMMA WritesInvMoves ==
  ASSUME WritesInv, NEW f \in DOMAIN flows, NEW s \in Stages, NEW k \in StepsOf(flows[f].hook),
         flows' = Went(flows, f, s, k), WritesMove(f, k),
         \/ k = flows[f].step
         \/ flows[f].step = 1 /\ k = 2 /\ <<f, 1>> \notin (prompts \cup pending)',
         \/ s \notin {"warming", "connecting"}
         \/ /\ Sent' \subseteq Sent
            /\ (k = 2 /\ flows[f].step = 1) \/ flows[f].stage \in {"warming", "connecting"},
         s \in {"refreshing", "succeeded"} =>
           /\ flows[f].hook \in Approvers => k = 2
           /\ <<f, k>> \in mined \cup reverted \cup replaced
  PROVE  WritesInv' /\ Keeps
<1>1. /\ flows \in Seq(SessionFlow) /\ k \in 1..2
      /\ flows[f].step \in 1..2
  BY SessionFlowIs DEF WritesInv, StepsOf
<1>2. /\ flows' \in Seq(SessionFlow) /\ DOMAIN flows' = DOMAIN flows
      /\ flows'[f].stage = s /\ flows'[f].step = k
      /\ flows'[f].hook = flows[f].hook /\ flows'[f].args = flows[f].args
      /\ \A g \in DOMAIN flows \ {f} : flows'[g] = flows[g]
  BY <1>1, SessionWent
<1>3. ASSUME NEW g \in DOMAIN flows'
      PROVE  /\ flows'[g].step \in StepsOf(flows'[g].hook)
             /\ flows'[g].step = 2 => <<g, 1>> \notin (prompts \cup pending)'
             /\ flows'[g].stage \in {"refreshing", "succeeded"} =>
                  /\ flows'[g].hook \in Approvers => flows'[g].step = 2
                  /\ <<g, flows'[g].step>> \in (mined \cup reverted \cup replaced)'
  <2>1. CASE g = f
    <3>1. k = 2 => <<f, 1>> \notin (prompts \cup pending)'
      <4>1. CASE k = flows[f].step
        <5>1. k = 2 => <<f, 1>> \notin prompts \cup pending
          BY <4>1 DEF WritesInv
        <5>2. k = 2 => <<f, 1>> # <<f, k>>
          OBVIOUS
        <5> QED
          BY <5>1, <5>2 DEF WritesMove
      <4>2. CASE k # flows[f].step
        BY <4>2
      <4> QED
        BY <4>1, <4>2
    <3> QED
      BY <1>2, <2>1, <3>1 DEF WritesMove
  <2>2. CASE g # f
    <3>1. g \in DOMAIN flows /\ flows'[g] = flows[g] /\ <<g, 1>> # <<f, k>>
      BY <1>2, <2>2
    <3>2. /\ flows[g].step \in StepsOf(flows[g].hook)
          /\ flows[g].step = 2 => <<g, 1>> \notin prompts \cup pending
          /\ flows[g].stage \in {"refreshing", "succeeded"} =>
               /\ flows[g].hook \in Approvers => flows[g].step = 2
               /\ <<g, flows[g].step>> \in mined \cup reverted \cup replaced
      BY <3>1 DEF WritesInv
    <3> QED
      BY <3>1, <3>2 DEF WritesMove
  <2> QED
    BY <2>1, <2>2
<1>4. ASSUME NEW t \in Sent'
      PROVE  \E g \in DOMAIN flows' : \E n \in StepsOf(flows'[g].hook) :
               t = <<g, n>> /\ Reached(g, n)'
  <2>1. CASE t \in Sent
    <3>1. PICK g \in DOMAIN flows : \E n \in StepsOf(flows[g].hook) : t = <<g, n>> /\ Reached(g, n)
      BY <2>1 DEF WritesInv
    <3>2. PICK n \in StepsOf(flows[g].hook) : t = <<g, n>> /\ Reached(g, n)
      BY <3>1
    <3>3. n \in 1..2
      BY DEF StepsOf
    <3>4. Reached(g, n)'
      <4>1. CASE g # f
        BY <1>2, <3>2, <4>1 DEF Reached
      <4>2. CASE g = f
        BY <1>1, <1>2, <3>2, <3>3, <4>2 DEF Reached
      <4> QED
        BY <4>1, <4>2
    <3>5. flows'[g].hook = flows[g].hook
      BY <1>2
    <3> QED
      BY <1>2, <3>2, <3>4, <3>5
  <2>2. CASE t \notin Sent
    <3>1. t = <<f, k>> /\ s \notin {"warming", "connecting"}
      BY <1>4, <2>2 DEF WritesMove
    <3>2. Reached(f, k)'
      BY <1>2, <3>1 DEF Reached
    <3> QED
      BY <1>2, <3>1, <3>2
  <2> QED
    BY <2>1, <2>2
<1> QED
  BY <1>2, <1>3, <1>4 DEF WritesInv, WritesMove, Keeps

(* Writes are answered or mined and no flow moves. *)
LEMMA WritesInvStays ==
  ASSUME WritesInv, UNCHANGED flows, (prompts \cup pending)' \subseteq prompts \cup pending,
         mined \cup reverted \cup replaced \subseteq (mined \cup reverted \cup replaced)', Sent' \subseteq Sent, Apart'
  PROVE  WritesInv' /\ Keeps
<1>1. \A f \in DOMAIN flows :
        /\ flows[f].step \in StepsOf(flows[f].hook)
        /\ flows[f].step = 2 => <<f, 1>> \notin (prompts \cup pending)'
        /\ flows[f].stage \in {"refreshing", "succeeded"} =>
             /\ flows[f].hook \in Approvers => flows[f].step = 2
             /\ <<f, flows[f].step>> \in (mined \cup reverted \cup replaced)'
  BY DEF WritesInv
<1>2. \A t \in Sent' :
        \E f \in DOMAIN flows : \E k \in StepsOf(flows[f].hook) : t = <<f, k>> /\ Reached(f, k)
  BY DEF WritesInv
<1> QED
  BY <1>1, <1>2 DEF WritesInv, Reached, Keeps

(* A stage of a flow changes, and no write. *)
LEMMA WritesInvGoes ==
  ASSUME WritesInv, NEW f \in DOMAIN flows, NEW s \in Stages, GoTo(f, s),
         UNCHANGED <<prompts, pending, mined, reverted, replaced>>,
         s # "warming", s = "connecting" => flows[f].stage = "warming",
         s \in {"refreshing", "succeeded"} =>
           /\ flows[f].hook \in Approvers => flows[f].step = 2
           /\ <<f, flows[f].step>> \in mined \cup reverted \cup replaced
  PROVE  WritesInv' /\ Keeps
<1>1. flows' = Went(flows, f, s, flows[f].step)
  BY FormsOfSessionWent DEF GoTo, WritesInv
<1>2. WritesMove(f, flows[f].step) /\ Sent' = Sent
  BY DEF WritesMove, Sent, Apart, WritesInv
<1> QED
  BY <1>1, <1>2, WritesInvMoves, SessionFlowIs

(* The wallet answers a flow that waits for it. *)
LEMMA WritesInvAnswered ==
  ASSUME WritesInv, NEW f \in DOMAIN flows, NEW s \in {"mining", "failed"}, GoTo(f, s),
         (prompts \cup pending)' \subseteq prompts \cup pending,
         mined \cup reverted \cup replaced \subseteq (mined \cup reverted \cup replaced)', Sent' \subseteq Sent, Apart'
  PROVE  WritesInv' /\ Keeps
<1>1. flows' = Went(flows, f, s, flows[f].step)
  BY FormsOfSessionWent DEF GoTo, WritesInv
<1>2. WritesMove(f, flows[f].step)
  BY DEF WritesMove
<1>3. s \in Stages
  BY DEF Stages
<1> QED
  BY <1>1, <1>2, <1>3, WritesInvMoves, SessionFlowIs

(* What was not reached was not written. *)
LEMMA NotReached ==
  ASSUME WritesInv, NEW f \in DOMAIN flows, NEW k, ~Reached(f, k)
  PROVE  <<f, k>> \notin Sent
<1> SUFFICES ASSUME <<f, k>> \in Sent PROVE FALSE
  OBVIOUS
<1>1. PICK g \in DOMAIN flows : \E n \in StepsOf(flows[g].hook) : <<f, k>> = <<g, n>> /\ Reached(g, n)
  BY DEF WritesInv
<1> QED
  BY <1>1

(* The wallet is asked for a write that was not reached. *)
LEMMA WritesInvPrompts ==
  ASSUME WritesInv, NEW f \in DOMAIN flows, NEW k \in StepsOf(flows[f].hook), Prompt(f, k),
         UNCHANGED <<pending, mined, reverted, replaced>>, ~Reached(f, k),
         \/ k = flows[f].step
         \/ flows[f].step = 1 /\ k = 2 /\ <<f, 1>> \notin prompts \cup pending
  PROVE  WritesInv' /\ Keeps
<1>1. flows' = Went(flows, f, "signing", k)
  BY FormsOfSessionWent DEF Prompt, WritesInv
<1>2. prompts' = prompts \cup {<<f, k>>} /\ <<f, k>> \notin Sent
  BY NotReached DEF Prompt
<1>3. WritesMove(f, k)
  BY <1>2 DEF WritesMove, Sent, Apart, WritesInv
<1>4. "signing" \in Stages
  BY DEF Stages
<1>5. <<f, 1>> \notin prompts \cup pending /\ k = 2 => <<f, 1>> \notin (prompts \cup pending)'
  BY <1>2
<1> QED
  BY <1>1, <1>3, <1>4, <1>5, WritesInvMoves

LEMMA WritesInvAdvances == ASSUME WritesInv, NEW f \in DOMAIN flows, Advance(f) PROVE WritesInv' /\ Keeps
<1> DEFINE k == flows[f].step
<1>1. /\ flows[f].hook \in SessionHooks /\ k \in 1..2
      /\ k \in StepsOf(flows[f].hook)
      /\ StepsOf(flows[f].hook) = 1..Len(HookOf(f).writes)
  BY SessionFlowIs
<1>2. CASE Warmed(f)
  <2>1. /\ flows[f].stage = "warming" /\ UNCHANGED <<prompts, pending, mined, reverted, replaced>>
        /\ GoTo(f, "connecting") \/ GoTo(f, "failed")
    BY <1>2 DEF Warmed, AwaitsAt, Fail
  <2> QED
    BY <2>1, WritesInvGoes DEF Stages
<1>3. CASE Connected(f)
  <2>1. flows[f].stage = "connecting" /\ Prompt(f, k) /\ UNCHANGED <<pending, mined, reverted, replaced>>
    BY <1>3 DEF Connected, AwaitsAt
  <2>2. ~Reached(f, k)
    BY <1>1, <2>1 DEF Reached
  <2> QED
    BY <1>1, <2>1, <2>2, WritesInvPrompts
<1>4. CASE NotConnected(f) \/ TimeOut(f) \/ NoReceipt(f)
  <2>1. GoTo(f, "failed") /\ UNCHANGED <<prompts, pending, mined, reverted, replaced>>
    BY <1>4 DEF NotConnected, TimeOut, NoReceipt, Fail
  <2> QED
    BY <2>1, WritesInvGoes DEF Stages
<1>5. CASE Refreshed(f)
  <2>1. /\ flows[f].stage = "refreshing" /\ UNCHANGED <<prompts, pending, mined, reverted, replaced>>
        /\ GoTo(f, "succeeded")
    BY <1>5 DEF Refreshed, AwaitsAt
  <2>2. /\ flows[f].hook \in Approvers => flows[f].step = 2
        /\ <<f, flows[f].step>> \in mined \cup reverted \cup replaced
    BY <2>1 DEF WritesInv
  <2> QED
    BY <2>1, <2>2, WritesInvGoes DEF Stages
<1>6. CASE Receipt(f)
  <2>1. /\ flows[f].stage = "mining" /\ <<f, k>> \in mined \cup reverted \cup replaced
        /\ UNCHANGED <<pending, mined, reverted, replaced>>
    BY <1>6 DEF Receipt, Settled, AwaitsAt
  <2>2. <<f, k>> \notin prompts \cup pending
    BY <2>1 DEF WritesInv, Apart
  <2>3. CASE k < Len(HookOf(f).writes)
    <3>1. k = 1 /\ k + 1 = 2 /\ k + 1 \in StepsOf(flows[f].hook)
      <4>1. StepsOf(flows[f].hook) \subseteq 1..2
        BY DEF StepsOf
      <4>2. Len(HookOf(f).writes) \in StepsOf(flows[f].hook)
        BY <1>1, <2>3 DEF StepsOf
      <4> QED
        BY <1>1, <2>3, <4>1, <4>2
    <3>2. ~Reached(f, k + 1)
      BY <3>1 DEF Reached
    <3>3. CASE HookOf(f).reconnects
      <4>1. flows' = [flows EXCEPT ![f].stage = "connecting", ![f].step = @ + 1] /\ UNCHANGED prompts
        BY <1>6, <2>3, <3>3 DEF Receipt, Settled
      <4>2. flows' = [flows EXCEPT ![f].stage = "connecting", ![f].step = 2]
        BY <3>1, <4>1
      <4>3. flows' = Went(flows, f, "connecting", 2)
        BY <4>2, FormsOfSessionWent DEF WritesInv
      <4>4. WritesMove(f, 2) /\ Sent' = Sent
        <5>1. UNCHANGED <<prompts, pending, mined, reverted, replaced>> /\ Apart
          BY <2>1, <4>1 DEF WritesInv
        <5> QED
          BY <5>1 DEF WritesMove, Sent, Apart
      <4>5. "connecting" \in Stages
        BY DEF Stages
      <4> QED
        BY <2>1, <2>2, <3>1, <4>1, <4>3, <4>4, <4>5, WritesInvMoves
    <3>4. CASE ~HookOf(f).reconnects
      <4>1. CASE Prompt(f, k + 1)
        BY <2>1, <2>2, <3>1, <3>2, <4>1, WritesInvPrompts
      <4>2. CASE GoTo(f, "failed") /\ UNCHANGED prompts
        BY <2>1, <4>2, WritesInvGoes DEF Stages
      <4> QED
        BY <1>6, <2>3, <3>4, <4>1, <4>2 DEF Receipt, Settled, Fail
    <3> QED
      BY <3>3, <3>4
  <2>4. CASE ~(k < Len(HookOf(f).writes))
    <3>1. flows[f].hook \in Approvers => k = 2
      <4>1. flows[f].hook \in Approvers => StepsOf(flows[f].hook) = 1..2
        BY DEF StepsOf, TwoWrites
      <4>2. flows[f].hook \in Approvers => 2 \in 1..Len(HookOf(f).writes)
        BY <1>1, <4>1
      <4> QED
        BY <1>1, <2>4, <4>2
    <3>2. UNCHANGED prompts /\ (GoTo(f, "failed") \/ GoTo(f, "refreshing"))
      BY <1>6, <2>4 DEF Receipt, Settled, Fail
    <3> QED
      BY <2>1, <3>1, <3>2, WritesInvGoes DEF Stages
  <2> QED
    BY <2>3, <2>4
<1> QED
  BY <1>2, <1>3, <1>4, <1>5, <1>6 DEF Advance

(* What the wallet answers, and what is mined. *)
LEMMA SignOffChainInv ==
  ASSUME WritesInv, NEW t \in prompts, SignOffChain(t)
  PROVE  WritesInv' /\ Keeps
<1>1. t \in Sent
  BY DEF Sent
<1>2. PICK f \in DOMAIN flows : \E k \in StepsOf(flows[f].hook) : t = <<f, k>> /\ Reached(f, k)
  BY <1>1 DEF WritesInv
<1>3. PICK k \in StepsOf(flows[f].hook) : t = <<f, k>> /\ Reached(f, k)
  BY <1>2
<1>4. t[1] = f /\ t[2] = k
  BY <1>3
<1>5. k = 1 /\ flows[f].hook = "supplyBundle"
  <2>1. IsCall(flows[f].hook, k, HookOf(f).writes[k].call)
    BY SessionFlowIs, CallsOfHooks DEF HookOf
  <2>2. HookOf(f).writes[k].call = "signPermit"
    BY <1>4 DEF SignOffChain, CallOf, OffChain
  <2> QED
    BY <2>1, <2>2 DEF IsCall
<1>6. UNCHANGED <<pending, mined, reverted, replaced>> /\ Apart
  BY DEF SignOffChain, WritesInv
<1>7. CASE ~Awaited(t, "signing")
  <2>1. UNCHANGED flows /\ prompts' \subseteq prompts
    BY <1>7 DEF SignOffChain
  <2> QED
    BY <1>6, <2>1, WritesInvStays DEF Sent, Apart
<1>8. CASE Awaited(t, "signing")
  <2>1. flows[f].stage = "signing" /\ flows[f].step = 1
    BY <1>4, <1>5, <1>8 DEF Awaited, AwaitsAt
  <2>2. CASE network = HookOf(f).chain
    <3>1. /\ flows' = [flows EXCEPT ![f].step = 2]
          /\ prompts' = (prompts \ {<<f, 1>>}) \cup {<<f, 2>>}
      BY <1>3, <1>4, <1>5, <1>8, <2>2 DEF SignOffChain
    <3>2. flows' = Went(flows, f, "signing", 2)
      <4>1. flows \in Seq(SessionFlow)
        BY DEF WritesInv
      <4>2. [flows EXCEPT ![f].step = 2] = Went(flows, f, flows[f].stage, 2)
        BY <4>1, FormsOfSessionWent
      <4> QED
        BY <2>1, <3>1, <4>2
    <3>3. <<f, 2>> \notin Sent
      BY <2>1, NotReached DEF Reached
    <3>4. WritesMove(f, 2)
      BY <1>6, <3>1, <3>3 DEF WritesMove, Sent, Apart
    <3>5. "signing" \in Stages /\ 2 \in StepsOf(flows[f].hook)
      BY <1>5 DEF Stages, StepsOf, TwoWrites
    <3>6. <<f, 1>> \notin (prompts \cup pending)'
      BY <1>3, <1>5, <1>6, <3>1 DEF Apart
    <3> QED
      BY <2>1, <3>2, <3>4, <3>5, <3>6, WritesInvMoves
  <2>3. CASE network # HookOf(f).chain
    <3>1. GoTo(f, "failed") /\ prompts' = prompts \ {t}
      BY <1>4, <1>8, <2>3 DEF SignOffChain, Fail
    <3> QED
      BY <1>6, <3>1, WritesInvAnswered DEF Sent, Apart
  <2> QED
    BY <2>2, <2>3
<1> QED
  BY <1>7, <1>8

LEMMA AnswerInv ==
  ASSUME WritesInv, NEW t \in prompts, Sign(t) \/ Reject(t)
  PROVE  WritesInv' /\ Keeps
<1>1. Apart
  BY DEF WritesInv
<1>2. /\ (prompts \cup pending)' \subseteq prompts \cup pending /\ UNCHANGED <<mined, reverted, replaced>>
      /\ Sent' \subseteq Sent /\ Apart'
  BY <1>1 DEF Sign, Reject, Sent, Apart
<1>3. CASE Awaited(t, "signing")
  <2>1. t[1] \in DOMAIN flows /\ (GoTo(t[1], "mining") \/ GoTo(t[1], "failed"))
    BY <1>3 DEF Sign, Reject, Fail, Awaited, AwaitsAt
  <2> QED
    BY <1>2, <2>1, WritesInvAnswered
<1>4. CASE ~Awaited(t, "signing")
  <2>1. UNCHANGED flows
    BY <1>4 DEF Sign, Reject
  <2> QED
    BY <1>2, <2>1, WritesInvStays
<1> QED
  BY <1>3, <1>4

LEMMA MinedInv == ASSUME WritesInv, NEW t, NEW executes, MinedAs(t, executes) PROVE WritesInv' /\ Keeps
<1>1. Apart
  BY DEF WritesInv
<1>2. /\ (prompts \cup pending)' \subseteq prompts \cup pending
      /\ mined \cup reverted \cup replaced \subseteq (mined \cup reverted \cup replaced)'
      /\ Sent' \subseteq Sent /\ Apart' /\ UNCHANGED flows
  BY <1>1 DEF MinedAs, Sent, Apart
<1> QED
  BY <1>2, WritesInvStays

(* A click, and a reload of the tab. *)
LEMMA ClickWritesInv ==
  ASSUME WritesInv, NEW h \in SessionHooks, NEW args \in SessionArgs, Click(h, args)
  PROVE  /\ WritesInv' /\ Len(flows) \in Nat
         /\ DOMAIN flows' = DOMAIN flows \cup {Len(flows) + 1} /\ Len(flows) + 1 \notin DOMAIN flows
         /\ flows'[Len(flows) + 1].hook = h /\ flows'[Len(flows) + 1].args = args
         /\ \A g \in DOMAIN flows : flows'[g] = flows[g]
         /\ UNCHANGED <<prompts, pending, mined, reverted, replaced>>
<1> DEFINE r == [hook |-> h, args |-> args, stage |-> "warming", step |-> 1]
           n == Len(flows) + 1
<1>1. flows' = Append(flows, r) /\ UNCHANGED <<prompts, pending, mined, reverted, replaced>>
  BY DEF Click, Start
<1>2. r \in SessionFlow /\ r.hook = h /\ r.args = args /\ r.stage = "warming" /\ r.step = 1
  BY DEF SessionFlow, Stages
<1> HIDE DEF r
<1>3. flows \in Seq(SessionFlow) /\ Len(flows) \in Nat /\ DOMAIN flows = 1..Len(flows)
  BY DEF WritesInv
<1>4. /\ flows' \in Seq(SessionFlow) /\ DOMAIN flows' = DOMAIN flows \cup {n}
      /\ n \notin DOMAIN flows /\ flows'[n] = r
      /\ \A g \in DOMAIN flows : flows'[g] = flows[g]
  BY <1>1, <1>2, <1>3, AppendProperties
<1> HIDE DEF n
<1>5. ASSUME NEW g \in DOMAIN flows'
      PROVE  /\ flows'[g].step \in StepsOf(flows'[g].hook)
             /\ flows'[g].step = 2 => <<g, 1>> \notin prompts \cup pending
             /\ flows'[g].stage \in {"refreshing", "succeeded"} =>
                  /\ flows'[g].hook \in Approvers => flows'[g].step = 2
                  /\ <<g, flows'[g].step>> \in mined \cup reverted \cup replaced
  <2>1. CASE g = n
    BY <1>2, <1>4, <2>1 DEF StepsOf
  <2>2. CASE g # n
    BY <1>4, <2>2 DEF WritesInv
  <2> QED
    BY <2>1, <2>2
<1>6. ASSUME NEW t \in Sent
      PROVE  \E g \in DOMAIN flows' : \E k \in StepsOf(flows'[g].hook) : t = <<g, k>> /\ Reached(g, k)'
  <2>1. PICK g \in DOMAIN flows : \E k \in StepsOf(flows[g].hook) : t = <<g, k>> /\ Reached(g, k)
    BY DEF WritesInv
  <2> QED
    BY <1>4, <2>1 DEF Reached
<1>7. Sent' = Sent /\ Apart'
  BY <1>1 DEF Sent, Apart, WritesInv
<1>8. WritesInv'
  BY <1>1, <1>4, <1>5, <1>6, <1>7 DEF WritesInv
<1> QED
  BY <1>1, <1>2, <1>3, <1>4, <1>8 DEF n

LEMMA ReloadWritesInv ==
  ASSUME WritesInv, Reload
  PROVE  WritesInv' /\ Keeps
<1> DEFINE after(f) == IF flows[f].stage \in Ended THEN flows[f]
                       ELSE [flows[f] EXCEPT !.stage = "gone"]
<1>1. flows' = [f \in DOMAIN flows |-> after(f)] /\ UNCHANGED <<prompts, pending, mined, reverted, replaced>>
  BY DEF Reload
<1>2. DOMAIN flows = 1..Len(flows) /\ Len(flows) \in Nat
  BY DEF WritesInv
<1>3. ASSUME NEW f \in DOMAIN flows
      PROVE  /\ after(f) \in SessionFlow
             /\ after(f).hook = flows[f].hook /\ after(f).args = flows[f].args
             /\ after(f).step = flows[f].step
             /\ after(f).stage \notin {"warming", "connecting"}
             /\ after(f).stage \in {"refreshing", "succeeded"} => after(f).stage = flows[f].stage
  BY SessionFlowIs DEF SessionFlow, Stages, Ended
<1> HIDE DEF after
<1>4. flows' \in [1..Len(flows) -> SessionFlow]
  BY <1>1, <1>2, <1>3
<1>5. flows' \in Seq(SessionFlow) /\ DOMAIN flows' = DOMAIN flows
  BY <1>1, <1>2, <1>4
<1>6. \A f \in DOMAIN flows :
        /\ flows'[f].hook = flows[f].hook /\ flows'[f].args = flows[f].args
        /\ flows'[f].step = flows[f].step
        /\ flows'[f].stage \notin {"warming", "connecting"}
        /\ flows'[f].stage \in {"refreshing", "succeeded"} => flows'[f].stage = flows[f].stage
  BY <1>1, <1>3
<1>7. \A t \in Sent :
        \E g \in DOMAIN flows' : \E k \in StepsOf(flows'[g].hook) : t = <<g, k>> /\ Reached(g, k)'
  BY <1>5, <1>6 DEF WritesInv, Reached
<1>8. Sent' = Sent /\ Apart'
  BY <1>1 DEF Sent, Apart, WritesInv
<1>9. WritesInv'
  BY <1>1, <1>5, <1>6, <1>7, <1>8 DEF WritesInv
<1> QED
  BY <1>5, <1>6, <1>9 DEF Keeps

-----------------------------------------------------------------------------
(* The arithmetic. *)
LEMMA QuotientIsNat ==
  ASSUME NEW a \in Nat, NEW b \in Nat, b > 0
  PROVE  a \div b \in Nat
OBVIOUS

LEMMA ProductGrows ==
  ASSUME NEW a \in Nat, NEW x \in Nat, NEW y \in Nat, x <= y
  PROVE  a * x \in Nat /\ a * y \in Nat /\ a * x <= a * y
<1>1. PICK d \in Nat : y = x + d
  <2>1. y - x \in Nat /\ y = x + (y - x)
    OBVIOUS
  <2> QED
    BY <2>1
<1>2. a * y = a * x + a * d /\ a * d \in Nat /\ a * x \in Nat
  BY <1>1
<1> QED
  BY <1>2

(* A quotient rounded up is no less than what its product bounds, and one   *)
(* rounded down no more.                                                    *)
LEMMA RoundedUp ==
  ASSUME NEW s \in Nat, NEW d \in Nat
  PROVE  /\ CeilDiv(s, 1000) \in Nat
         /\ d * 1000 <= s => d <= CeilDiv(s, 1000)
BY DEF CeilDiv

LEMMA RepaidIs ==
  ASSUME WalletInv, NEW a \in SessionArgs
  PROVE  /\ Repaid(a).assets \in Nat /\ Repaid(a).shares \in Nat
         /\ a.full => /\ Repaid(a).assets = CeilDiv(a.shares * w.index, 1000)
                      /\ Repaid(a).shares = a.shares
         /\ ~a.full => Repaid(a).assets = a.amount
         /\ a.full /\ a.debt \in Nat /\ a.debt * 1000 <= a.shares * w.index =>
              a.debt <= Repaid(a).assets
<1>1. /\ w.index \in Nat /\ w.index > 0
      /\ a.amount \in Nat /\ a.shares \in Nat /\ a.full \in BOOLEAN
  BY DEF WalletInv, Balances, SessionArgs
<1>2. a.shares * w.index \in Nat
  BY <1>1, ProductGrows
<1>3. CASE a.full
  BY <1>1, <1>2, <1>3, RoundedUp DEF Repaid
<1>4. CASE ~a.full
  <2>1. (a.amount * 1000) \div w.index \in Nat
    BY <1>1, QuotientIsNat
  <2> QED
    BY <1>1, <1>4, <2>1 DEF Repaid
<1> QED
  BY <1>3, <1>4

LEMMA ApprovalIs ==
  ASSUME NEW a \in SessionArgs
  PROVE  /\ Approval(a) \in Int
         /\ ~a.full => Approval(a) = a.amount
         /\ a.full /\ a.debt \in Nat => (Approval(a) - a.debt) * 1000 <= a.debt
         /\ a.full /\ a.debt \in Nat =>
              \A d \in Nat : d * 1000 <= a.debt * 1001 => d <= Approval(a)
<1>1. a.amount \in Nat /\ a.debt \in Int /\ a.full \in BOOLEAN
  BY DEF SessionArgs
<1> QED
  BY <1>1 DEF Approval

-----------------------------------------------------------------------------
(* What a mined transaction does to the wallet. *)
LEMMA CalledBy ==
  ASSUME WritesInv, NEW t \in Sent
  PROVE  /\ t[1] \in DOMAIN flows /\ t[2] \in StepsOf(flows[t[1]].hook)
         /\ t = <<t[1], t[2]>> /\ Reached(t[1], t[2])
         /\ IsCall(flows[t[1]].hook, t[2], CallOf(t))
         /\ ArgsOf(t) = flows[t[1]].args /\ ArgsOf(t) \in SessionArgs
<1>1. PICK f \in DOMAIN flows : \E k \in StepsOf(flows[f].hook) : t = <<f, k>> /\ Reached(f, k)
  BY DEF WritesInv
<1>2. PICK k \in StepsOf(flows[f].hook) : t = <<f, k>> /\ Reached(f, k)
  BY <1>1
<1>3. t[1] = f /\ t[2] = k
  BY <1>2
<1>4. IsCall(flows[f].hook, k, CallOf(t))
  BY <1>3, SessionFlowIs, CallsOfHooks DEF CallOf, HookOf
<1> QED
  BY <1>2, <1>3, <1>4, SessionFlowIs DEF ArgsOf

LEMMA AfterIs ==
  ASSUME WalletInv, NEW t, ArgsOf(t) \in SessionArgs,
         NEW h, NEW k, IsCall(h, k, CallOf(t)), CallOf(t) # "signPermit"
  PROVE  /\ After(t) \in [Balances -> Int]
         /\ After(t).index = w.index
         /\ After(t).lockerAllowance =
              CASE CallOf(t) = "approveUSDY" -> ArgsOf(t).amount
                [] CallOf(t) = "lock" -> w.lockerAllowance - ArgsOf(t).amount
                [] OTHER -> w.lockerAllowance
         /\ After(t).acAllowance =
              CASE CallOf(t) = "approveAcUSDY" -> ArgsOf(t).amount
                [] CallOf(t) = "supplyCollateral" -> w.acAllowance - ArgsOf(t).amount
                [] OTHER -> w.acAllowance
         /\ After(t).usdcAllowance =
              CASE CallOf(t) = "approveUSDC" -> Approval(ArgsOf(t))
                [] CallOf(t) = "repay" -> w.usdcAllowance - Repaid(ArgsOf(t)).assets
                [] CallOf(t) = "supply" -> w.usdcAllowance - ArgsOf(t).amount
                [] OTHER -> w.usdcAllowance
<1> DEFINE a == ArgsOf(t)
           n == a.amount
           r == Repaid(a)
           call == CallOf(t)
<1>1. w \in [Balances -> Nat] /\ w.index > 0
  BY DEF WalletInv
<1>2. n \in Nat /\ r.assets \in Nat /\ r.shares \in Nat /\ Approval(a) \in Int
  BY RepaidIs, ApprovalIs DEF SessionArgs
<1>3. CeilDiv(n * 1000, w.index) \in Nat
  <2>1. w.index \in Nat
    BY <1>1 DEF Balances
  <2>2. n * 1000 + w.index - 1 \in Nat
    BY <1>1, <1>2, <2>1
  <2> QED
    BY <1>1, <2>1, <2>2, QuotientIsNat DEF CeilDiv
<1> DEFINE owes == CeilDiv(n * 1000, w.index)
           give == Approval(a)
           assets == r.assets
           shares == r.shares
<1>4. After(t) =
        CASE call = "approveUSDY" -> [w EXCEPT !.lockerAllowance = n]
          [] call = "lock" ->
               [w EXCEPT !.usdy = @ - n, !.lockerAllowance = @ - n, !.locked = @ + n]
          [] call = "approveAcUSDY" -> [w EXCEPT !.acAllowance = n]
          [] call = "supplyCollateral" ->
               [w EXCEPT !.acusdy = @ - n, !.acAllowance = @ - n, !.posted = @ + n]
          [] call = "withdrawCollateral" -> [w EXCEPT !.posted = @ - n, !.acusdy = @ + n]
          [] call = "borrow" -> [w EXCEPT !.shares = @ + owes, !.usdc = @ + n]
          [] call = "approveUSDC" -> [w EXCEPT !.usdcAllowance = give]
          [] call = "repay" ->
               [w EXCEPT !.usdc = @ - assets, !.usdcAllowance = @ - assets, !.shares = @ - shares]
          [] call = "supply" ->
               [w EXCEPT !.usdc = @ - n, !.usdcAllowance = @ - n, !.supplied = @ + n]
          [] call = "withdraw" -> [w EXCEPT !.supplied = @ - n, !.usdc = @ + n]
          [] call = "multicall" ->
               [w EXCEPT !.usdc = @ - n, !.supplied = @ + n, !.nonce = @ + 1]
  BY DEF After
<1>5. n \in Nat /\ assets \in Nat /\ shares \in Nat /\ give \in Int /\ owes \in Nat
  BY <1>2, <1>3
<1>6. /\ n = ArgsOf(t).amount /\ assets = Repaid(ArgsOf(t)).assets
      /\ give = Approval(ArgsOf(t)) /\ call = CallOf(t)
  OBVIOUS
<1>7. call \in {"approveUSDY", "lock", "approveAcUSDY", "supplyCollateral", "withdrawCollateral",
                "borrow", "approveUSDC", "repay", "supply", "withdraw", "multicall"}
  BY DEF IsCall
<1> HIDE DEF a, n, r, call, owes, give, assets, shares
<1>8. CASE call = "approveUSDY"
  <2>1. After(t) = [w EXCEPT !.lockerAllowance = n]
    BY <1>4, <1>8
  <2> QED
    BY <1>1, <1>5, <1>6, <1>8, <2>1 DEF Balances
<1>9. CASE call = "lock"
  <2>1. After(t) = [w EXCEPT !.usdy = @ - n, !.lockerAllowance = @ - n, !.locked = @ + n]
    BY <1>4, <1>9
  <2>2. After(t) \in [Balances -> Int]
    <3>1. DOMAIN After(t) = Balances /\ After(t) = [b \in Balances |-> After(t)[b]]
      BY <1>1, <2>1 DEF Balances
    <3>2. \A b \in Balances : w[b] \in Int
      BY <1>1
    <3>3. After(t).usdy \in Int /\ After(t).lockerAllowance \in Int /\ After(t).locked \in Int
      BY <1>1, <1>5, <2>1 DEF Balances
    <3>4. \A b \in Balances \ {"usdy", "lockerAllowance", "locked"} : After(t)[b] = w[b]
      BY <1>1, <2>1
    <3> QED
      BY <3>1, <3>2, <3>3, <3>4
  <2>3. /\ After(t).index = w.index /\ After(t).lockerAllowance = w.lockerAllowance - n
        /\ After(t).acAllowance = w.acAllowance /\ After(t).usdcAllowance = w.usdcAllowance
    BY <1>1, <2>1 DEF Balances
  <2> QED
    BY <1>6, <1>9, <2>2, <2>3
<1>10. CASE call = "approveAcUSDY"
  <2>1. After(t) = [w EXCEPT !.acAllowance = n]
    BY <1>4, <1>10
  <2> QED
    BY <1>1, <1>5, <1>6, <1>10, <2>1 DEF Balances
<1>11. CASE call = "supplyCollateral"
  <2>1. After(t) = [w EXCEPT !.acusdy = @ - n, !.acAllowance = @ - n, !.posted = @ + n]
    BY <1>4, <1>11
  <2>2. After(t) \in [Balances -> Int]
    <3>1. DOMAIN After(t) = Balances /\ After(t) = [b \in Balances |-> After(t)[b]]
      BY <1>1, <2>1 DEF Balances
    <3>2. \A b \in Balances : w[b] \in Int
      BY <1>1
    <3>3. After(t).acusdy \in Int /\ After(t).acAllowance \in Int /\ After(t).posted \in Int
      BY <1>1, <1>5, <2>1 DEF Balances
    <3>4. \A b \in Balances \ {"acusdy", "acAllowance", "posted"} : After(t)[b] = w[b]
      BY <1>1, <2>1
    <3> QED
      BY <3>1, <3>2, <3>3, <3>4
  <2>3. /\ After(t).index = w.index /\ After(t).lockerAllowance = w.lockerAllowance
        /\ After(t).acAllowance = w.acAllowance - n /\ After(t).usdcAllowance = w.usdcAllowance
    BY <1>1, <2>1 DEF Balances
  <2> QED
    BY <1>6, <1>11, <2>2, <2>3
<1>12. CASE call = "withdrawCollateral"
  <2>1. After(t) = [w EXCEPT !.posted = @ - n, !.acusdy = @ + n]
    BY <1>4, <1>12
  <2>2. After(t) \in [Balances -> Int]
    <3>1. DOMAIN After(t) = Balances /\ After(t) = [b \in Balances |-> After(t)[b]]
      BY <1>1, <2>1 DEF Balances
    <3>2. \A b \in Balances : w[b] \in Int
      BY <1>1
    <3>3. After(t).posted \in Int /\ After(t).acusdy \in Int
      BY <1>1, <1>5, <2>1 DEF Balances
    <3>4. \A b \in Balances \ {"posted", "acusdy"} : After(t)[b] = w[b]
      BY <1>1, <2>1
    <3> QED
      BY <3>1, <3>2, <3>3, <3>4
  <2>3. /\ After(t).index = w.index /\ After(t).lockerAllowance = w.lockerAllowance
        /\ After(t).acAllowance = w.acAllowance /\ After(t).usdcAllowance = w.usdcAllowance
    BY <1>1, <2>1 DEF Balances
  <2> QED
    BY <1>6, <1>12, <2>2, <2>3
<1>13. CASE call = "borrow"
  <2>1. After(t) = [w EXCEPT !.shares = @ + owes, !.usdc = @ + n]
    BY <1>4, <1>13
  <2>2. After(t) \in [Balances -> Int]
    <3>1. DOMAIN After(t) = Balances /\ After(t) = [b \in Balances |-> After(t)[b]]
      BY <1>1, <2>1 DEF Balances
    <3>2. \A b \in Balances : w[b] \in Int
      BY <1>1
    <3>3. After(t).shares \in Int /\ After(t).usdc \in Int
      BY <1>1, <1>5, <2>1 DEF Balances
    <3>4. \A b \in Balances \ {"shares", "usdc"} : After(t)[b] = w[b]
      BY <1>1, <2>1
    <3> QED
      BY <3>1, <3>2, <3>3, <3>4
  <2>3. /\ After(t).index = w.index /\ After(t).lockerAllowance = w.lockerAllowance
        /\ After(t).acAllowance = w.acAllowance /\ After(t).usdcAllowance = w.usdcAllowance
    BY <1>1, <2>1 DEF Balances
  <2> QED
    BY <1>6, <1>13, <2>2, <2>3
<1>14. CASE call = "approveUSDC"
  <2>1. After(t) = [w EXCEPT !.usdcAllowance = give]
    BY <1>4, <1>14
  <2> QED
    BY <1>1, <1>5, <1>6, <1>14, <2>1 DEF Balances
<1>15. CASE call = "repay"
  <2>1. After(t) = [w EXCEPT !.usdc = @ - assets, !.usdcAllowance = @ - assets, !.shares = @ - shares]
    BY <1>4, <1>15
  <2>2. After(t) \in [Balances -> Int]
    <3>1. DOMAIN After(t) = Balances /\ After(t) = [b \in Balances |-> After(t)[b]]
      BY <1>1, <2>1 DEF Balances
    <3>2. \A b \in Balances : w[b] \in Int
      BY <1>1
    <3>3. After(t).usdc \in Int /\ After(t).usdcAllowance \in Int /\ After(t).shares \in Int
      BY <1>1, <1>5, <2>1 DEF Balances
    <3>4. \A b \in Balances \ {"usdc", "usdcAllowance", "shares"} : After(t)[b] = w[b]
      BY <1>1, <2>1
    <3> QED
      BY <3>1, <3>2, <3>3, <3>4
  <2>3. /\ After(t).index = w.index /\ After(t).lockerAllowance = w.lockerAllowance
        /\ After(t).acAllowance = w.acAllowance /\ After(t).usdcAllowance = w.usdcAllowance - assets
    BY <1>1, <2>1 DEF Balances
  <2> QED
    BY <1>6, <1>15, <2>2, <2>3
<1>16. CASE call = "supply"
  <2>1. After(t) = [w EXCEPT !.usdc = @ - n, !.usdcAllowance = @ - n, !.supplied = @ + n]
    BY <1>4, <1>16
  <2>2. After(t) \in [Balances -> Int]
    <3>1. DOMAIN After(t) = Balances /\ After(t) = [b \in Balances |-> After(t)[b]]
      BY <1>1, <2>1 DEF Balances
    <3>2. \A b \in Balances : w[b] \in Int
      BY <1>1
    <3>3. After(t).usdc \in Int /\ After(t).usdcAllowance \in Int /\ After(t).supplied \in Int
      BY <1>1, <1>5, <2>1 DEF Balances
    <3>4. \A b \in Balances \ {"usdc", "usdcAllowance", "supplied"} : After(t)[b] = w[b]
      BY <1>1, <2>1
    <3> QED
      BY <3>1, <3>2, <3>3, <3>4
  <2>3. /\ After(t).index = w.index /\ After(t).lockerAllowance = w.lockerAllowance
        /\ After(t).acAllowance = w.acAllowance /\ After(t).usdcAllowance = w.usdcAllowance - n
    BY <1>1, <2>1 DEF Balances
  <2> QED
    BY <1>6, <1>16, <2>2, <2>3
<1>17. CASE call = "withdraw"
  <2>1. After(t) = [w EXCEPT !.supplied = @ - n, !.usdc = @ + n]
    BY <1>4, <1>17
  <2>2. After(t) \in [Balances -> Int]
    <3>1. DOMAIN After(t) = Balances /\ After(t) = [b \in Balances |-> After(t)[b]]
      BY <1>1, <2>1 DEF Balances
    <3>2. \A b \in Balances : w[b] \in Int
      BY <1>1
    <3>3. After(t).supplied \in Int /\ After(t).usdc \in Int
      BY <1>1, <1>5, <2>1 DEF Balances
    <3>4. \A b \in Balances \ {"supplied", "usdc"} : After(t)[b] = w[b]
      BY <1>1, <2>1
    <3> QED
      BY <3>1, <3>2, <3>3, <3>4
  <2>3. /\ After(t).index = w.index /\ After(t).lockerAllowance = w.lockerAllowance
        /\ After(t).acAllowance = w.acAllowance /\ After(t).usdcAllowance = w.usdcAllowance
    BY <1>1, <2>1 DEF Balances
  <2> QED
    BY <1>6, <1>17, <2>2, <2>3
<1>18. CASE call = "multicall"
  <2>1. After(t) = [w EXCEPT !.usdc = @ - n, !.supplied = @ + n, !.nonce = @ + 1]
    BY <1>4, <1>18
  <2>2. After(t) \in [Balances -> Int]
    <3>1. DOMAIN After(t) = Balances /\ After(t) = [b \in Balances |-> After(t)[b]]
      BY <1>1, <2>1 DEF Balances
    <3>2. \A b \in Balances : w[b] \in Int
      BY <1>1
    <3>3. After(t).usdc \in Int /\ After(t).supplied \in Int /\ After(t).nonce \in Int
      BY <1>1, <1>5, <2>1 DEF Balances
    <3>4. \A b \in Balances \ {"usdc", "supplied", "nonce"} : After(t)[b] = w[b]
      BY <1>1, <2>1
    <3> QED
      BY <3>1, <3>2, <3>3, <3>4
  <2>3. /\ After(t).index = w.index /\ After(t).lockerAllowance = w.lockerAllowance
        /\ After(t).acAllowance = w.acAllowance /\ After(t).usdcAllowance = w.usdcAllowance
    BY <1>1, <2>1 DEF Balances
  <2> QED
    BY <1>6, <1>18, <2>2, <2>3
<1> QED
  BY <1>7, <1>8, <1>9, <1>10, <1>11, <1>12, <1>13, <1>14, <1>15, <1>16, <1>17, <1>18

-----------------------------------------------------------------------------
(* An allowance when a transaction executes: the approval of a flow whose   *)
(* spending is still to come, or less than before.                          *)
LEMMA AllowanceMoves ==
  ASSUME WritesInv, NEW t \in pending, UNCHANGED flows, mined' = mined \cup {t},
         NEW hooks, NEW gives \in [DOMAIN flows -> Int], NEW a \in Nat, NEW b \in Nat,
         \/ flows[t[1]].hook \in hooks /\ t[2] = 1 /\ b <= gives[t[1]]
         \/ /\ b <= a
            /\ a = 0 \/ \E f \in DOMAIN flows : Unspent(f, hooks) /\ a <= gives[f]
            /\ flows[t[1]].hook \in hooks /\ t[2] = 2 /\ a <= gives[t[1]] => b = 0
  PROVE  b = 0 \/ \E f \in DOMAIN flows : Unspent(f, hooks)' /\ b <= gives[f]
<1>1. /\ t[1] \in DOMAIN flows /\ t = <<t[1], t[2]>>
  BY CalledBy DEF Sent
<1>2. CASE flows[t[1]].hook \in hooks /\ t[2] = 1 /\ b <= gives[t[1]]
  <2>1. flows[t[1]].step = 1
    <3>1. <<t[1], t[2]>> \in pending /\ t[2] = 1
      BY <1>1, <1>2
    <3>2. <<t[1], 1>> \in pending
      BY <3>1
    <3>3. flows[t[1]].step = 2 => <<t[1], 1>> \notin pending
      BY <1>1 DEF WritesInv
    <3>4. flows[t[1]].step \in 1..2
      BY <1>1, SessionFlowIs
    <3> QED
      BY <3>2, <3>3, <3>4
  <2>2. <<t[1], 2>> \notin Sent
    BY <1>1, <2>1, NotReached DEF Reached
  <2>3. <<t[1], 2>> \notin mined'
    BY <1>1, <1>2, <2>2 DEF Sent
  <2> QED
    BY <1>1, <1>2, <2>3 DEF Unspent
<1>3. CASE /\ b <= a
           /\ a = 0 \/ \E f \in DOMAIN flows : Unspent(f, hooks) /\ a <= gives[f]
           /\ flows[t[1]].hook \in hooks /\ t[2] = 2 /\ a <= gives[t[1]] => b = 0
  <2>1. CASE a = 0
    BY <1>3, <2>1
  <2>2. CASE a # 0
    <3>1. PICK f \in DOMAIN flows : Unspent(f, hooks) /\ a <= gives[f]
      BY <1>3, <2>2
    <3>2. CASE t = <<f, 2>>
      <4>1. t[1] = f /\ t[2] = 2
        BY <3>2
      <4> QED
        BY <1>3, <3>1, <4>1 DEF Unspent
    <3>3. CASE t # <<f, 2>>
      <4>1. Unspent(f, hooks)'
        BY <3>1, <3>3 DEF Unspent
      <4>2. gives[f] \in Int
        OBVIOUS
      <4> QED
        BY <1>3, <3>1, <4>1, <4>2
    <3> QED
      BY <3>2, <3>3
  <2> QED
    BY <2>1, <2>2
<1> QED
  BY <1>2, <1>3

LEMMA MinedWallet ==
  ASSUME SessionInv, NEW t \in pending, Executes(t), w' = After(t),
         mined' = mined \cup {t}, UNCHANGED <<flows, seen>>
  PROVE  w' \in [Balances -> Nat] /\ w'.index = w.index /\ WalletInv' /\ FullInv'
<1> DEFINE f == t[1]
           call == CallOf(t)
           a == ArgsOf(t)
<1>1. /\ f \in DOMAIN flows /\ t[2] \in StepsOf(flows[f].hook)
      /\ IsCall(flows[f].hook, t[2], call)
      /\ a = flows[f].args /\ a \in SessionArgs
  BY CalledBy DEF Sent, SessionInv
<1>2. call # "signPermit"
  BY DEF SessionInv, SignedInv, OffChain
<1>3. After(t) \in [Balances -> Int] /\ After(t).index = w.index
  BY <1>1, <1>2, AfterIs DEF SessionInv
<1> HIDE DEF f, call, a
<1>4. w' \in [Balances -> Nat] /\ w \in [Balances -> Nat] /\ w'.index = w.index
  <2>1. \A b \in Balances : After(t)[b] \in Int /\ After(t)[b] >= 0
    BY <1>3 DEF Executes
  <2>2. After(t) \in [Balances -> Nat]
    BY <1>3, <2>1
  <2> QED
    BY <1>3, <2>2 DEF SessionInv, WalletInv
<1>5. WalletInv'
  BY <1>4 DEF SessionInv, WalletInv
<1>6. FullInv'
  BY <1>4 DEF SessionInv, FullInv
<1> QED
  BY <1>4, <1>5, <1>6

LEMMA MinedAllowances ==
  ASSUME SessionInv, AllowedInv, NEW t \in pending, Executes(t), w' = After(t),
         mined' = mined \cup {t}, UNCHANGED <<flows, seen>>
  PROVE  AllowedInv'
<1> DEFINE f == t[1]
           call == CallOf(t)
           a == ArgsOf(t)
<1>1. /\ f \in DOMAIN flows /\ t[2] \in StepsOf(flows[f].hook)
      /\ IsCall(flows[f].hook, t[2], call)
      /\ a = flows[f].args /\ a \in SessionArgs
  BY CalledBy DEF Sent, SessionInv
<1>2. call # "signPermit"
  BY DEF SessionInv, SignedInv, OffChain
<1>3. /\ After(t) \in [Balances -> Int]
      /\ After(t).index = w.index
      /\ After(t).lockerAllowance =
           CASE call = "approveUSDY" -> a.amount
             [] call = "lock" -> w.lockerAllowance - a.amount
             [] OTHER -> w.lockerAllowance
      /\ After(t).acAllowance =
           CASE call = "approveAcUSDY" -> a.amount
             [] call = "supplyCollateral" -> w.acAllowance - a.amount
             [] OTHER -> w.acAllowance
      /\ After(t).usdcAllowance =
           CASE call = "approveUSDC" -> Approval(a)
             [] call = "repay" -> w.usdcAllowance - Repaid(a).assets
             [] call = "supply" -> w.usdcAllowance - a.amount
             [] OTHER -> w.usdcAllowance
  BY <1>1, <1>2, AfterIs DEF SessionInv
<1>4. /\ a.amount \in Nat /\ a.full \in BOOLEAN /\ a.debt \in Int
      /\ Repaid(a).assets \in Nat /\ Approval(a) \in Int
  BY <1>1, RepaidIs, ApprovalIs DEF SessionInv, SessionArgs
<1> HIDE DEF f, call, a
<1>5. w' \in [Balances -> Nat] /\ w \in [Balances -> Nat]
  BY MinedWallet DEF SessionInv, WalletInv
<1>6. /\ w.lockerAllowance \in Nat /\ w'.lockerAllowance \in Nat
      /\ w.acAllowance \in Nat /\ w'.acAllowance \in Nat
      /\ w.usdcAllowance \in Nat /\ w'.usdcAllowance \in Nat
  BY <1>5 DEF Balances
<1>7. \A g \in DOMAIN flows : flows[g].args \in SessionArgs /\ flows[g].args.amount \in Nat
                              /\ Approval(flows[g].args) \in Int
  <2> TAKE g \in DOMAIN flows
  <2>1. flows[g].args \in SessionArgs
    BY SessionFlowIs DEF SessionInv
  <2> QED
    BY <2>1, ApprovalIs DEF SessionArgs
<1> DEFINE amounts == [g \in DOMAIN flows |-> flows[g].args.amount]
           approvals == [g \in DOMAIN flows |-> Approval(flows[g].args)]
<1>8. /\ amounts \in [DOMAIN flows -> Int] /\ amounts[f] = a.amount
       /\ \A g \in DOMAIN flows : amounts[g] = flows[g].args.amount
  BY <1>1, <1>7
<1>9. /\ approvals \in [DOMAIN flows -> Int] /\ approvals[f] = Approval(a)
       /\ \A g \in DOMAIN flows : approvals[g] = Approval(flows[g].args)
  BY <1>1, <1>7
<1> HIDE DEF amounts, approvals
<1>10. w'.lockerAllowance = 0 \/ \E g \in DOMAIN flows :
         Unspent(g, {"lock"})' /\ w'.lockerAllowance <= flows[g].args.amount
  <2>1. \/ flows[f].hook \in {"lock"} /\ t[2] = 1 /\ w'.lockerAllowance <= amounts[f]
        \/ /\ w'.lockerAllowance <= w.lockerAllowance
           /\ w.lockerAllowance = 0 \/ \E g \in DOMAIN flows :
                Unspent(g, {"lock"}) /\ w.lockerAllowance <= amounts[g]
           /\ flows[f].hook \in {"lock"} /\ t[2] = 2 /\ w.lockerAllowance <= amounts[f] =>
                w'.lockerAllowance = 0
    <3>1. w.lockerAllowance = 0 \/ \E g \in DOMAIN flows :
            Unspent(g, {"lock"}) /\ w.lockerAllowance <= amounts[g]
      BY <1>8 DEF AllowedInv
    <3>2. CASE call = "approveUSDY"
      <4>1. w'.lockerAllowance = a.amount
        BY <1>3, <3>2
      <4>2. flows[f].hook = "lock" /\ t[2] = 1
        BY <1>1, <3>2 DEF IsCall
      <4> QED
        BY <1>4, <1>8, <4>1, <4>2
    <3>3. CASE call = "lock"
      <4>1. w'.lockerAllowance = w.lockerAllowance - a.amount
        BY <1>3, <3>3
      <4> QED
        BY <1>4, <1>6, <1>8, <3>1, <4>1
    <3>4. CASE call \notin {"approveUSDY", "lock"}
      <4>1. w'.lockerAllowance = w.lockerAllowance
        BY <1>3, <3>4
      <4>2. ~(flows[f].hook = "lock" /\ t[2] = 2)
        BY <1>1, <3>4 DEF IsCall
      <4> QED
        BY <1>6, <3>1, <4>1, <4>2
    <3> QED
      BY <3>2, <3>3, <3>4
  <2>2. w'.lockerAllowance = 0 \/ \E g \in DOMAIN flows :
          Unspent(g, {"lock"})' /\ w'.lockerAllowance <= amounts[g]
    <3> DEFINE hooks == {"lock"}
    <3>1. \/ flows[f].hook \in hooks /\ t[2] = 1 /\ w'.lockerAllowance <= amounts[f]
          \/ /\ w'.lockerAllowance <= w.lockerAllowance
             /\ w.lockerAllowance = 0 \/ \E g \in DOMAIN flows :
                  Unspent(g, hooks) /\ w.lockerAllowance <= amounts[g]
             /\ flows[f].hook \in hooks /\ t[2] = 2 /\ w.lockerAllowance <= amounts[f] =>
                  w'.lockerAllowance = 0
      BY <2>1
    <3> HIDE DEF hooks
    <3>2. WritesInv /\ UNCHANGED flows
      BY DEF SessionInv
    <3>3. w'.lockerAllowance = 0 \/ \E g \in DOMAIN flows :
            Unspent(g, hooks)' /\ w'.lockerAllowance <= amounts[g]
      BY <1>6, <1>8, <3>1, <3>2, AllowanceMoves DEF f
    <3> QED
      BY <3>3 DEF hooks
  <2> QED
    BY <1>8, <2>2
<1>11. w'.acAllowance = 0 \/ \E g \in DOMAIN flows :
         Unspent(g, {"supplyCollateral"})' /\ w'.acAllowance <= flows[g].args.amount
  <2>1. \/ flows[f].hook \in {"supplyCollateral"} /\ t[2] = 1 /\ w'.acAllowance <= amounts[f]
        \/ /\ w'.acAllowance <= w.acAllowance
           /\ w.acAllowance = 0 \/ \E g \in DOMAIN flows :
                Unspent(g, {"supplyCollateral"}) /\ w.acAllowance <= amounts[g]
           /\ flows[f].hook \in {"supplyCollateral"} /\ t[2] = 2 /\ w.acAllowance <= amounts[f] =>
                w'.acAllowance = 0
    <3>1. w.acAllowance = 0 \/ \E g \in DOMAIN flows :
            Unspent(g, {"supplyCollateral"}) /\ w.acAllowance <= amounts[g]
      BY <1>8 DEF AllowedInv
    <3>2. CASE call = "approveAcUSDY"
      <4>1. w'.acAllowance = a.amount
        BY <1>3, <3>2
      <4>2. flows[f].hook = "supplyCollateral" /\ t[2] = 1
        BY <1>1, <3>2 DEF IsCall
      <4> QED
        BY <1>4, <1>8, <4>1, <4>2
    <3>3. CASE call = "supplyCollateral"
      <4>1. w'.acAllowance = w.acAllowance - a.amount
        BY <1>3, <3>3
      <4> QED
        BY <1>4, <1>6, <1>8, <3>1, <4>1
    <3>4. CASE call \notin {"approveAcUSDY", "supplyCollateral"}
      <4>1. w'.acAllowance = w.acAllowance
        BY <1>3, <3>4
      <4>2. ~(flows[f].hook = "supplyCollateral" /\ t[2] = 2)
        BY <1>1, <3>4 DEF IsCall
      <4> QED
        BY <1>6, <3>1, <4>1, <4>2
    <3> QED
      BY <3>2, <3>3, <3>4
  <2>2. w'.acAllowance = 0 \/ \E g \in DOMAIN flows :
          Unspent(g, {"supplyCollateral"})' /\ w'.acAllowance <= amounts[g]
    <3> DEFINE hooks == {"supplyCollateral"}
    <3>1. \/ flows[f].hook \in hooks /\ t[2] = 1 /\ w'.acAllowance <= amounts[f]
          \/ /\ w'.acAllowance <= w.acAllowance
             /\ w.acAllowance = 0 \/ \E g \in DOMAIN flows :
                  Unspent(g, hooks) /\ w.acAllowance <= amounts[g]
             /\ flows[f].hook \in hooks /\ t[2] = 2 /\ w.acAllowance <= amounts[f] =>
                  w'.acAllowance = 0
      BY <2>1
    <3> HIDE DEF hooks
    <3>2. WritesInv /\ UNCHANGED flows
      BY DEF SessionInv
    <3>3. w'.acAllowance = 0 \/ \E g \in DOMAIN flows :
            Unspent(g, hooks)' /\ w'.acAllowance <= amounts[g]
      BY <1>6, <1>8, <3>1, <3>2, AllowanceMoves DEF f
    <3> QED
      BY <3>3 DEF hooks
  <2> QED
    BY <1>8, <2>2
<1>12. \/ w'.usdcAllowance = 0
       \/ \E g \in DOMAIN flows :
            Unspent(g, {"repay", "supply"})' /\ w'.usdcAllowance <= Approval(flows[g].args)
       \/ Rest'
  <2> DEFINE hooks == {"repay", "supply"}
  <2>1. CASE call = "approveUSDC"
    <3>1. w'.usdcAllowance = Approval(a)
      BY <1>3, <2>1
    <3>2. flows[f].hook \in hooks /\ t[2] = 1
      BY <1>1, <2>1 DEF IsCall
    <3>3. w'.usdcAllowance <= approvals[f]
      BY <1>4, <1>9, <3>1
    <3> QED
      BY <1>6, <1>9, <3>2, <3>3, AllowanceMoves DEF f, SessionInv
  <2>2. CASE call # "approveUSDC"
    <3>1. w'.usdcAllowance <= w.usdcAllowance
      <4>1. \/ w'.usdcAllowance = w.usdcAllowance - Repaid(a).assets
            \/ w'.usdcAllowance = w.usdcAllowance - a.amount
            \/ w'.usdcAllowance = w.usdcAllowance
        BY <1>3, <2>2
      <4> QED
        BY <1>4, <1>6, <4>1
    <3>2. CASE Rest
      <4>1. PICK g \in DOMAIN flows :
              flows[g].args.full /\ w.usdcAllowance * 1000 <= flows[g].args.debt
        BY <3>2 DEF Rest
      <4>2. flows[g].args.debt \in Int
        BY <1>7 DEF SessionArgs
      <4>3. w'.usdcAllowance * 1000 <= flows[g].args.debt
        BY <1>6, <3>1, <4>1, <4>2
      <4> QED
        BY <4>1, <4>3 DEF Rest
    <3>3. CASE /\ ~Rest /\ a.full
               /\ flows[f].hook \in hooks /\ t[2] = 2 /\ w.usdcAllowance <= approvals[f]
      (* A full repayment leaves at most the buffer. *)
      <4>1. /\ flows[f].hook = "repay" /\ a.debt \in Nat
            /\ a.debt * 1000 <= a.shares * w.index
        BY <1>1, <3>3 DEF SessionInv, FullInv
      <4>2. call = "repay"
        BY <1>1, <3>3, <4>1 DEF IsCall
      <4>3. w'.usdcAllowance = w.usdcAllowance - Repaid(a).assets
        BY <1>3, <4>2
      <4>4. a.debt <= Repaid(a).assets
        BY <1>1, <3>3, <4>1, RepaidIs DEF SessionInv
      <4>5. (Approval(a) - a.debt) * 1000 <= a.debt
        BY <1>1, <3>3, <4>1, ApprovalIs
      <4>6. w'.usdcAllowance <= Approval(a) - a.debt
        BY <1>4, <1>6, <1>9, <3>3, <4>1, <4>3, <4>4
      <4>7. w'.usdcAllowance * 1000 <= a.debt
        BY <1>4, <1>6, <4>1, <4>5, <4>6
      <4> QED
        BY <1>1, <3>3, <4>7 DEF Rest
    <3>4. CASE /\ ~Rest
               /\ ~(/\ a.full /\ flows[f].hook \in hooks
                    /\ t[2] = 2 /\ w.usdcAllowance <= approvals[f])
      <4>1. w.usdcAllowance = 0 \/ \E g \in DOMAIN flows :
              Unspent(g, hooks) /\ w.usdcAllowance <= approvals[g]
        BY <1>9, <3>4 DEF AllowedInv
      <4>2. ASSUME flows[f].hook \in hooks, t[2] = 2, w.usdcAllowance <= approvals[f]
            PROVE  w'.usdcAllowance = 0
        <5>1. ~a.full
          BY <3>4, <4>2
        <5>2. Repaid(a).assets = a.amount /\ approvals[f] = a.amount
          BY <1>1, <1>9, <5>1, RepaidIs, ApprovalIs DEF SessionInv
        <5>3. call \in {"repay", "supply"}
          BY <1>1, <4>2 DEF IsCall
        <5>4. w'.usdcAllowance = w.usdcAllowance - a.amount
          BY <1>3, <5>2, <5>3
        <5> QED
          BY <1>4, <1>6, <4>2, <5>2, <5>4
      <4>3. w'.usdcAllowance = 0 \/ \E g \in DOMAIN flows :
              Unspent(g, hooks)' /\ w'.usdcAllowance <= approvals[g]
        BY <1>6, <1>9, <3>1, <4>1, <4>2, AllowanceMoves DEF f, SessionInv
      <4> QED
        BY <1>9, <4>3
    <3> QED
      BY <3>2, <3>3, <3>4
  <2> QED
    BY <2>1, <2>2
<1> QED
  BY <1>10, <1>11, <1>12 DEF AllowedInv

-----------------------------------------------------------------------------
(* Steps that mine nothing. *)
LEMMA SignedStays ==
  ASSUME WritesInv, SignedInv, Keeps,
         \A t \in pending' : t \in Sent /\ (t \in pending \/ CallOf(t) \notin OffChain)
  PROVE  SignedInv'
<1> SUFFICES ASSUME NEW t \in pending' PROVE CallOf(t)' \notin OffChain
  BY DEF SignedInv
<1>1. t \in Sent /\ CallOf(t) \notin OffChain
  BY DEF SignedInv
<1>2. t[1] \in DOMAIN flows
  BY <1>1, CalledBy
<1>3. CallOf(t)' = CallOf(t)
  BY <1>2 DEF Keeps, CallOf, HookOf
<1> QED
  BY <1>1, <1>3

LEMMA AllowedStays ==
  ASSUME mined' = mined, DOMAIN flows \subseteq DOMAIN flows',
         \A f \in DOMAIN flows : flows'[f].hook = flows[f].hook /\ flows'[f].args = flows[f].args,
         w'.lockerAllowance = w.lockerAllowance, w'.acAllowance = w.acAllowance,
         w'.usdcAllowance = w.usdcAllowance
  PROVE  AllowedInv => AllowedInv'
<1> SUFFICES ASSUME AllowedInv PROVE AllowedInv'
  OBVIOUS
<1>1. ASSUME NEW f \in DOMAIN flows, NEW hooks, Unspent(f, hooks)
      PROVE  Unspent(f, hooks)'
  BY <1>1 DEF Unspent
<1>2. Rest => Rest'
  BY DEF Rest
<1>3. w'.lockerAllowance = 0 \/ \E f \in DOMAIN flows' :
        Unspent(f, {"lock"})' /\ w'.lockerAllowance <= flows'[f].args.amount
  BY <1>1 DEF AllowedInv
<1>4. w'.acAllowance = 0 \/ \E f \in DOMAIN flows' :
        Unspent(f, {"supplyCollateral"})' /\ w'.acAllowance <= flows'[f].args.amount
  BY <1>1 DEF AllowedInv
<1>5. \/ w'.usdcAllowance = 0
      \/ \E f \in DOMAIN flows' :
           Unspent(f, {"repay", "supply"})' /\ w'.usdcAllowance <= Approval(flows'[f].args)
      \/ Rest'
  BY <1>1, <1>2 DEF AllowedInv
<1> QED
  BY <1>3, <1>4, <1>5 DEF AllowedInv

LEMMA FlowsStay ==
  ASSUME SessionInv, WritesInv', Keeps, SignedInv', mined' = mined, w' = w,
         \/ seen' = seen
         \/ seen' = [NothingRead EXCEPT !.market = seen.market]
         \/ seen' = NothingRead
  PROVE  SessionInv'
<1>1. WalletInv'
  <2>1. CASE seen' = seen
    BY <2>1 DEF SessionInv, WalletInv
  <2>2. CASE seen' # seen
    <3>1. /\ seen' \in [read: BOOLEAN, market: BOOLEAN, data: [Balances -> Nat]]
          /\ seen'.data.index = 0
      <4> DEFINE none == [b \in Balances |-> 0]
      <4>1. none \in [Balances -> Nat] /\ none.index = 0
        BY DEF Balances
      <4>2. seen.market \in BOOLEAN
        BY DEF SessionInv, WalletInv
      <4>3. NothingRead = [read |-> FALSE, market |-> FALSE, data |-> none]
        BY DEF NothingRead
      <4> HIDE DEF none
      <4>4. /\ NothingRead \in [read: BOOLEAN, market: BOOLEAN, data: [Balances -> Nat]]
            /\ NothingRead.data = none
        BY <4>1, <4>3
      <4>5. [NothingRead EXCEPT !.market = seen.market]
              \in [read: BOOLEAN, market: BOOLEAN, data: [Balances -> Nat]]
        BY <4>2, <4>4
      <4>6. [NothingRead EXCEPT !.market = seen.market].data = none
        BY <4>4
      <4> QED
        BY <2>2, <4>1, <4>4, <4>5, <4>6
    <3>2. w.index \in Nat
      BY DEF SessionInv, WalletInv, Balances
    <3> QED
      BY <3>1, <3>2 DEF SessionInv, WalletInv
  <2> QED
    BY <2>1, <2>2
<1>2. FullInv'
  BY DEF SessionInv, FullInv, Keeps
<1>3. AllowedInv => AllowedInv'
  BY AllowedStays DEF SessionInv, Keeps
<1> QED
  BY <1>1, <1>2, <1>3 DEF SessionInv

LEMMA PollInv == SessionInv /\ (Poll \/ Accrue) => SessionInv'
<1> SUFFICES ASSUME SessionInv, Poll \/ Accrue PROVE SessionInv'
  OBVIOUS
<1>1. UNCHANGED <<flows, prompts, pending, mined, reverted, replaced>>
  BY DEF Poll, Accrue, webVars
<1>2. WritesInv' /\ Keeps
  BY <1>1, WritesInvStays DEF SessionInv, WritesInv, Apart, Sent
<1>3. SignedInv'
  BY <1>1, <1>2, SignedStays DEF SessionInv, Sent
<1>4. /\ w \in [Balances -> Nat] /\ w.index \in Nat /\ w.index > 0 /\ seen.data.index <= w.index
      /\ seen \in [read: BOOLEAN, market: BOOLEAN, data: [Balances -> Nat]]
      /\ seen.data.index \in Nat
  BY DEF SessionInv, WalletInv, Balances
<1>5. CASE Poll
  <2>1. w' = w /\ seen' = [read |-> TRUE, market |-> TRUE, data |-> w]
    BY <1>5 DEF Poll
  <2>2. WalletInv'
    BY <1>4, <2>1 DEF WalletInv
  <2>3. FullInv'
    BY <1>1, <2>1 DEF SessionInv, FullInv
  <2>4. AllowedInv => AllowedInv'
    BY <1>1, <2>1, AllowedStays DEF SessionInv
  <2> QED
    BY <1>2, <1>3, <2>2, <2>3, <2>4 DEF SessionInv
<1>6. CASE Accrue
  <2>1. w' = [w EXCEPT !.index = @ + 1] /\ seen' = seen
    BY <1>6 DEF Accrue
  <2>2. /\ w' \in [Balances -> Nat] /\ w'.index = w.index + 1
        /\ w'.lockerAllowance = w.lockerAllowance
        /\ w'.acAllowance = w.acAllowance /\ w'.usdcAllowance = w.usdcAllowance
    BY <1>4, <2>1 DEF Balances
  <2>3. WalletInv'
    BY <1>4, <2>1, <2>2 DEF WalletInv
  <2>4. FullInv'
    <3> SUFFICES ASSUME NEW f \in DOMAIN flows, flows[f].args.full
                 PROVE  /\ flows[f].hook = "repay" /\ flows[f].args.debt \in Nat
                        /\ flows[f].args.debt * 1000 <= flows[f].args.shares * w'.index
      BY <1>1 DEF FullInv
    <3>1. flows[f].args.shares \in Nat
      BY SessionFlowIs DEF SessionInv, SessionArgs
    <3>2. w.index <= w'.index /\ w'.index \in Nat
      BY <1>4, <2>2
    <3>3. /\ flows[f].args.shares * w.index <= flows[f].args.shares * w'.index
          /\ flows[f].args.shares * w.index \in Nat /\ flows[f].args.shares * w'.index \in Nat
      BY <1>4, <3>1, <3>2, ProductGrows
    <3>4. /\ flows[f].hook = "repay" /\ flows[f].args.debt \in Nat
          /\ flows[f].args.debt * 1000 <= flows[f].args.shares * w.index
      BY DEF SessionInv, FullInv
    <3> QED
      BY <3>3, <3>4
  <2>5. AllowedInv => AllowedInv'
    BY <1>1, <2>2, AllowedStays DEF SessionInv
  <2> QED
    BY <1>2, <1>3, <2>3, <2>4, <2>5 DEF SessionInv
<1> QED
  BY <1>5, <1>6

-----------------------------------------------------------------------------
(* A click works with what was read. *)
LEMMA AssetIs ==
  ASSUME WalletInv, NEW n \in Nat
  PROVE  /\ Asset(n) \in SessionArgs /\ Asset(n).full = FALSE
         /\ seen.read =>
              LET a == [Asset(n) EXCEPT !.full = TRUE] IN
                /\ a \in SessionArgs /\ a.debt \in Nat
                /\ a.debt * 1000 <= a.shares * w.index
<1>1. /\ seen.read \in BOOLEAN /\ seen.market \in BOOLEAN /\ seen.data.shares \in Nat
      /\ seen.data.index \in Nat /\ w.index \in Nat /\ seen.data.index <= w.index
  BY DEF WalletInv, Balances
<1> DEFINE s == seen.data.shares
           owing == DebtShown(seen.data)
           known == IF seen.read THEN owing ELSE Unknown
<1>2. s * seen.data.index \in Nat /\ s * w.index \in Nat /\ s * seen.data.index <= s * w.index
  BY <1>1, ProductGrows
<1>3. owing \in Nat /\ owing * 1000 <= s * seen.data.index
  BY <1>2 DEF DebtShown
<1>4. owing * 1000 <= s * w.index
  BY <1>2, <1>3
<1>5. Asset(n) = [amount |-> n, full |-> FALSE, market |-> seen.market, debt |-> known, shares |-> s]
  BY DEF Asset
<1>6. known \in Int /\ s \in Nat /\ (seen.read => known = owing)
  BY <1>1, <1>3 DEF Unknown
<1> HIDE DEF owing, known, s
<1>7. Asset(n) \in SessionArgs /\ Asset(n).full = FALSE
  BY <1>1, <1>5, <1>6 DEF SessionArgs
<1>8. ASSUME seen.read
      PROVE  LET a == [Asset(n) EXCEPT !.full = TRUE] IN
               /\ a \in SessionArgs /\ a.debt \in Nat
               /\ a.debt * 1000 <= a.shares * w.index
  <2> DEFINE a == [Asset(n) EXCEPT !.full = TRUE]
  <2>1. a \in SessionArgs /\ a.debt = Asset(n).debt /\ a.shares = Asset(n).shares
    BY <1>7 DEF SessionArgs
  <2>2. Asset(n).debt = known /\ Asset(n).shares = s
    BY <1>5
  <2> HIDE DEF a
  <2>3. known = owing
    BY <1>6, <1>8
  <2> QED
    BY <1>3, <1>4, <2>1, <2>2, <2>3 DEF a
<1> QED
  BY <1>7, <1>8

LEMMA ClickInv ==
  ASSUME SessionInv, NEW h \in SessionHooks, NEW args \in SessionArgs, Click(h, args),
         args.full => /\ h = "repay" /\ args.debt \in Nat
                      /\ args.debt * 1000 <= args.shares * w.index
  PROVE  SessionInv'
<1>1. /\ WritesInv' /\ Len(flows) \in Nat
      /\ DOMAIN flows' = DOMAIN flows \cup {Len(flows) + 1} /\ Len(flows) + 1 \notin DOMAIN flows
      /\ flows'[Len(flows) + 1].hook = h /\ flows'[Len(flows) + 1].args = args
      /\ \A g \in DOMAIN flows : flows'[g] = flows[g]
      /\ UNCHANGED <<prompts, pending, mined, reverted, replaced>>
  BY ClickWritesInv DEF SessionInv
<1>2. UNCHANGED <<w, seen>>
  BY DEF Click
<1>3. SignedInv'
  <2> SUFFICES ASSUME NEW t \in pending PROVE CallOf(t)' \notin OffChain
    BY <1>1 DEF SignedInv
  <2>1. t[1] \in DOMAIN flows
    BY CalledBy DEF SessionInv, Sent
  <2>2. CallOf(t)' = CallOf(t)
    BY <1>1, <2>1 DEF CallOf, HookOf
  <2> QED
    BY <2>2 DEF SessionInv, SignedInv
<1>4. WalletInv'
  BY <1>2 DEF SessionInv, WalletInv
<1>5. FullInv'
  <2> SUFFICES ASSUME NEW g \in DOMAIN flows', flows'[g].args.full
               PROVE  /\ flows'[g].hook = "repay" /\ flows'[g].args.debt \in Nat
                      /\ flows'[g].args.debt * 1000 <= flows'[g].args.shares * w.index
    BY <1>2 DEF FullInv
  <2>1. CASE g = Len(flows) + 1
    BY <1>1, <2>1
  <2>2. CASE g # Len(flows) + 1
    BY <1>1, <2>2 DEF SessionInv, FullInv
  <2> QED
    BY <2>1, <2>2
<1>6. AllowedInv => AllowedInv'
  BY <1>1, <1>2, AllowedStays DEF SessionInv
<1> QED
  BY <1>1, <1>3, <1>4, <1>5, <1>6 DEF SessionInv

(* The page's buttons. *)
LEMMA ButtonsInv ==
  ASSUME SessionInv,
         \/ ClickLock(1) \/ ClickSupplyCollateral(1) \/ ClickBorrow(Dollars)
         \/ ClickRepay(Dollars) \/ ClickRepayFull \/ ClickWithdrawCollateral(1)
         \/ ClickSupply(Dollars) \/ ClickWithdraw(Dollars) \/ CallSupplyBundle(Dollars)
  PROVE  SessionInv'
<1>1. CASE ClickRepayFull
  <2> DEFINE a == [Asset(0) EXCEPT !.full = TRUE]
  <2>1. seen.read /\ Click("repay", a)
    BY <1>1 DEF ClickRepayFull
  <2>2. a \in SessionArgs /\ a.debt \in Nat /\ a.debt * 1000 <= a.shares * w.index
    BY <2>1, AssetIs DEF SessionInv
  <2> HIDE DEF a
  <2> QED
    BY <2>1, <2>2, ClickInv DEF SessionHooks
<1>2. CASE ~ClickRepayFull
  <2>1. PICK h \in SessionHooks, n \in Nat : Click(h, Asset(n))
    BY <1>2 DEF ClickLock, ClickSupplyCollateral, ClickBorrow, ClickRepay,
                ClickWithdrawCollateral, ClickSupply, ClickWithdraw, CallSupplyBundle,
                SessionHooks, Dollars
  <2>2. Asset(n) \in SessionArgs /\ ~Asset(n).full
    BY AssetIs DEF SessionInv
  <2> QED
    BY <2>1, <2>2, ClickInv
<1> QED
  BY <1>1, <1>2

-----------------------------------------------------------------------------
LEMMA StepFlowInv == ASSUME SessionInv, NEW f \in DOMAIN flows, StepFlow(f) PROVE SessionInv'
<1>1. WritesInv' /\ Keeps
  BY WritesInvAdvances DEF StepFlow, SessionInv
<1>2. /\ mined' = mined /\ pending' = pending /\ w' = w
      /\ seen' = seen \/ seen' = [NothingRead EXCEPT !.market = seen.market]
  BY DEF StepFlow, Advance, Warmed, Connected, NotConnected, TimeOut, Receipt, Settled, NoReceipt, Refreshed
<1>3. SignedInv'
  BY <1>1, <1>2, SignedStays DEF SessionInv, Sent
<1> QED
  BY <1>1, <1>2, <1>3, FlowsStay

LEMMA AnswerSessionInv == ASSUME SessionInv, NEW t \in prompts, Answer(t) PROVE SessionInv'
<1>1. WritesInv' /\ Keeps
  BY AnswerInv, SignOffChainInv DEF Answer, SessionInv
<1>2. /\ mined' = mined /\ w' = w /\ seen' = seen
      /\ \A x \in pending' : x \in Sent /\ (x \in pending \/ CallOf(x) \notin OffChain)
  BY DEF Answer, Sign, SignOffChain, Reject, Sent
<1>3. SignedInv'
  BY <1>1, <1>2, SignedStays DEF SessionInv
<1> QED
  BY <1>1, <1>2, <1>3, FlowsStay

LEMMA MineSessionInv == ASSUME SessionInv, NEW t \in pending, Mine(t) PROVE SessionInv'
<1>1. /\ UNCHANGED <<flows, seen>> /\ pending' \subseteq pending
      /\ mined' = IF Executes(t) THEN mined \cup {t} ELSE mined
      /\ w' = IF Executes(t) THEN After(t) ELSE w
  BY DEF Mine, MinedAs
<1>2. WritesInv' /\ Keeps
  BY MinedInv DEF Mine, SessionInv
<1>3. SignedInv'
  BY <1>1, <1>2, SignedStays DEF SessionInv, Sent
<1>4. CASE Executes(t)
  BY <1>1, <1>2, <1>3, <1>4, MinedWallet, MinedAllowances DEF SessionInv
<1>5. CASE ~Executes(t)
  BY <1>1, <1>2, <1>3, <1>5, FlowsStay
<1> QED
  BY <1>4, <1>5

LEMMA CancelInv == ASSUME SessionInv, NEW t \in pending, Cancel(t) PROVE SessionInv'
<1>1. /\ UNCHANGED <<flows, prompts, mined, reverted, w, seen>>
      /\ t \in Sent /\ t \notin prompts
      /\ pending' = pending \ {t} /\ replaced' = replaced \cup {t}
  BY DEF Cancel, Replaced, SessionInv, WritesInv, Apart, Sent
<1>2. WritesInv' /\ Keeps
  BY <1>1, WritesInvStays DEF SessionInv, WritesInv, Apart, Sent
<1>3. SignedInv'
  BY <1>1, <1>2, SignedStays DEF SessionInv, Sent
<1> QED
  BY <1>1, <1>2, <1>3, FlowsStay

LEMMA SessionInvNext == SessionInv /\ [SessionNext]_sessionVars => SessionInv'
<1> SUFFICES ASSUME SessionInv, [SessionNext]_sessionVars PROVE SessionInv'
  OBVIOUS
<1>1. CASE \/ ClickLock(1) \/ ClickSupplyCollateral(1) \/ ClickBorrow(Dollars)
           \/ ClickRepay(Dollars) \/ ClickRepayFull \/ ClickWithdrawCollateral(1)
           \/ ClickSupply(Dollars) \/ ClickWithdraw(Dollars) \/ CallSupplyBundle(Dollars)
  BY <1>1, ButtonsInv
<1>2. CASE \/ \E h \in {"supplyCollateral", "borrow", "repay", "withdrawCollateral"} : Dismiss(h)
           \/ ResetLockForm \/ DismissLender \/ UNCHANGED sessionVars
  <2>1. UNCHANGED <<flows, prompts, pending, mined, reverted, replaced, w, seen>>
    BY <1>2 DEF Dismiss, ResetLockForm, DismissLender, sessionVars, webVars
  <2>2. WritesInv' /\ Keeps
    BY <2>1, WritesInvStays DEF SessionInv, WritesInv, Apart, Sent
  <2>3. SignedInv'
    BY <2>1, <2>2, SignedStays DEF SessionInv, Sent
  <2> QED
    BY <2>1, <2>2, <2>3, FlowsStay
<1>3. CASE \E f \in DOMAIN flows : StepFlow(f)
  BY <1>3, StepFlowInv
<1>4. CASE \E t \in prompts : Answer(t)
  BY <1>4, AnswerSessionInv
<1>5. CASE \E t \in pending : Mine(t) \/ Cancel(t)
  BY <1>5, MineSessionInv, CancelInv
<1>6. CASE Poll \/ Accrue
  BY <1>6, PollInv
<1>7. CASE ReloadTab
  <2>1. WritesInv' /\ Keeps
    BY <1>7, ReloadWritesInv DEF ReloadTab, SessionInv
  <2>2. mined' = mined /\ pending' = pending /\ w' = w /\ seen' = NothingRead
    BY <1>7 DEF ReloadTab, Reload
  <2>3. SignedInv'
    BY <2>1, <2>2, SignedStays DEF SessionInv, Sent
  <2> QED
    BY <2>1, <2>2, <2>3, FlowsStay
<1> QED
  BY <1>1, <1>2, <1>3, <1>4, <1>5, <1>6, <1>7 DEF SessionNext

LEMMA SessionInvInit == SessionInit => SessionInv
<1> SUFFICES ASSUME SessionInit PROVE SessionInv
  OBVIOUS
<1>1. /\ flows = <<>> /\ flows \in Seq(SessionFlow) /\ DOMAIN flows = {} /\ Sent = {}
      /\ pending = {} /\ w = Opening /\ seen = NothingRead
  BY DEF SessionInit, WebInit, Sent
<1>2. WritesInv
  BY <1>1 DEF WritesInv, Apart, Sent
<1>3. SignedInv /\ FullInv
  BY <1>1 DEF SignedInv, FullInv
<1>4. WalletInv
  <2>1. /\ seen \in [read: BOOLEAN, market: BOOLEAN, data: [Balances -> Nat]]
        /\ seen.data.index = 0
    BY <1>1 DEF NothingRead, Balances
  <2>2. Opening.index \in Nat
    BY SessionAssumption DEF Balances
  <2> QED
    BY <1>1, <2>1, <2>2, SessionAssumption DEF WalletInv
<1>5. NothingApproved => AllowedInv
  BY <1>1 DEF AllowedInv, NothingApproved
<1> QED
  BY <1>2, <1>3, <1>4, <1>5 DEF SessionInv

LEMMA SessionInvShown == NothingApproved /\ SessionInv => ApprovalsAreSpent
<1> SUFFICES ASSUME NothingApproved, SessionInv, AllSucceeded
             PROVE  /\ w.lockerAllowance = 0 /\ w.acAllowance = 0
                    /\ \/ w.usdcAllowance = 0
                       \/ \E f \in DOMAIN flows :
                            flows[f].args.full /\ w.usdcAllowance * 1000 <= flows[f].args.debt
  BY DEF ApprovalsAreSpent
<1>1. ASSUME NEW f \in DOMAIN flows, NEW hooks \in SUBSET Approvers, Unspent(f, hooks)
      PROVE  FALSE
  <2>1. flows[f].stage = "succeeded" /\ Settled = mined /\ flows[f].hook \in Approvers
    BY <1>1 DEF AllSucceeded, Unspent
  <2>2. <<f, 2>> \in mined
    BY <2>1 DEF SessionInv, WritesInv, Settled
  <2> QED
    BY <1>1, <2>2 DEF Unspent
<1>2. /\ {"lock"} \subseteq Approvers /\ {"supplyCollateral"} \subseteq Approvers
      /\ {"repay", "supply"} \subseteq Approvers
  BY DEF Approvers
<1> QED
  BY <1>1, <1>2 DEF SessionInv, AllowedInv, Rest

LEMMA SessionInvHolds == SessionSpec => []SessionInv
BY SessionInvInit, SessionInvNext, PTL DEF SessionSpec

(* A session that begins with nothing approved ends so: when every flow has *)
(* succeeded and nothing reverted or was replaced, neither the locker nor   *)
(* Morpho may take more than the buffer of a full repayment, in whatever    *)
(* order the flows' approvals and spendings were signed and mined: each     *)
(* hook approves exactly what it spends (useRepayUSDC.ts:175 and the other  *)
(* hooks).                                                                  *)
THEOREM SessionsLeaveNothingApproved == NothingApproved => (SessionSpec => []ApprovalsAreSpent)
<1> SUFFICES ASSUME NothingApproved PROVE SessionSpec => []ApprovalsAreSpent
  OBVIOUS
<1>1. SessionInv => ApprovalsAreSpent
  BY SessionInvShown
<1> QED
  BY <1>1, SessionInvHolds, PTL

-----------------------------------------------------------------------------
(* A full repayment whose debt grew by no more than the buffer. *)
LEMMA BufferStep ==
  SessionInv /\ [SessionNext]_sessionVars =>
    \A t \in (mined' \cup reverted') \ (mined \cup reverted) :
      LET a == ArgsOf(t) IN
        /\ CallOf(t) = "repay"
        /\ a.full
        /\ a.shares = w.shares
        /\ DebtOwed(w) * 1000 <= a.debt * 1001
        /\ <<t[1], 1>> \in mined
        /\ w.usdcAllowance = Approval(a)
        /\ w.usdc >= Approval(a)
        => t \in mined' /\ w'.shares = 0
<1> SUFFICES ASSUME SessionInv, [SessionNext]_sessionVars,
                    NEW t \in (mined' \cup reverted') \ (mined \cup reverted),
                    CallOf(t) = "repay", ArgsOf(t).full, ArgsOf(t).shares = w.shares,
                    DebtOwed(w) * 1000 <= ArgsOf(t).debt * 1001,
                    w.usdcAllowance = Approval(ArgsOf(t)), w.usdc >= Approval(ArgsOf(t))
             PROVE  t \in mined' /\ w'.shares = 0
  OBVIOUS
<1>1. t \in pending /\ Mine(t)
  <2>1. CASE \E x \in pending : Mine(x)
    BY <2>1 DEF Mine, MinedAs
  <2>2. CASE ~\E x \in pending : Mine(x)
    <3>1. UNCHANGED <<mined, reverted>>
      BY <2>2 DEF SessionNext, ClickLock, ClickSupplyCollateral, ClickBorrow, ClickRepay,
                  ClickRepayFull, ClickWithdrawCollateral, ClickSupply, ClickWithdraw,
                  CallSupplyBundle, Click, Start, Dismiss, ResetLockForm, DismissLender,
                  StepFlow, Advance, Warmed, Connected, NotConnected, TimeOut, Receipt,
                  NoReceipt, Refreshed, Answer, Sign, SignOffChain, Reject, Cancel, Replaced,
                  Poll, Accrue, ReloadTab, Reload, sessionVars, webVars
    <3> QED
      BY <3>1
  <2> QED
    BY <2>1, <2>2
<1> DEFINE a == ArgsOf(t)
           taken == Repaid(a).assets
<1>2. t[1] \in DOMAIN flows /\ a = flows[t[1]].args /\ a \in SessionArgs
  BY <1>1, CalledBy DEF SessionInv, Sent
<1>3. /\ a.debt \in Nat /\ a.shares \in Nat
      /\ w \in [Balances -> Nat] /\ w.index \in Nat /\ w.index > 0
      /\ w.usdc \in Nat /\ w.usdcAllowance \in Nat /\ w.shares \in Nat
  BY <1>2 DEF SessionInv, FullInv, WalletInv, Balances, SessionArgs
<1>4. taken = DebtOwed(w) /\ taken \in Nat /\ Repaid(a).shares = w.shares
  BY <1>2, RepaidIs DEF SessionInv, DebtOwed
<1>5. taken <= Approval(a) /\ Approval(a) \in Int
  BY <1>2, <1>3, <1>4, ApprovalIs
<1>6. After(t) = [w EXCEPT !.usdc = @ - taken, !.usdcAllowance = @ - taken,
                           !.shares = @ - Repaid(a).shares]
  BY DEF After
<1> HIDE DEF a, taken
<1>7. /\ After(t).usdc = w.usdc - taken /\ After(t).usdcAllowance = w.usdcAllowance - taken
      /\ After(t).shares = w.shares - Repaid(a).shares
      /\ \A b \in Balances \ {"usdc", "usdcAllowance", "shares"} : After(t)[b] = w[b]
  BY <1>3, <1>6 DEF Balances
<1>8. /\ w.usdc - taken >= 0 /\ w.usdcAllowance - taken >= 0
      /\ w.shares - Repaid(a).shares = 0
  BY <1>3, <1>4, <1>5 DEF a
<1>9. Executes(t)
  <2>1. \A b \in Balances : After(t)[b] >= 0
    BY <1>3, <1>7, <1>8
  <2> QED
    BY <2>1 DEF Executes
<1> QED
  BY <1>1, <1>7, <1>8, <1>9 DEF Mine, MinedAs

(* A full repayment clears the debt: what was read before the approval, and *)
(* a tenth of a percent, is enough while the debt grows by no more, however *)
(* many transactions of the user are mined in between                       *)
(* (useRepayUSDC.ts:175).                                                   *)
THEOREM BuffersSuffice == SessionSpec => BufferCovers
<1>1. SessionInv /\ [SessionNext]_sessionVars =>
        [\A t \in (mined' \cup reverted') \ (mined \cup reverted) :
           LET a == ArgsOf(t) IN
             /\ CallOf(t) = "repay"
             /\ a.full
             /\ a.shares = w.shares
             /\ DebtOwed(w) * 1000 <= a.debt * 1001
             /\ <<t[1], 1>> \in mined
             /\ w.usdcAllowance = Approval(a)
             /\ w.usdc >= Approval(a)
             => t \in mined' /\ w'.shares = 0]_sessionVars
  BY BufferStep
<1> QED
  BY <1>1, SessionInvHolds, PTL DEF SessionSpec, BufferCovers
=============================================================================
