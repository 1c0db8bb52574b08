-------------------------------- MODULE WebTx --------------------------------
(***************************************************************************)
(* Running write hooks in one browser tab.  A click starts a flow, the     *)
(* asynchronous function of a page's handler and its hook; flows of        *)
(* several hooks, or two of one hook, run interleaved at their awaits and  *)
(* share the status of their hook, the wallet and the chains.              *)
(*                                                                         *)
(* The wallet answers a prompt when it likes, also after the page gave up  *)
(* on it (withTimeout only stops waiting), and a transaction is mined when *)
(* it is, unless the user replaces it in the wallet.  What a mined          *)
(* transaction does is up to the module that extends this one.             *)
(***************************************************************************)
EXTENDS WriteHooks, FiniteSets

CONSTANTS
  MaxFlows,   \* bound on the number of clicks that start a flow
  MaxReloads, \* bound on the number of times the tab is reloaded
  FirstChains, \* the chains the wallet may be on at first
  Replaceable \* bound: the writes whose transactions the user may replace

ASSUME WebAssumption ==
  /\ MaxFlows \in Nat
  /\ MaxReloads \in Nat
  /\ FirstChains \subseteq {"mantle", "ethereum"}
  /\ Replaceable \subseteq (1..MaxFlows) \X (1..2)

VARIABLES
  flows,    \* one record per click so far: hook, arguments, where it is
  status,   \* per hook, the status its component shows
  network,  \* the chain the wallet is on
  prompts,  \* writes the wallet was asked to sign and has not answered
  pending,  \* signed transactions that are not mined
  mined,    \* transactions that executed
  reverted, \* transactions that were mined and reverted
  replaced, \* transactions whose place another of the wallet's took
  reloads   \* number of reloads

webVars == <<flows, status, network, prompts, pending, mined, reverted, replaced, reloads>>

(* A write, and the transaction it becomes: flow f's k-th. *)
Writes == (1..MaxFlows) \X (1..2)

(* warming: await warmSession(); connecting: await the client or the        *)
(* network; signing: await writeContract(); mining: await the receipt;      *)
(* refreshing: await invalidateUserReads().                                 *)
Stages == {"warming", "connecting", "signing", "mining", "refreshing",
           "succeeded", "failed", "gone"}
Ended == {"succeeded", "failed", "gone"}

WebTypeOK ==
  /\ Len(flows) <= MaxFlows
  /\ \A f \in DOMAIN flows :
       flows[f].hook \in HookNames /\ flows[f].stage \in Stages /\ flows[f].step \in 1..2
  /\ status \in [HookNames -> Statuses]
  /\ network \in {"mantle", "ethereum"}
  /\ prompts \subseteq Writes
  /\ pending \subseteq Writes
  /\ mined \subseteq Writes
  /\ reverted \subseteq Writes
  /\ replaced \subseteq Writes
  /\ reloads \in 0..MaxReloads

WebInit ==
  /\ flows = <<>>
  /\ status = [h \in HookNames |-> "idle"]
  /\ network \in FirstChains
  /\ prompts = {}
  /\ pending = {}
  /\ mined = {}
  /\ reverted = {}
  /\ replaced = {}
  /\ reloads = 0

(* What waitForTransactionReceipt answers for: a replaced transaction too,  *)
(* with the receipt of the one that took its place; and the transactions    *)
(* whose receipt says success.                                              *)
Settled == mined \cup reverted \cup replaced
Accepted == mined \cup replaced

HookOf(f) == Hook[flows[f].hook]
CallOf(t) == HookOf(t[1]).writes[t[2]].call
ArgsOf(t) == flows[t[1]].args
Running(h) == {f \in DOMAIN flows : flows[f].hook = h /\ flows[f].stage \notin Ended}
AwaitsAt(f, stage) == f \in DOMAIN flows /\ flows[f].stage = stage
Awaited(t, stage) == AwaitsAt(t[1], stage) /\ flows[t[1]].step = t[2]

Show(h, s) == status' = [status EXCEPT ![h] = s]
GoTo(f, stage) == flows' = [flows EXCEPT ![f].stage = stage]

(* setError, setStatus('error'), throw. *)
Fail(f) == GoTo(f, "failed") /\ Show(flows[f].hook, "error")

-----------------------------------------------------------------------------
(* The click: the handler's arguments are those of the render it was        *)
(* created in.                                                              *)
Start(h, args) ==
  /\ Len(flows) < MaxFlows
  /\ flows' = Append(flows, [hook |-> h, args |-> args, stage |-> "warming", step |-> 1])
  /\ IF Hook[h].resets THEN Show(h, "idle") ELSE UNCHANGED status
  /\ UNCHANGED <<network, prompts, pending, mined, reverted, replaced, reloads>>

(* The debt before it was read. *)
Unknown == -1

(* The guards of a hook, before its try block.  The wallet is connected and *)
(* the contracts are configured.                                            *)
Accepts(h, args) ==
  /\ Hook[h].market => args.market
  /\ Hook[h].positive => args.full \/ args.amount > 0
  /\ args.full => args.debt > 0 /\ args.shares > 0
  /\ h = "repay" /\ ~args.full /\ args.debt # Unknown => args.amount <= args.debt
  /\ h \in {"unlock", "release"} => args.known

(* warmSession() returns, at once or after getWalletClient(), and never     *)
(* throws; the hook checks its arguments and calls reset().  signOnMantle   *)
(* is reached with the first status already set.                            *)
Warmed(f) ==
  /\ AwaitsAt(f, "warming")
  /\ LET h == flows[f].hook IN
       IF Accepts(h, flows[f].args)
       THEN /\ GoTo(f, "connecting")
            /\ Show(h, IF Hook[h].reconnects THEN Hook[h].writes[1].status ELSE "idle")
       ELSE Fail(f)
  /\ UNCHANGED <<network, prompts, pending, mined, reverted, replaced, reloads>>

(* The wallet is asked to sign write k of flow f; viem refuses when the     *)
(* wallet has left the chain of the call.                                   *)
Prompt(f, k) ==
  /\ Show(flows[f].hook, HookOf(f).writes[k].status)
  /\ flows' = [flows EXCEPT ![f].stage = "signing", ![f].step = k]
  /\ prompts' = prompts \cup {<<f, k>>}

(* getWalletClient, getNetwork and, on the wrong chain, switchNetwork. *)
Connected(f) ==
  /\ AwaitsAt(f, "connecting")
  /\ network' = HookOf(f).chain
  /\ Prompt(f, flows[f].step)
  /\ UNCHANGED <<pending, mined, reverted, replaced, reloads>>

(* The user refuses to switch, or the client has no address or still names  *)
(* the chain it was obtained on: four hooks get it before the switch.       *)
NotConnected(f) ==
  /\ AwaitsAt(f, "connecting")
  /\ Fail(f)
  /\ UNCHANGED <<network, prompts, pending, mined, reverted, replaced, reloads>>

(* The user signs.  A flow that still waits goes on to the receipt; after a *)
(* timeout or a reload nobody waits and the transaction is sent all the     *)
(* same.                                                                    *)
Sign(t) ==
  /\ t \in prompts
  /\ CallOf(t) \notin OffChain
  /\ prompts' = prompts \ {t}
  /\ pending' = pending \cup {t}
  /\ IF Awaited(t, "signing")
     THEN /\ GoTo(t[1], "mining")
          /\ IF t[2] = Len(HookOf(t[1]).writes) /\ HookOf(t[1]).confirms
             THEN Show(flows[t[1]].hook, "confirming")
             ELSE UNCHANGED status
     ELSE UNCHANGED <<flows, status>>
  /\ UNCHANGED <<network, mined, reverted, replaced, reloads>>

(* A signature off chain: the flow submits what it signed. *)
SignOffChain(t) ==
  /\ t \in prompts
  /\ CallOf(t) \in OffChain
  /\ IF Awaited(t, "signing") /\ network = HookOf(t[1]).chain
     THEN /\ Show(flows[t[1]].hook, HookOf(t[1]).writes[2].status)
          /\ flows' = [flows EXCEPT ![t[1]].step = 2]
          /\ prompts' = (prompts \ {t}) \cup {<<t[1], 2>>}
     ELSE /\ IF Awaited(t, "signing") THEN Fail(t[1]) ELSE UNCHANGED <<flows, status>>
          /\ prompts' = prompts \ {t}
  /\ UNCHANGED <<network, pending, mined, reverted, replaced, reloads>>

(* The user rejects, or the wallet's own gas estimate fails. *)
Reject(t) ==
  /\ t \in prompts
  /\ prompts' = prompts \ {t}
  /\ IF Awaited(t, "signing") THEN Fail(t[1]) ELSE UNCHANGED <<flows, status>>
  /\ UNCHANGED <<network, pending, mined, reverted, replaced, reloads>>

(* withTimeout rejects after 60 s and leaves the prompt open. *)
TimeOut(f) ==
  /\ AwaitsAt(f, "signing")
  /\ HookOf(f).writes[flows[f].step].timed
  /\ Fail(f)
  /\ UNCHANGED <<network, prompts, pending, mined, reverted, replaced, reloads>>

(* waitForTransactionReceipt answers for an executed, a reverted and a      *)
(* replaced transaction alike; only the second's receipt is no success.     *)
Receipt(f) ==
  /\ AwaitsAt(f, "mining")
  /\ <<f, flows[f].step>> \in Settled
  /\ IF flows[f].step < Len(HookOf(f).writes)
     THEN IF HookOf(f).reconnects
          THEN /\ flows' = [flows EXCEPT ![f].stage = "connecting", ![f].step = @ + 1]
               /\ Show(flows[f].hook, HookOf(f).writes[flows[f].step + 1].status)
               /\ UNCHANGED prompts
          ELSE IF network = HookOf(f).chain
               THEN Prompt(f, flows[f].step + 1)
               ELSE Fail(f) /\ UNCHANGED prompts
     ELSE /\ IF HookOf(f).checksReceipt /\ <<f, flows[f].step>> \in reverted
             THEN Fail(f)
             ELSE GoTo(f, "refreshing") /\ UNCHANGED status
          /\ UNCHANGED prompts
  /\ UNCHANGED <<network, pending, mined, reverted, replaced, reloads>>

(* viem gives up waiting for a receipt after three minutes. *)
NoReceipt(f) ==
  /\ AwaitsAt(f, "mining")
  /\ Fail(f)
  /\ UNCHANGED <<network, prompts, pending, mined, reverted, replaced, reloads>>

(* The refetch is done (its own errors are kept in the cache). *)
Refreshed(f) ==
  /\ AwaitsAt(f, "refreshing")
  /\ GoTo(f, "succeeded")
  /\ Show(flows[f].hook, "success")
  /\ UNCHANGED <<network, prompts, pending, mined, reverted, replaced, reloads>>

(* Transaction t is taken from the mempool: it executes or reverts. *)
MinedAs(t, executes) ==
  /\ t \in pending
  /\ pending' = pending \ {t}
  /\ mined' = IF executes THEN mined \cup {t} ELSE mined
  /\ reverted' = IF executes THEN reverted ELSE reverted \cup {t}
  /\ UNCHANGED <<flows, status, network, prompts, replaced, reloads>>

(* The user cancels t in the wallet, or sends something else in its place,  *)
(* and that is mined: t does nothing.                                       *)
Replaced(t) ==
  /\ t \in pending \cap Replaceable
  /\ pending' = pending \ {t}
  /\ replaced' = replaced \cup {t}
  /\ UNCHANGED <<flows, status, network, prompts, mined, reverted, reloads>>

(* The tab is reloaded: flows and statuses are lost, the wallet's prompts   *)
(* and the mempool are not.                                                 *)
Reload ==
  /\ reloads < MaxReloads
  /\ reloads' = reloads + 1
  /\ flows' = [f \in DOMAIN flows |->
                 IF flows[f].stage \in Ended THEN flows[f]
                 ELSE [flows[f] EXCEPT !.stage = "gone"]]
  /\ status' = [h \in HookNames |-> "idle"]
  /\ UNCHANGED <<network, prompts, pending, mined, reverted, replaced>>

(* What a flow does between two answers of the wallet. *)
Advance(f) == Warmed(f) \/ Connected(f) \/ NotConnected(f) \/ TimeOut(f)
              \/ Receipt(f) \/ NoReceipt(f) \/ Refreshed(f)

=============================================================================
