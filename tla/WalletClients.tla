----------------------------- MODULE WalletClients -----------------------------
(***************************************************************************)
(* useDynamicWallet: the viem clients of the connected wallet, obtained    *)
(* asynchronously.  Whenever the wallet changes the effect of the previous *)
(* one is cancelled and a new one asks the new wallet for its clients; the *)
(* answers come when they come.                                            *)
(***************************************************************************)
EXTENDS Naturals, Sequences

CONSTANTS
  Wallets,  \* addresses the user may connect
  NoWallet  \* no wallet is connected

ASSUME WalletAssumption == NoWallet \notin Wallets

VARIABLES
  wallet,   \* primaryWallet
  effects,  \* the fetches of clients so far: whose, cancelled, how ended
  client,   \* whose client the hook keeps
  cached    \* cachedWalletAddress

walletVars == <<wallet, effects, client, cached>>

WalletInit ==
  /\ wallet = NoWallet
  /\ effects = <<>>
  /\ client = NoWallet
  /\ cached = NoWallet

(* The wallet is connected, changed or disconnected; the cleanup of the     *)
(* last effect runs before the next effect.                                 *)
ChangeWallet(a) ==
  /\ a # wallet
  /\ wallet' = a
  /\ LET stopped == [i \in DOMAIN effects |-> [effects[i] EXCEPT !.cancelled = TRUE]]
     IN effects' = IF a = NoWallet THEN stopped
                   ELSE Append(stopped, [owner |-> a, cancelled |-> FALSE, end |-> "waiting"])
  /\ UNCHANGED <<client, cached>>

Waiting(i) == i \in DOMAIN effects /\ effects[i].end = "waiting"

(* A mutant: clients of a wallet that was left are kept. *)
ArriveLate(i) ==
  /\ Waiting(i)
  /\ effects' = [effects EXCEPT ![i].end = "arrived"]
  /\ client' = effects[i].owner
  /\ cached' = effects[i].owner
  /\ UNCHANGED wallet

(* fetchClients ends; a cancelled one changes nothing. *)
ClientsArrive(i) ==
  /\ Waiting(i)
  /\ effects' = [effects EXCEPT ![i].end = "arrived"]
  /\ IF effects[i].cancelled
     THEN UNCHANGED <<client, cached>>
     ELSE client' = effects[i].owner /\ cached' = effects[i].owner
  /\ UNCHANGED wallet

(* The wallet does not answer with its clients: the error is logged. *)
ClientsFail(i) ==
  /\ Waiting(i)
  /\ effects' = [effects EXCEPT ![i].end = "failed"]
  /\ UNCHANGED <<wallet, client, cached>>

(* cacheReady: the client is returned only while its wallet is connected. *)
ShownClient == IF wallet # NoWallet /\ cached = wallet THEN client ELSE NoWallet

(* However often the user changes wallets and in whatever order the answers *)
(* come, the client a page writes with is the connected wallet's; and once  *)
(* that wallet has answered, an answer of an earlier one does not take the  *)
(* client away again (the cancelled flag, useDynamicWallet.ts:50-51, and    *)
(* cacheReady, 102-105).                                                    *)
ClientIsTheWallets ==
  /\ ShownClient \in {wallet, NoWallet}
  /\ wallet # NoWallet /\ effects[Len(effects)].end = "arrived" => ShownClient = wallet

=============================================================================
