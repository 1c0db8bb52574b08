------------------------------ MODULE NAVOracle ------------------------------
(***************************************************************************)
(* The price feed of the lending market                                    *)
(* (contracts/ethereum/NAVOracle.sol): the admin pushes a price, and the   *)
(* market may use it until it is older than MaxAge.                        *)
(***************************************************************************)
EXTENDS Integers

CONSTANTS
  OracleAdmins, \* accounts that may hold the admin role
  NAVPrices,    \* prices in the market's format
  MaxAge,       \* MAX_PRICE_AGE
  MaxTime       \* bound on block.timestamp

ASSUME OracleAssumption ==
  /\ NAVPrices \subseteq Nat \ {0}
  /\ MaxAge \in Nat
  /\ MaxTime \in Nat

VARIABLES
  oracleAdmin,  \* admin
  currentPrice, \* currentPrice
  lastUpdate,   \* lastUpdate
  time          \* block.timestamp

oracleVars == <<oracleAdmin, currentPrice, lastUpdate>>

OracleTypeOK ==
  /\ oracleAdmin \in OracleAdmins
  /\ currentPrice \in NAVPrices
  /\ lastUpdate \in 0..MaxTime
  /\ time \in 0..MaxTime

OracleInit ==
  /\ oracleAdmin \in OracleAdmins
  /\ currentPrice \in NAVPrices
  /\ lastUpdate = 0
  /\ time = 0

(* isStale(); price() reverts exactly then. *)
IsStale == time > lastUpdate + MaxAge

UpdatePrice(caller, newPrice) ==
  /\ caller = oracleAdmin
  /\ newPrice # 0
  /\ currentPrice' = newPrice
  /\ lastUpdate' = time
  /\ UNCHANGED <<oracleAdmin, time>>

SetOracleAdmin(caller, newAdmin) ==
  /\ caller = oracleAdmin
  /\ oracleAdmin' = newAdmin
  /\ UNCHANGED <<currentPrice, lastUpdate, time>>

=============================================================================
