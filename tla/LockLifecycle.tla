---------------------------- MODULE LockLifecycle ----------------------------
(***************************************************************************)
(* What the bridge promises about each lock, whatever contracts, relayers  *)
(* and operators do in between: it is issued once, minted once and not     *)
(* after its deadline, and returned only within Margin of its deadline or  *)
(* after it.  A lock that was minted before that margin is never returned, *)
(* and one that was returned before is minted only within the margin.      *)
(* Where clocks agree (Margin = 0) a lock is minted or returned, never     *)
(* both.                                                                   *)
(***************************************************************************)
EXTENDS Integers

CONSTANTS
  LockId,    \* every lock that may ever be issued
  Deadline,  \* for each of them, the last moment at which it may be minted
  Margin     \* by how much the one who returns may misjudge the time

VARIABLES time, issued, minted, mintedLate, returned

lifecycleVars == <<time, issued, minted, mintedLate, returned>>

Init == time = 0 /\ issued = {} /\ minted = {} /\ mintedLate = {} /\ returned = {}

Late(l) == time + Margin > Deadline[l]

Issue(l) ==
  /\ l \notin issued
  /\ issued' = issued \cup {l}
  /\ UNCHANGED <<time, minted, mintedLate, returned>>

MintOnTime(l) ==
  /\ l \in issued \ (minted \cup returned)
  /\ ~Late(l)
  /\ minted' = minted \cup {l}
  /\ UNCHANGED <<time, issued, mintedLate, returned>>

MintLate(l) ==
  /\ l \in issued \ minted
  /\ Late(l) /\ time <= Deadline[l]
  /\ minted' = minted \cup {l}
  /\ mintedLate' = mintedLate \cup {l}
  /\ UNCHANGED <<time, issued, returned>>

Return(l) ==
  /\ l \in issued \ returned
  /\ Late(l)
  /\ l \in minted => l \in mintedLate
  /\ returned' = returned \cup {l}
  /\ UNCHANGED <<time, issued, minted, mintedLate>>

Pass ==
  /\ time' > time
  /\ UNCHANGED <<issued, minted, mintedLate, returned>>

Next == Pass \/ \E l \in LockId : Issue(l) \/ MintOnTime(l) \/ MintLate(l) \/ Return(l)

Spec == Init /\ [][Next]_lifecycleVars

=============================================================================
