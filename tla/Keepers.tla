-------------------------------- MODULE Keepers --------------------------------
(***************************************************************************)
(* Liquidation as it comes about: liquidate is open to anyone and pays its *)
(* caller, so somebody tries every position again and again.  An attempt   *)
(* on a healthy position fails and changes nothing.                        *)
(***************************************************************************)
EXTENDS Omnipair

VARIABLE polled         \* the position tried next, and its collateral token

User(n)       == n \div 2 + 1
Collateral(n) == n % 2

KeeperInit == Init /\ polled = 0

Poll == polled' = (polled + 1) % (2 * NumUsers)

\* an attempt that fails, on a healthy position or for another reason,
\* changes nothing
Attempt(u, c) ==
  \E l \in UpdatedPairs :
    \/ Liquidate(u, c, l)
    \/ ~LiquidateOk(u, c, l) /\ UNCHANGED vars

KeeperTurn == Attempt(User(polled), Collateral(polled)) /\ Poll

\* borrowers and traders need not do anything; keepers never give up
KeeperFairness == WF_polled(Poll)

KeeperNext == (Next /\ UNCHANGED polled) \/ KeeperTurn

KeeperSpec == KeeperInit /\ [][KeeperNext]_<<vars, polled>> /\ KeeperFairness

----------------------------------------------------------------------------
\* unhealthy at whatever rate the pending interest is charged
Unhealthy(u, c) == \A l \in UpdatedPairs : Undercollateralized(u, c, l)

\* An unhealthy position does not stay so: liquidations end with the position
\* healthy or its last share written off, and none of them fails.  liquidate's
\* comment: "ceiled division to avoid edge case where small shares never get
\* fully written off".
LiquidationsFinish ==
  \A u \in Users, c \in Token : Unhealthy(u, c) ~> ~Unhealthy(u, c)

=============================================================================
