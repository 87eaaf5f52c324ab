------------------------------ MODULE MCFutarchy ------------------------------
(***************************************************************************)
(* Two pairs and two keys: the deployer and the emergency authority, each  *)
(* of which may become authority and recipient.                            *)
(***************************************************************************)
EXTENDS Futarchy

Split(futarchy, buybacks, team) ==
  [r \in Recipient |-> CASE r = "futarchy_treasury" -> futarchy
                         [] r = "buybacks_vault" -> buybacks
                         [] r = "team_treasury" -> team]

\* the third is not a distribution
MCDistributions == {Split(5000, 3000, 2000), Split(0, 0, 10000), Split(7000, 3000, 1)}

=============================================================================
