-------------------------------- MODULE Books --------------------------------
(***************************************************************************)
(* The pair implements the balance sheet: how its ledgers and its reserve  *)
(* vaults are to be read as one.                                           *)
(***************************************************************************)
EXTENDS Omnipair

SheetOf(k, vault) ==
  [cash   |-> k.cash_reserve,
   owed   |-> k.total_debt,
   equity |-> k.reserve,
   fees   |-> vault - k.cash_reserve]

Accounts == INSTANCE BalanceSheet WITH
  sheet      <- [t \in Token |-> SheetOf(ledger[t], reserve_vault[t])],
  overflowed <- \E t \in Token : ledger[t].clipped

\* Every instruction, with the update that precedes it, does one thing to the
\* pool's books: the borrowers are charged the interest and the fee and no
\* more, what is lent, recovered or lost is what the debt changes by, the
\* protocol's part of the vault shrinks only when it is claimed.
BooksKept == Accounts!Spec

=============================================================================
