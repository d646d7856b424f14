-------------------------------- MODULE Bank --------------------------------
(***************************************************************************)
(* The money outside the contracts: who holds how much of which asset.     *)
(* Ether and every ERC-20 the contracts accept keep such a table; only the  *)
(* part of the ERC-20 interface the contracts under src/ rely on is         *)
(* modelled, a transfer that moves exactly the stated amount.  A token      *)
(* that skims a fee fails the balance-delta check of each _pullExact, so a  *)
(* pull from it is a revert.                                                *)
(***************************************************************************)
EXTENDS Integers

\* The tables of balances of the given assets over the given holders.
Balances(assets, holders) == [assets -> [holders -> Nat]]

\* b after a transfer of n units of an asset; a transfer to oneself is a no-op.
Moved(b, asset, from, to, n) ==
    IF from = to
    THEN b
    ELSE [b EXCEPT ![asset] =
             [b[asset] EXCEPT ![from] = b[asset][from] - n, ![to] = b[asset][to] + n]]

\* A share of an amount in basis points of the denominator, rounded down as
\* Math.mulDiv does.
Portion(amount, bps, denominator) == (amount * bps) \div denominator

Affords(b, asset, holder, n) == b[asset][holder] >= n

=============================================================================
