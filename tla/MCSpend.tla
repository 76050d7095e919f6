------------------------------ MODULE MCSpend ------------------------------
(* Small wallets for TLC. *)
EXTENDS Spend

Coin(tx, n, amount) == [txid |-> tx, vout |-> n, value |-> amount, spent |-> FALSE]

\* Every coin from a transaction of its own.
TwoCoins == <<Coin(1, 0, 10), Coin(2, 1, 9)>>

\* Two outputs of one transaction.
SameTx == <<Coin(1, 0, 10), Coin(1, 1, 10), Coin(2, 0, 9)>>
=============================================================================
