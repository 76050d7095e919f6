------------------------------ MODULE MCWallet ------------------------------
(* A wallet that starts empty: small chains for TLC. *)
EXTENDS Wallet

Pays(tx, n, amount, a) == [txid |-> tx, vout |-> n, value |-> amount, addr |-> a]

NoCoins == <<>>

\* Two payments in blocks of their own; the second block ends with an output
\* without address.
TwoPayments ==
  << <<Pays(1, 0, 10, 11)>>, <<Pays(2, 1, 9, 11), Pays(2, 2, 1, 99)>> >>

\* Three payments, the second to an address that is generated later, together
\* with an output of somebody else.
ThreePayments ==
  << <<Pays(1, 0, 10, 11)>>,
     <<Pays(2, 0, 6, 0), Pays(2, 1, 9, 12)>>,
     <<Pays(3, 1, 8, 11)>> >>
=============================================================================
