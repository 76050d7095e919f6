------------------------------- MODULE MCScan -------------------------------
(***************************************************************************)
(* Small chains for TLC.  Addresses: 11 and 12 are issued by the wallet, 0 *)
(* belongs to somebody else and 99 stands for a script without address.    *)
(* Numbers rather than model values, because the chains below are records  *)
(* defined here.                                                           *)
(***************************************************************************)
EXTENDS Scan

A1 == 11

Pays(tx, n, amount, a) == [txid |-> tx, vout |-> n, value |-> amount, addr |-> a]

\* Two blocks; the first has two transactions that pay the wallet, one of
\* them twice, so that a block is left in the middle of its outputs.
TwoBlocks ==
  << <<Pays(1, 0, 5, A1), Pays(1, 1, 9, 0), Pays(1, 2, 3, A1)>>,
     <<Pays(2, 0, 2, A1), Pays(3, 0, 4, 99)>> >>

\* One payment per block, for goroutines that overlap.
ShortBlocks ==
  << <<Pays(1, 0, 5, A1)>>, <<Pays(2, 0, 2, A1), Pays(2, 1, 6, 0)>> >>

\* A transaction that pays the wallet twice, and one that also has an output
\* without address.
OddBlocks ==
  << <<Pays(1, 0, 5, A1), Pays(1, 1, 6, 0), Pays(1, 2, 3, A1)>>,
     <<Pays(2, 0, 2, A1), Pays(2, 1, 1, 99)>> >>
=============================================================================
