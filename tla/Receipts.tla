----------------------------- MODULE Receipts ------------------------------
(***************************************************************************)
(* What block scanning promises, without the goroutine that does it: coins *)
(* are recorded for good, and a height counts as scanned only after all    *)
(* coins of that block are recorded, one height after the other.  Scan     *)
(* implements this as long as all blocks are scanned by one goroutine at a *)
(* time.                                                                   *)
(***************************************************************************)
EXTENDS Integers

CONSTANTS
  Top,   \* the highest block
  Coins  \* the coins that each block brings, a function of the height

VARIABLES
  recorded, \* the coins recorded so far
  horizon   \* the last block that counts as scanned

receiptVars == <<recorded, horizon>>

ReceiptInit == recorded = {} /\ horizon = 0

\* A coin of any block may be recorded, also once more or before its turn.
Record ==
  /\ \E h \in 1 .. Top : \E c \in Coins[h] : recorded' = recorded \cup {c}
  /\ UNCHANGED horizon

Advance ==
  /\ horizon < Top
  /\ Coins[horizon + 1] \subseteq recorded
  /\ horizon' = horizon + 1
  /\ UNCHANGED recorded

ReceiptSpec == ReceiptInit /\ [][Record \/ Advance]_receiptVars
=============================================================================
