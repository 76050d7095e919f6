----------------------------- MODULE UtxoSelect ----------------------------
(***************************************************************************)
(* SelectUTXOs of tx/utxo.go as a state machine: one turn of its loop per  *)
(* step, rand.Intn as a choice.  The copy of the slice from which entries  *)
(* are deleted is the set of positions that are left of the original one,  *)
(* whose order slices.Delete keeps: the last entry of the copy is the      *)
(* largest position left.                                                  *)
(***************************************************************************)
EXTENDS Selection

CONSTANTS
  Values,   \* possible values of a UTXO
  MaxCoins, \* bound: the longest list
  Amounts   \* amounts to send

ASSUME SelectAssumption == Values \subseteq Nat /\ Amounts \subseteq Nat /\ MaxCoins \in Nat

VARIABLES
  utxos,    \* the argument: the wallet's UTXOs, in the order of the slice
  amount,   \* the argument amountToSend
  left,     \* positions still in utxosCopy
  selected, \* positions appended to selectedUtxos
  sum,      \* selectedAmount
  pc        \* "start", "loop", "done" or "error"

selectVars == <<utxos, amount, left, selected, sum, pc>>

Coins == [value : Values, spent : BOOLEAN]

SelectInit ==
  /\ \E n \in 0 .. MaxCoins : utxos \in [1 .. n -> Coins]
  /\ amount \in Amounts
  /\ left = DOMAIN utxos /\ selected = {} /\ sum = 0
  /\ pc = "start"

-----------------------------------------------------------------------------
\* The cases before the loop: no UTXO, and exactly one.
NoUtxos ==
  /\ pc = "start" /\ Len(utxos) = 0
  /\ pc' = "error"
  /\ UNCHANGED <<utxos, amount, left, selected, sum>>

\* Mutant: the position of the one UTXO is counted from zero.
SingleUtxoFromZero ==
  /\ pc = "start" /\ Len(utxos) = 1
  /\ IF utxos[1].value > amount
     THEN pc' = "done" /\ selected' = {0} /\ sum' = utxos[1].value
     ELSE pc' = "error" /\ UNCHANGED <<selected, sum>>
  /\ UNCHANGED <<utxos, amount, left>>

SingleUtxo ==
  /\ pc = "start" /\ Len(utxos) = 1
  /\ IF utxos[1].value > amount
     THEN pc' = "done" /\ selected' = {1} /\ sum' = utxos[1].value
     ELSE pc' = "error" /\ UNCHANGED <<selected, sum>>
  /\ UNCHANGED <<utxos, amount, left>>

EnterLoop ==
  /\ pc = "start" /\ Len(utxos) > 1
  /\ pc' = "loop"
  /\ UNCHANGED <<utxos, amount, left, selected, sum>>

\* How a turn of the loop ends, given what is selected and left after the
\* deletion.
Continue(P, total, rest) ==
  /\ Cardinality(rest) > 1
  /\ selected' = P /\ sum' = total /\ pc' = "loop"

TakeLast(P, total, i) ==
  /\ selected' = P \cup {i} /\ sum' = total + utxos[i].value /\ pc' = "done"

\* Mutant: the last UTXO is taken without a look at its Spent flag.
EndOfTurnAnyLast(P, total, rest) ==
  \/ total > amount /\ selected' = P /\ sum' = total /\ pc' = "done"
  \/ total <= amount /\ Continue(P, total, rest)
  \/ /\ total <= amount /\ Cardinality(rest) = 1
     /\ \E i \in rest :
          IF total + utxos[i].value > amount
          THEN TakeLast(P, total, i)
          ELSE pc' = "error" /\ selected' = {} /\ sum' = 0

\* Mutant: the loop goes on although one UTXO is left.
EndOfTurnGoesOn(P, total, rest) ==
  \/ total > amount /\ selected' = P /\ sum' = total /\ pc' = "done"
  \/ total <= amount /\ selected' = P /\ sum' = total /\ pc' = "loop"

EndOfTurn(P, total, rest) ==
  \/ total > amount /\ selected' = P /\ sum' = total /\ pc' = "done"
  \/ total <= amount /\ Continue(P, total, rest)
  \/ /\ total <= amount /\ Cardinality(rest) = 1
     /\ \E i \in rest :
          IF ~utxos[i].spent /\ total + utxos[i].value > amount
          THEN TakeLast(P, total, i)
          ELSE pc' = "error" /\ selected' = {} /\ sum' = 0

\* Mutant: the picked UTXO is not deleted from the copy.
TurnKeepsPicked(i) ==
  /\ pc = "loop" /\ i \in left /\ i # Max(left)
  /\ IF utxos[i].spent
     THEN EndOfTurn(selected, sum, left)
     ELSE EndOfTurn(selected \cup {i}, sum + utxos[i].value, left)
  /\ UNCHANGED <<utxos, amount, left>>

\* One turn: idx := rand.Intn(len - 1) is any index of the copy but the last.
Turn(i) ==
  /\ pc = "loop" /\ i \in left /\ i # Max(left)
  /\ left' = left \ {i}
  /\ IF utxos[i].spent
     THEN EndOfTurn(selected, sum, left')
     ELSE EndOfTurn(selected \cup {i}, sum + utxos[i].value, left')
  /\ UNCHANGED <<utxos, amount>>

\* The call is over; the caller has its result.
Returned == pc \in {"done", "error"} /\ UNCHANGED selectVars

SelectStep == NoUtxos \/ SingleUtxo \/ EnterLoop \/ \E i \in left : Turn(i)
SelectNext == SelectStep \/ Returned

SelectSafety == SelectInit /\ [][SelectNext]_selectVars
SelectSpec   == SelectSafety /\ WF_selectVars(SelectStep)

-----------------------------------------------------------------------------
(* Properties. *)

SelectTypeOK ==
  /\ utxos \in Seq(Coins) /\ amount \in Amounts
  /\ left \in SUBSET DOMAIN utxos /\ selected \in SUBSET DOMAIN utxos
  /\ sum \in Nat
  /\ pc \in {"start", "loop", "done", "error"}

\* The loop never calls Intn(0), which panics: at its head at least two
\* entries are left, the last entry of the list among them.
IntnIsSafe == pc = "loop" => Cardinality(left) >= 2 /\ Len(utxos) \in left

\* The result is one that Selections allows, and an error is returned only
\* when the unspent coins do not cover the amount: whatever the order of the
\* random choices, they cannot make an affordable payment fail.
ResultIsRight ==
  /\ pc = "done" => selected \in Selections(utxos, amount)
  /\ pc = "error" => Selections(utxos, amount) = {}
  /\ pc = "error" /\ Len(utxos) # 1 => ~Covers(utxos, UnspentAt(utxos), amount)

\* The loop ends.
SelectEnds == <>(pc \in {"done", "error"})

\* utxo_test.go requires of the coins selected that none is spent.
OnlyUnspentSelected == \A i \in selected : ~utxos[i].spent
=============================================================================
