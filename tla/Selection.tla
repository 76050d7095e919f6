----------------------------- MODULE Selection -----------------------------
(***************************************************************************)
(* What SelectUTXOs of tx/utxo.go can return, as a relation between a list *)
(* of UTXOs, an amount and a set of positions of the list; UtxoSelect has  *)
(* the loop that computes it and is checked against this module.           *)
(***************************************************************************)
EXTENDS Integers, Sequences, FiniteSets, FiniteSetsExt

\* The value of the coins of list s at the positions in P.
ValueAt(s, P) == SumFunction([i \in P |-> s[i].value])

UnspentAt(s) == {i \in DOMAIN s : ~s[i].spent}

\* P covers the amount, and it would not without one of its coins.  The
\* comparison is strict: nothing would be left for the fee otherwise.
Covers(s, P, amount) == ValueAt(s, P) > amount
JustCovers(s, P, amount) ==
  Covers(s, P, amount) /\ \E i \in P : ~Covers(s, P \ {i}, amount)

\* The sets of positions that may be returned; none means an error.  A list
\* of one UTXO is handled apart, without a look at its Spent flag.  In a
\* longer list Intn(max) never yields the last position, which is only used
\* when all others together are not enough.
Selections(s, amount) ==
  IF Len(s) = 1
  THEN IF s[1].value > amount THEN {{1}} ELSE {}
  ELSE LET front == UnspentAt(s) \ {Len(s)}
       IN  IF Covers(s, front, amount)
           THEN {P \in SUBSET front : JustCovers(s, P, amount)}
           ELSE {P \in {UnspentAt(s)} : Covers(s, P, amount)}
=============================================================================
