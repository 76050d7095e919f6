-------------------------- MODULE UtxoSelectProofs --------------------------
(***************************************************************************)
(* Proofs about the loop of SelectUTXOs, for lists of any length with any  *)
(* values.                                                                 *)
(***************************************************************************)
EXTENDS UtxoSelect, StoreProofs

\* What is selected of a list of two or more coins is unspent.
LoopTakesUnspent == Len(utxos) # 1 => OnlyUnspentSelected

\* The inductive invariant: the list is a finite sequence, the last position
\* is never deleted, and what is selected is unspent and out of the copy.
SelectInv ==
  /\ utxos \in Seq(Coins)
  /\ left \subseteq DOMAIN utxos /\ selected \subseteq DOMAIN utxos
  /\ pc = "start" => left = DOMAIN utxos /\ selected = {}
  /\ IntnIsSafe
  /\ LoopTakesUnspent

\* The last entry of the copy is the last entry of the list.
LEMMA LastOfLeft ==
  ASSUME SelectInv, pc = "loop"
  PROVE  Max(left) = Len(utxos)
<1>1. Len(utxos) \in left /\ left \subseteq 1 .. Len(utxos) /\ Len(utxos) \in Nat
  BY DEF SelectInv, IntnIsSafe
<1>2. \A y \in left : Len(utxos) >= y
  BY <1>1
<1>3. \A x \in left : (\A y \in left : x >= y) => x = Len(utxos)
  BY <1>1
<1> QED BY <1>1, <1>2, <1>3 DEF Max

LEMMA SelectInvInit == SelectInit => SelectInv
<1> SUFFICES ASSUME SelectInit PROVE SelectInv
  OBVIOUS
<1>1. PICK n \in 0 .. MaxCoins : utxos \in [1 .. n -> Coins]
  BY DEF SelectInit
<1>2. utxos \in Seq(Coins)
  BY <1>1, SelectAssumption
<1> QED BY <1>2 DEF SelectInit, SelectInv, IntnIsSafe, LoopTakesUnspent, OnlyUnspentSelected

\* What a turn can select and leave keeps the invariant.
LEMMA EndOfTurnKeeps ==
  ASSUME SelectInv, pc = "loop", NEW P, NEW total, NEW rest,
         P \subseteq DOMAIN utxos, \A i \in P : ~utxos[i].spent,
         rest \subseteq DOMAIN utxos, Len(utxos) \in rest, Cardinality(rest) \in Nat,
         EndOfTurn(P, total, rest), left' = rest, UNCHANGED utxos,
         Len(utxos) # 1
  PROVE  SelectInv'
<1>1. CASE selected' = P /\ pc' = "done"
  BY <1>1 DEF SelectInv, IntnIsSafe, LoopTakesUnspent, OnlyUnspentSelected
<1>2. CASE Continue(P, total, rest)
  BY <1>2 DEF Continue, SelectInv, IntnIsSafe, LoopTakesUnspent, OnlyUnspentSelected
<1>3. ASSUME NEW i \in rest, ~utxos[i].spent, TakeLast(P, total, i) PROVE SelectInv'
  BY <1>3 DEF TakeLast, SelectInv, IntnIsSafe, LoopTakesUnspent, OnlyUnspentSelected
<1>4. CASE pc' = "error" /\ selected' = {}
  BY <1>4 DEF SelectInv, IntnIsSafe, LoopTakesUnspent, OnlyUnspentSelected
<1> QED BY <1>1, <1>2, <1>3, <1>4 DEF EndOfTurn

LEMMA SelectInvStep == SelectInv /\ [SelectNext]_selectVars => SelectInv'
<1> SUFFICES ASSUME SelectInv, [SelectNext]_selectVars PROVE SelectInv'
  OBVIOUS
<1>0. utxos \in Seq(Coins) /\ Len(utxos) \in Nat /\ DOMAIN utxos = 1 .. Len(utxos)
  BY DEF SelectInv
<1>1. CASE NoUtxos
  BY <1>1 DEF NoUtxos, SelectInv, IntnIsSafe, LoopTakesUnspent, OnlyUnspentSelected
<1>2. CASE SingleUtxo
  BY <1>0, <1>2 DEF SingleUtxo, SelectInv, IntnIsSafe, LoopTakesUnspent, OnlyUnspentSelected
<1>3. CASE EnterLoop
  <2>1. Cardinality(1 .. Len(utxos)) = Len(utxos)
    BY <1>0, FS_Interval
  <2> QED BY <1>0, <1>3, <2>1
          DEF EnterLoop, SelectInv, IntnIsSafe, LoopTakesUnspent, OnlyUnspentSelected
<1>4. ASSUME NEW i \in left, Turn(i) PROVE SelectInv'
  <2>1. pc = "loop" /\ i # Len(utxos) /\ left' = left \ {i} /\ UNCHANGED utxos
    BY <1>4, LastOfLeft DEF Turn
  <2>2. Len(utxos) \in left' /\ left' \subseteq DOMAIN utxos /\ Len(utxos) # 1
    BY <1>0, <2>1 DEF SelectInv, IntnIsSafe
  <2>3. IsFiniteSet(left') /\ Cardinality(left') \in Nat
    <3>1. IsFiniteSet(1 .. Len(utxos))
      BY <1>0, FS_Interval
    <3>2. IsFiniteSet(left')
      BY <1>0, <2>2, <3>1, FS_Subset
    <3> QED BY <3>2, FS_CardinalityType
  <2>4. \A j \in selected : ~utxos[j].spent
    BY <2>2 DEF SelectInv, LoopTakesUnspent, OnlyUnspentSelected
  <2>5. CASE utxos[i].spent
    <3>1. EndOfTurn(selected, sum, left')
      BY <1>4, <2>5 DEF Turn
    <3> QED BY <2>1, <2>2, <2>3, <2>4, <3>1, EndOfTurnKeeps DEF SelectInv
  <2>6. CASE ~utxos[i].spent
    <3>1. EndOfTurn(selected \cup {i}, sum + utxos[i].value, left')
      BY <1>4, <2>6 DEF Turn
    <3>2. selected \cup {i} \subseteq DOMAIN utxos /\ \A j \in selected \cup {i} : ~utxos[j].spent
      BY <2>4, <2>6 DEF SelectInv
    <3> QED BY <2>1, <2>2, <2>3, <3>1, <3>2, EndOfTurnKeeps
  <2> QED BY <2>5, <2>6
<1>5. CASE UNCHANGED selectVars
  BY <1>5 DEF selectVars, SelectInv, IntnIsSafe, LoopTakesUnspent, OnlyUnspentSelected
<1> QED BY <1>1, <1>2, <1>3, <1>4, <1>5 DEF SelectNext, SelectStep, Returned

\* rand.Intn is never called with 0, however long the list and whatever the
\* random choices.
THEOREM SelectNeverPanics == SelectSafety => []IntnIsSafe
<1>1. SelectInv => IntnIsSafe
  BY DEF SelectInv
<1> QED BY <1>1, SelectInvInit, SelectInvStep, PTL DEF SelectSafety

-----------------------------------------------------------------------------
(* What the loop returns. *)

\* The invariant of the results: in the loop, what is selected is every unspent
\* entry that is out of the copy, and it does not cover the amount yet.
ResultInv ==
  /\ SelectTypeOK
  /\ pc = "start" => sum = 0
  /\ pc = "loop" => /\ selected = UnspentAt(utxos) \ left
                    /\ sum = ValueAt(utxos, selected) /\ sum <= amount
  /\ ResultIsRight

\* Values are natural numbers.
LEMMA CoinValue ==
  ASSUME NEW s \in Seq(Coins), NEW i \in DOMAIN s
  PROVE  s[i].value \in Nat
<1>1. s[i] \in Coins
  OBVIOUS
<1> QED BY <1>1, SelectAssumption DEF Coins

\* The value at some positions, at one more position, and at fewer.
LEMMA ValueLaws ==
  ASSUME NEW s \in Seq(Coins), NEW P \in SUBSET DOMAIN s
  PROVE  /\ ValueAt(s, P) \in Nat
         /\ ValueAt(s, {}) = 0
         /\ \A i \in DOMAIN s \ P : ValueAt(s, P \cup {i}) = ValueAt(s, P) + s[i].value
         /\ \A R \in SUBSET P : ValueAt(s, R) <= ValueAt(s, P)
<1> DEFINE f == [i \in DOMAIN s |-> s[i].value]
<1>1. /\ \A i \in DOMAIN s : f[i] \in Int /\ f[i] >= 0 /\ f[i] = s[i].value
      /\ IsFiniteSet(DOMAIN s)
  <2>2. \A i \in DOMAIN s : s[i].value \in Nat
    BY CoinValue
  <2>3. DOMAIN s = 1 .. Len(s) /\ Len(s) \in Nat
    OBVIOUS
  <2> QED BY <2>2, <2>3, FS_Interval
<1>2. \A Q \in SUBSET DOMAIN s : IsFiniteSet(Q) /\ ValueAt(s, Q) = SumFunctionOnSet(f, Q)
  <2> TAKE Q \in SUBSET DOMAIN s
  <2> DEFINE g == [i \in Q |-> s[i].value]
  <2>1. IsFiniteSet(Q)
    BY <1>1, FS_Subset
  <2>2. ValueAt(s, Q) = SumFunctionOnSet(g, Q)
    BY DEF ValueAt, SumFunction
  <2>3. \A i \in Q : g[i] = f[i]
    OBVIOUS
  <2> HIDE DEF f, g
  <2> QED BY <2>1, <2>2, <2>3, SumSame
<1> HIDE DEF f
<1>3. ValueAt(s, P) \in Nat
  <2>1. SumFunctionOnSet(f, P) \in Int
    BY <1>1, <1>2, SumTyped
  <2>2. 0 <= SumFunctionOnSet(f, P)
    BY <1>1, SumOfPart
  <2> QED BY <1>2, <2>1, <2>2
<1>4. ValueAt(s, {}) = 0
  BY <1>2, SumEmpty
<1>5. ASSUME NEW i \in DOMAIN s \ P
      PROVE  ValueAt(s, P \cup {i}) = ValueAt(s, P) + s[i].value
  <2>1. SumFunctionOnSet(f, P \cup {i}) = SumFunctionOnSet(f, P) + f[i]
    BY <1>1, <1>2, SumAdd
  <2>2. P \cup {i} \in SUBSET DOMAIN s
    OBVIOUS
  <2> QED BY <1>1, <1>2, <2>1, <2>2
<1>6. ASSUME NEW R \in SUBSET P PROVE ValueAt(s, R) <= ValueAt(s, P)
  <2>1. SumFunctionOnSet(f, R) <= SumFunctionOnSet(f, P)
    BY <1>1, <1>2, SumOfPart
  <2> QED BY <1>2, <2>1
<1> QED BY <1>3, <1>4, <1>5, <1>6

\* It holds at the start.
LEMMA ResultInvInit == SelectInit => ResultInv
<1> SUFFICES ASSUME SelectInit PROVE ResultInv
  OBVIOUS
<1>1. utxos \in Seq(Coins)
  BY SelectInvInit DEF SelectInv
<1> QED BY <1>1 DEF SelectInit, ResultInv, SelectTypeOK, ResultIsRight

\* A turn of the loop: i is taken from the copy, P is selected then.
LEMMA TurnKeeps ==
  ASSUME SelectInv, ResultInv, NEW i \in left, Turn(i)
  PROVE  ResultInv'
<1> DEFINE n     == Len(utxos)
           front == UnspentAt(utxos) \ {n}
<1>0. /\ utxos \in Seq(Coins) /\ n \in Nat /\ DOMAIN utxos = 1 .. n
      /\ pc = "loop" /\ n \in left /\ left \subseteq DOMAIN utxos /\ Cardinality(left) >= 2
      /\ selected = UnspentAt(utxos) \ left
      /\ sum = ValueAt(utxos, selected) /\ sum <= amount /\ amount \in Nat /\ sum \in Nat
  BY SelectAssumption DEF Turn, SelectInv, IntnIsSafe, ResultInv, SelectTypeOK
<1>1. i # n /\ left' = left \ {i} /\ UNCHANGED <<utxos, amount>> /\ n \in left'
  BY <1>0, LastOfLeft DEF Turn
<1>2. n # 1
  BY <1>0, <1>1
<1> DEFINE P == UnspentAt(utxos) \ left'
<1>3. /\ P = IF utxos[i].spent THEN selected ELSE selected \cup {i}
      /\ i \notin selected /\ selected \subseteq DOMAIN utxos /\ P \subseteq front
      /\ front \subseteq DOMAIN utxos /\ P \subseteq DOMAIN utxos
  BY <1>0, <1>1 DEF UnspentAt
<1>4. utxos[i].value \in Nat
  BY <1>0, CoinValue
<1>5. PICK total : /\ EndOfTurn(P, total, left')
                   /\ total = ValueAt(utxos, P) /\ total \in Nat
                   /\ total > amount => ~utxos[i].spent
  <2>1. CASE utxos[i].spent
    <3>1. EndOfTurn(selected, sum, left')
      BY <2>1 DEF Turn
    <3>2. P = selected
      BY <1>3, <2>1
    <3> HIDE DEF P
    <3> QED BY <1>0, <3>1, <3>2
  <2>2. CASE ~utxos[i].spent
    <3>1. EndOfTurn(selected \cup {i}, sum + utxos[i].value, left')
      BY <2>2 DEF Turn
    <3>2. P = selected \cup {i}
      BY <1>3, <2>2
    <3>3. ValueAt(utxos, selected \cup {i}) = sum + utxos[i].value
      BY <1>0, <1>3, ValueLaws
    <3>4. sum + utxos[i].value \in Nat
      BY <1>0, <1>4
    <3> HIDE DEF P
    <3> QED BY <2>2, <3>1, <3>2, <3>3, <3>4
  <2> QED BY <2>1, <2>2
<1>6. SelectTypeOK' /\ pc' # "start"
  <2>1. left' \in SUBSET DOMAIN utxos
    BY <1>0, <1>1
  <2>2. /\ selected' \in SUBSET DOMAIN utxos /\ sum' \in Nat /\ pc' \in {"loop", "done", "error"}
    <3>1. CASE selected' = P /\ sum' = total /\ pc' \in {"loop", "done"}
      BY <1>3, <1>5, <3>1
    <3>2. ASSUME NEW k \in left', TakeLast(P, total, k)
          PROVE  selected' \in SUBSET DOMAIN utxos /\ sum' \in Nat /\ pc' \in {"loop", "done", "error"}
      <4>1. utxos[k].value \in Nat /\ k \in DOMAIN utxos
        BY <1>0, <2>1, CoinValue
      <4> HIDE DEF P
      <4> QED BY <1>3, <1>5, <3>2, <4>1 DEF TakeLast
    <3>3. CASE pc' = "error" /\ selected' = {} /\ sum' = 0
      BY <3>3
    <3> HIDE DEF P
    <3> QED BY <1>5, <3>1, <3>2, <3>3 DEF EndOfTurn, Continue
  <2> QED BY <1>1, <2>1, <2>2 DEF ResultInv, SelectTypeOK
<1>7. CASE total > amount /\ selected' = P /\ sum' = total /\ pc' = "done"
  <2>1. ~utxos[i].spent /\ P = selected \cup {i} /\ P \ {i} = selected
    BY <1>3, <1>5, <1>7
  <2>2. Covers(utxos, P, amount) /\ ~Covers(utxos, P \ {i}, amount)
    <3>1. ValueAt(utxos, P) > amount
      BY <1>5, <1>7
    <3>2. ~(ValueAt(utxos, selected) > amount)
      BY <1>0
    <3> HIDE DEF P
    <3> QED BY <2>1, <3>1, <3>2 DEF Covers
  <2>3. JustCovers(utxos, P, amount)
    BY <2>1, <2>2 DEF JustCovers
  <2>4. Covers(utxos, front, amount)
    <3>1. ValueAt(utxos, P) <= ValueAt(utxos, front) /\ ValueAt(utxos, front) \in Nat
      BY <1>0, <1>3, ValueLaws
    <3> QED BY <1>0, <1>5, <1>7, <3>1 DEF Covers
  <2>5. selected' \in Selections(utxos, amount)
    BY <1>2, <1>3, <1>7, <2>3, <2>4 DEF Selections
  <2> QED BY <1>1, <1>6, <1>7, <2>5 DEF ResultInv, ResultIsRight
<1>8. CASE total <= amount /\ Continue(P, total, left')
  BY <1>1, <1>5, <1>6, <1>8 DEF Continue, ResultInv, ResultIsRight
<1>9. ASSUME total <= amount, Cardinality(left') = 1, NEW k \in left',
             IF ~utxos[k].spent /\ total + utxos[k].value > amount
             THEN TakeLast(P, total, k)
             ELSE pc' = "error" /\ selected' = {} /\ sum' = 0
      PROVE  ResultInv'
  <2>1. left' = {n} /\ k = n
    <3>1. IsFiniteSet(left')
      <4>1. IsFiniteSet(1 .. n) /\ left' \subseteq 1 .. n
        BY <1>0, <1>1, FS_Interval
      <4> QED BY <4>1, FS_Subset
    <3>2. \E x : left' = {x}
      BY <1>9, <3>1, FS_Singleton
    <3> QED BY <1>1, <3>2
  <2>2. P = front
    BY <2>1
  <2>3. ~Covers(utxos, front, amount)
    <3>1. ValueAt(utxos, front) = total
      BY <1>5, <2>2
    <3>2. ~(total > amount)
      BY <1>0, <1>5, <1>9
    <3> HIDE DEF front
    <3> QED BY <3>1, <3>2 DEF Covers
  <2>4. /\ n \in DOMAIN utxos /\ n \notin front /\ utxos[n].value \in Nat
        /\ UnspentAt(utxos) = IF utxos[n].spent THEN front ELSE front \cup {n}
    <3>1. n \in DOMAIN utxos /\ utxos[n].value \in Nat
      BY <1>0, CoinValue
    <3> QED BY <3>1 DEF UnspentAt
  <2>5. ValueAt(utxos, front \cup {n}) = total + utxos[n].value
    <3>1. ValueAt(utxos, front \cup {n}) = ValueAt(utxos, front) + utxos[n].value
      <4> HIDE DEF front, n
      <4> QED BY <1>0, <1>3, <2>4, ValueLaws
    <3> QED BY <1>5, <2>2, <3>1
  <2>6. CASE ~utxos[n].spent /\ total + utxos[n].value > amount
    <3>1. selected' = UnspentAt(utxos) /\ pc' = "done"
      BY <1>9, <2>1, <2>2, <2>4, <2>6 DEF TakeLast
    <3>2. Covers(utxos, UnspentAt(utxos), amount)
      BY <2>4, <2>5, <2>6 DEF Covers
    <3>3. selected' \in Selections(utxos, amount)
      BY <1>2, <2>3, <3>1, <3>2 DEF Selections
    <3> QED BY <1>1, <1>6, <3>1, <3>3 DEF ResultInv, ResultIsRight
  <2>7. CASE ~(~utxos[n].spent /\ total + utxos[n].value > amount)
    <3>1. pc' = "error"
      BY <1>9, <2>1, <2>7
    <3>2. ~Covers(utxos, UnspentAt(utxos), amount)
      <4>1. CASE utxos[n].spent
        BY <2>3, <2>4, <4>1
      <4>2. CASE ~utxos[n].spent
        BY <2>4, <2>5, <2>7, <4>2 DEF Covers
      <4> QED BY <4>1, <4>2
    <3>3. Selections(utxos, amount) = {}
      BY <1>2, <2>3, <3>2 DEF Selections
    <3> QED BY <1>1, <1>6, <3>1, <3>2, <3>3 DEF ResultInv, ResultIsRight
  <2> QED BY <2>6, <2>7
<1> HIDE DEF P
<1> QED BY <1>5, <1>7, <1>8, <1>9 DEF EndOfTurn

\* Every step keeps it.
LEMMA ResultInvStep == SelectInv /\ ResultInv /\ [SelectNext]_selectVars => ResultInv'
<1> SUFFICES ASSUME SelectInv, ResultInv, [SelectNext]_selectVars PROVE ResultInv'
  OBVIOUS
<1>0. /\ utxos \in Seq(Coins) /\ Len(utxos) \in Nat /\ DOMAIN utxos = 1 .. Len(utxos)
      /\ amount \in Nat
  BY SelectAssumption DEF SelectInv, ResultInv, SelectTypeOK
<1>1. CASE NoUtxos
  <2>1. UnspentAt(utxos) = {} /\ UnspentAt(utxos) \ {Len(utxos)} = {}
    BY <1>0, <1>1 DEF NoUtxos, UnspentAt
  <2>2. ~Covers(utxos, {}, amount)
    <3>1. ValueAt(utxos, {}) = 0
      BY <1>0, ValueLaws
    <3> QED BY <1>0, <3>1 DEF Covers
  <2>3. Selections(utxos, amount) = {}
    BY <1>1, <2>1, <2>2 DEF NoUtxos, Selections
  <2> QED BY <1>1, <2>1, <2>2, <2>3 DEF NoUtxos, ResultInv, ResultIsRight, SelectTypeOK
<1>2. CASE SingleUtxo
  <2>1. utxos[1].value \in Nat /\ 1 \in DOMAIN utxos
    BY <1>0, <1>2, CoinValue DEF SingleUtxo
  <2>2. CASE utxos[1].value > amount
    BY <1>2, <2>1, <2>2 DEF SingleUtxo, Selections, ResultInv, ResultIsRight, SelectTypeOK
  <2>3. CASE ~(utxos[1].value > amount)
    BY <1>2, <2>1, <2>3 DEF SingleUtxo, Selections, ResultInv, ResultIsRight, SelectTypeOK
  <2> QED BY <2>2, <2>3
<1>3. CASE EnterLoop
  <2>1. selected = {} /\ left = DOMAIN utxos /\ sum = 0
    BY <1>3 DEF EnterLoop, SelectInv, ResultInv
  <2>2. ValueAt(utxos, {}) = 0 /\ UnspentAt(utxos) \ left = {}
    BY <1>0, <2>1, ValueLaws DEF UnspentAt
  <2> QED BY <1>0, <1>3, <2>1, <2>2 DEF EnterLoop, ResultInv, ResultIsRight, SelectTypeOK
<1>4. ASSUME NEW i \in left, Turn(i) PROVE ResultInv'
  BY <1>4, TurnKeeps
<1>5. CASE UNCHANGED selectVars
  BY <1>5 DEF selectVars, ResultInv, ResultIsRight, SelectTypeOK
<1> QED BY <1>1, <1>2, <1>3, <1>4, <1>5 DEF SelectNext, SelectStep, Returned

\* The arguments and locals of SelectUTXOs keep their types, and positions
\* selected and left are positions of the list.
THEOREM SelectTyped == SelectSafety => []SelectTypeOK
<1>1. ResultInv => SelectTypeOK
  BY DEF ResultInv
<1> QED BY <1>1, SelectInvInit, SelectInvStep, ResultInvInit, ResultInvStep, PTL
        DEF SelectSafety

\* For every list, amount and order of the random choices the result is one
\* that Selections allows: it covers the amount, and one coin less would not;
\* an error means that the unspent coins do not cover the amount.
THEOREM SelectIsRight == SelectSafety => []ResultIsRight
<1>1. ResultInv => ResultIsRight
  BY DEF ResultInv
<1> QED BY <1>1, SelectInvInit, SelectInvStep, ResultInvInit, ResultInvStep, PTL
        DEF SelectSafety
=============================================================================
