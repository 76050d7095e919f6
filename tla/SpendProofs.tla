---------------------------- MODULE SpendProofs ----------------------------
(***************************************************************************)
(* Proofs about sending, for any wallet, any number of calls at any stage  *)
(* of their work, any failures and crashes.                                *)
(***************************************************************************)
EXTENDS Spend, StoreProofs

ChangeKey(i) == <<TxId(i), 1>>

\* A record of a coin that exists.
Exists(u) == Outpoint(u) \in DOMAIN nodeCoins /\ u.value = nodeCoins[Outpoint(u)]

\* A mark, where there is one, that is true.
TrueMark(u) == u.spent => Outpoint(u) \in nodeSpent

Listed(s)   == {Outpoint(s[j]) : j \in DOMAIN s}
AllExist(s) == \A j \in DOMAIN s : Exists(s[j])
NoneTwice(s) == \A j, k \in DOMAIN s : Outpoint(s[j]) = Outpoint(s[k]) => j = k

Early(i)   == send[i].pc \in {"idle", "select", "broadcast"}
Storing(i) == changer[i].pc = "store"
\* The change of call i has been paid and is yet to be listed.
Unlisted(i) == send[i].pc = "update" \/ changer[i].pc \in {"save", "append"}

\* The change of a call comes into existence with its transaction.
ChangeInv ==
  /\ DOMAIN nodeCoins \subseteq InitKeys \cup {ChangeKey(i) : i \in Sends}
  /\ \A i \in Sends : Early(i) => ChangeKey(i) \notin DOMAIN nodeCoins
  /\ \A i \in Sends : send[i].pc # "over" => changer[i].pc = "idle"
  /\ \A i \in Sends : Unlisted(i) => Exists(Change(i))

\* Inputs are coins, each taken once.
InputsInv == \A i \in Sends :
  /\ IsFiniteSet(send[i].inputs)
  /\ \A u \in send[i].inputs : Exists(u)
  /\ \A u, v \in send[i].inputs : Outpoint(u) = Outpoint(v) => u = v
  /\ send[i].pc = "update" => \A u \in send[i].inputs : Outpoint(u) \in nodeSpent
  /\ marker[i].todo \subseteq send[i].inputs
  /\ Early(i) => marker[i].todo = {}
  /\ \A u \in marker[i].todo : Outpoint(u) \in nodeSpent

\* The slice lists no coin twice, and neither does the copy that is about to
\* take its place: it has the coins of the slice at their positions.
ListInv ==
  /\ NoneTwice(memUtxos)
  /\ \A i \in Sends : Unlisted(i) => ChangeKey(i) \notin Listed(memUtxos)
  /\ \A i, k \in Sends : Storing(i) /\ Storing(k) => i = k
  /\ \A i \in Sends : Storing(i) =>
       /\ AllExist(changer[i].copy) /\ NoneTwice(changer[i].copy)
       /\ DOMAIN memUtxos \subseteq DOMAIN changer[i].copy
       /\ \A j \in DOMAIN memUtxos : Outpoint(changer[i].copy[j]) = Outpoint(memUtxos[j])
       /\ \A k \in Sends : Unlisted(k) => ChangeKey(k) \notin Listed(changer[i].copy)

CoinInv == SpendTypeOK /\ CoinsExist /\ ChangeInv /\ InputsInv /\ ListInv

\* What the transactions cost that are out and yet to be taken off a balance.
Cost(i)  == send[i].amount + Fee(i)
Updating == {i \in Sends : send[i].pc = "update"}
Due      == SumFunctionOnSet([i \in Sends |-> Cost(i)], Updating)

\* Every balance that is or will be written still holds what is due.
BalanceInv ==
  /\ memBalance >= NodeValue + Due
  /\ dbBalance >= NodeValue + Due
  /\ \A i \in Sends : balancer[i].pc # "idle" => balancer[i].value >= NodeValue + Due

\* No two coins of one transaction.
OneCoinPerTx == \A i, j \in DOMAIN InitCoins : InitCoins[i].txid = InitCoins[j].txid => i = j

MarkInv ==
  /\ MarksAreTrue
  /\ \A o \in DOMAIN dbUtxos : TrueMark(dbUtxos[o])
  /\ \A i \in Sends :
       /\ \A u \in send[i].inputs : TrueMark(u)
       /\ Storing(i) => \A j \in DOMAIN changer[i].copy : TrueMark(changer[i].copy[j])
       /\ marker[i].pc = "set" => Outpoint(memUtxos[marker[i].at]) \in nodeSpent

-----------------------------------------------------------------------------
(* What a transaction is worth. *)

\* The keys of change outputs are new and differ.
LEMMA KeysDiffer ==
  /\ \A i \in Sends : TxId(i) \in Nat /\ ChangeKey(i) \in Outpoints /\ ChangeKey(i) \notin InitKeys
  /\ \A i, k \in Sends : ChangeKey(i) = ChangeKey(k) => i = k
<1>1. \A i \in Sends : TxId(i) \in Nat /\ TxId(i) >= 1000
  BY SendAssumption DEF Sends, TxId
<1>2. ASSUME NEW o \in InitKeys PROVE o[1] < 1000
  BY CoinsAssumption DEF InitKeys, Outpoint
<1>3. \A i, k \in Sends : TxId(i) = TxId(k) => i = k
  BY SendAssumption DEF Sends, TxId
<1> QED BY <1>1, <1>2, <1>3 DEF ChangeKey, Outpoints

\* What a transaction costs and what its change is.
LEMMA ChangeTyped ==
  ASSUME SpendTypeOK, NEW i \in Sends, IsFiniteSet(send[i].inputs)
  PROVE  /\ InputValue(send[i].inputs) \in Int /\ send[i].amount \in Nat
         /\ Fee(i) \in Nat /\ Cost(i) \in Nat
         /\ ChangeValue(i) = InputValue(send[i].inputs) - Cost(i)
         /\ ChangeValue(i) \in Int
         /\ Change(i) \in UtxoRecords
         /\ Outpoint(Change(i)) = ChangeKey(i)
         /\ Change(i).value = ChangeValue(i) /\ ~Change(i).spent
<1> DEFINE I == send[i].inputs
           f == [u \in I |-> u.value]
<1>1. I \subseteq UtxoRecords /\ send[i].amount \in Nat
  BY SendAssumption DEF SpendTypeOK, SendStates
<1>2. \A u \in I : f[u] \in Int
  BY <1>1 DEF UtxoRecords
<1>3. InputValue(I) \in Int
  <2>1. InputValue(I) = SumFunctionOnSet(f, I)
    BY DEF InputValue, SumFunction
  <2>2. IsFiniteSet(I)
    OBVIOUS
  <2> HIDE DEF f, I
  <2> QED BY <1>2, <2>1, <2>2, SumTyped
<1>4. Fee(i) \in Nat
  <2>1. \A a, b \in Nat : a * b \in Nat
    OBVIOUS
  <2>2. Cardinality(I) \in Nat
    BY FS_CardinalityType
  <2>3. FeePerInput * Cardinality(I) \in Nat
    BY <2>1, <2>2, SendAssumption
  <2> QED BY <2>3, SendAssumption DEF Fee
<1>5. /\ Cost(i) \in Nat /\ ChangeValue(i) \in Int
      /\ ChangeValue(i) = InputValue(send[i].inputs) - Cost(i)
  BY <1>1, <1>3, <1>4 DEF Cost, ChangeValue
<1>6. TxId(i) \in Nat
  BY KeysDiffer
<1> QED BY <1>1, <1>3, <1>4, <1>5, <1>6 DEF Change, NewUtxo, UtxoRecords, Outpoint, ChangeKey

\* The change of a call is settled by its inputs and its amount.
LEMMA ChangeSettled ==
  ASSUME NEW i \in Sends, send'[i].inputs = send[i].inputs,
         send'[i].amount = send[i].amount
  PROVE  /\ Change(i)' = Change(i) /\ ChangeValue(i)' = ChangeValue(i)
         /\ Fee(i)' = Fee(i) /\ Cost(i)' = Cost(i)
BY DEF Change, ChangeValue, Fee, Cost, NewUtxo

\* What is selected are positions of the list.
LEMMA SelectionsListed ==
  ASSUME NEW s, s \in Seq(UtxoRecords), NEW amount, NEW P \in Selections(s, amount)
  PROVE  P \subseteq DOMAIN s
BY DEF Selections, UnspentAt

\* The coins at them are finitely many.
LEMMA SelectionFinite ==
  ASSUME NEW s, s \in Seq(UtxoRecords), NEW amount, NEW P \in Selections(s, amount)
  PROVE  IsFiniteSet({s[p] : p \in P})
<1>1. P \subseteq DOMAIN s
  BY SelectionsListed
<1>2. IsFiniteSet(P)
  BY <1>1, FS_Interval, FS_Subset
<1> DEFINE entry == [p \in P |-> s[p]]
<1>3. entry \in Surjection(P, {s[p] : p \in P})
  BY DEF Surjection
<1> HIDE DEF entry
<1> QED BY <1>2, <1>3, FS_Surjection

-----------------------------------------------------------------------------
(* Types, action by action. *)

\* The initial fields and records have their types.
LEMMA InitTyped == SpendInit => SpendTypeOK
<1> SUFFICES ASSUME SpendInit PROVE SpendTypeOK
  OBVIOUS
<1>1. InitCoins \in Seq(UtxoRecords) /\ \A j \in DOMAIN InitCoins : InitCoins[j] \in UtxoRecords
  BY CoinsAssumption
<1>2. \A o \in InitKeys : InitAt(o) \in DOMAIN InitCoins /\ Outpoint(InitCoins[InitAt(o)]) = o
  BY DEF InitKeys, InitAt
<1>3. IsFiniteSet(InitKeys) /\ InitKeys \subseteq Outpoints
  <2>1. IsFiniteSet(DOMAIN InitCoins)
    BY <1>1, FS_Interval
  <2> DEFINE key == [j \in DOMAIN InitCoins |-> Outpoint(InitCoins[j])]
  <2>2. key \in Surjection(DOMAIN InitCoins, InitKeys)
    BY DEF Surjection, InitKeys
  <2>3. IsFiniteSet(InitKeys)
    <3> HIDE DEF key
    <3> QED BY <2>1, <2>2, FS_Surjection
  <2>4. \A j \in DOMAIN InitCoins : Outpoint(InitCoins[j]) \in Outpoints
    BY <1>1 DEF Outpoint, Outpoints, UtxoRecords
  <2> QED BY <2>3, <2>4 DEF InitKeys
<1>4. InitValue \in Int
  <2> DEFINE f == [j \in DOMAIN InitCoins |-> InitCoins[j].value]
  <2>1. \A j \in DOMAIN InitCoins : f[j] \in Int
    BY CoinsAssumption
  <2>2. IsFiniteSet(DOMAIN InitCoins)
    BY <1>1, FS_Interval
  <2>3. InitValue = SumFunctionOnSet(f, DOMAIN InitCoins)
    BY DEF InitValue, SumFunction
  <2> HIDE DEF f
  <2> QED BY <2>1, <2>2, <2>3, SumTyped
<1>5. StoreTypeOK
  BY <1>1, <1>2, <1>3, <1>4 DEF SpendInit, StoreTypeOK
<1>6. nodeCoins \in [DOMAIN nodeCoins -> Int] /\ DOMAIN nodeCoins = InitKeys /\ nodeSpent = {}
  BY <1>1, <1>2 DEF SpendInit, UtxoRecords
<1>7. send \in [Sends -> SendStates] /\ balancer \in [Sends -> BalancerStates]
  BY DEF SpendInit, SendStates, BalancerStates, NoWrite
<1>8. marker \in [Sends -> MarkerStates] /\ \A i \in Sends : marker[i].pc = "idle"
  BY DEF SpendInit, MarkerStates, NoMark
<1>9. changer \in [Sends -> ChangerStates]
  <2>1. <<>> \in Seq(UtxoRecords)
    OBVIOUS
  <2> QED BY <2>1 DEF SpendInit, ChangerStates, NoCopy
<1> QED BY <1>3, <1>5, <1>6, <1>7, <1>8, <1>9 DEF SpendInit, SpendTypeOK

\* The bookkeeping stays well typed when no step touches it.
LEMMA StoreKept == ASSUME StoreTypeOK, UNCHANGED storeVars PROVE StoreTypeOK'
BY DEF StoreTypeOK, storeVars

\* So is the number of failures.
LEMMA FaultTyped ==
  ASSUME SpendTypeOK, SendFault \/ UNCHANGED sendFaults
  PROVE  sendFaults' \in Nat
BY DEF SpendTypeOK, SendFault

\* The handlers' steps that the node does not see.
LEMMA HandlerTyped ==
  ASSUME SpendTypeOK, NEW i \in Sends,
         \/ \E amount \in Amounts : CheckFunds(i, amount)
         \/ SelectFails(i) \/ Rejected(i) \/ SendFails(i)
  PROVE  SpendTypeOK'
<1>1. /\ UNCHANGED <<storeVars, nodeVars, workerVars, sendCrashes>>
      /\ SendFault \/ UNCHANGED sendFaults
  BY DEF CheckFunds, SelectFails, Rejected, SendFails
<1>2. send' \in [Sends -> SendStates]
  <2>1. CASE End(i)
    BY <2>1 DEF End, SpendTypeOK, SendStates
  <2>2. ASSUME NEW amount \in Amounts, CheckFunds(i, amount)
        PROVE  send' \in [Sends -> SendStates]
    <3>1. send \in [Sends -> SendStates]
      BY DEF SpendTypeOK
    <3>2. ASSUME NEW r \in SendStates, NEW p \in {"over", "select"}
          PROVE  [r EXCEPT !.amount = amount, !.pc = p] \in SendStates
      BY DEF SendStates
    <3>3. PICK p \in {"over", "select"} :
            send' = [send EXCEPT ![i].amount = amount, ![i].pc = p]
      BY <2>2 DEF CheckFunds
    <3>4. send' = [send EXCEPT ![i] = [send[i] EXCEPT !.amount = amount, !.pc = p]]
      BY <3>1, <3>3 DEF SendStates
    <3> QED BY <3>1, <3>2, <3>4
  <2> QED BY <2>1, <2>2 DEF SelectFails, Rejected, SendFails
<1> QED BY <1>1, <1>2, StoreKept, FaultTyped DEF SpendTypeOK, nodeVars, workerVars, storeVars

\* A selection is a set of records.
LEMMA SelectTyped ==
  ASSUME SpendTypeOK, NEW i \in Sends, Select(i)
  PROVE  SpendTypeOK'
<1>1. PICK P \in Selections(memUtxos, send[i].amount) :
        send' = [send EXCEPT ![i].pc = "broadcast", ![i].inputs = {memUtxos[p] : p \in P}]
  BY DEF Select
<1>2. memUtxos \in Seq(UtxoRecords)
  BY DEF SpendTypeOK, StoreTypeOK
<1>3. P \subseteq DOMAIN memUtxos
  BY <1>2, SelectionsListed
<1>4. {memUtxos[p] : p \in P} \in SUBSET UtxoRecords
  BY <1>2, <1>3
<1>5. send' \in [Sends -> SendStates]
  BY <1>1, <1>4 DEF SpendTypeOK, SendStates
<1> QED BY <1>5, StoreKept DEF Select, SpendTypeOK, nodeVars, workerVars, storeVars

\* The node's coins stay a finite function.
LEMMA NodeTyped ==
  ASSUME SpendTypeOK, NEW i \in Sends, IsFiniteSet(send[i].inputs),
         Broadcast(i) \/ ReplyLost(i)
  PROVE  SpendTypeOK'
<1>1. /\ NodeAccepts(i) /\ UNCHANGED <<storeVars, workerVars, sendCrashes>>
      /\ SendFault \/ UNCHANGED sendFaults
  BY DEF Broadcast, ReplyLost
<1>2. Outpoint(Change(i)) \in Outpoints /\ ChangeValue(i) \in Int
  BY ChangeTyped, KeysDiffer
<1>3. /\ DOMAIN nodeCoins' = DOMAIN nodeCoins \cup {Outpoint(Change(i))}
      /\ nodeCoins' \in [DOMAIN nodeCoins' -> Int]
      /\ nodeSpent' \subseteq DOMAIN nodeCoins'
  BY <1>1, <1>2 DEF NodeAccepts, Acceptable, SpendTypeOK
<1>4. IsFiniteSet(DOMAIN nodeCoins')
  BY <1>3, FS_AddElement DEF SpendTypeOK
<1>5. send' \in [Sends -> SendStates]
  <2>1. CASE send' = [send EXCEPT ![i].pc = "update"]
    BY <2>1 DEF SpendTypeOK, SendStates
  <2>2. CASE End(i)
    BY <2>2 DEF End, SpendTypeOK, SendStates
  <2> QED BY <2>1, <2>2 DEF Broadcast, ReplyLost
<1> QED BY <1>1, <1>2, <1>3, <1>4, <1>5, StoreKept, FaultTyped
        DEF SpendTypeOK, workerVars, storeVars

\* updateWalletAfterTx hands the goroutines well-typed arguments.
LEMMA UpdateTyped ==
  ASSUME SpendTypeOK, NEW i \in Sends, IsFiniteSet(send[i].inputs), UpdateWallet(i)
  PROVE  SpendTypeOK'
<1>1. send' \in [Sends -> SendStates]
  BY DEF UpdateWallet, End, SpendTypeOK, SendStates
<1>2. /\ marker' \in [Sends -> MarkerStates]
      /\ \A k \in Sends : marker'[k].pc = "set" => marker[k].pc = "set" /\ marker'[k].at = marker[k].at
  <2>1. send[i].inputs \in SUBSET UtxoRecords
    BY DEF SpendTypeOK, SendStates
  <2> QED BY <2>1 DEF UpdateWallet, SpendTypeOK, MarkerStates
<1>3. changer' \in [Sends -> ChangerStates]
  BY DEF UpdateWallet, SpendTypeOK, ChangerStates
<1>4. balancer' \in [Sends -> BalancerStates]
  <2>1. memBalance - send[i].amount - Fee(i) \in Int
    <3>1. Fee(i) \in Int /\ send[i].amount \in Int /\ memBalance \in Int
      BY ChangeTyped, SendAssumption DEF SpendTypeOK, StoreTypeOK, SendStates
    <3> QED BY <3>1
  <2> QED BY <2>1 DEF UpdateWallet, SpendTypeOK, BalancerStates
<1> QED BY <1>1, <1>2, <1>3, <1>4, StoreKept DEF UpdateWallet, SpendTypeOK, nodeVars, storeVars

\* markSpentUTXOs writes records and sets flags of entries that exist.
LEMMA MarkerTyped ==
  ASSUME SpendTypeOK, NEW i \in Sends, MarkerStep(i)
  PROVE  SpendTypeOK'
<1>1. ASSUME NEW u \in marker[i].todo, MarkInDb(i, u) PROVE SpendTypeOK'
  <2>1. u \in UtxoRecords
    BY DEF SpendTypeOK, MarkerStates
  <2>2. memUtxos \in Seq(UtxoRecords) /\ DOMAIN memUtxos = 1 .. Len(memUtxos)
    BY DEF SpendTypeOK, StoreTypeOK
  <2>3. Min(Matches(u)) \in DOMAIN memUtxos
    <3>1. Matches(u) \subseteq Nat /\ Matches(u) # {} /\ Matches(u) \subseteq DOMAIN memUtxos
      BY <1>1, <2>2 DEF MarkInDb, Matches
    <3>2. \E x \in Matches(u) : \A y \in Matches(u) : x <= y
      BY <3>1, LeastNat
    <3>3. Min(Matches(u)) \in Matches(u)
      BY <3>2 DEF Min
    <3> QED BY <3>1, <3>3
  <2>4. /\ marker' \in [Sends -> MarkerStates]
        /\ \A k \in Sends : marker'[k].pc = "set" => marker'[k].at \in DOMAIN memUtxos
    <3>1. Min(Matches(u)) \in Nat \ {0}
      BY <2>2, <2>3
    <3> QED BY <1>1, <2>3, <3>1 DEF MarkInDb, SpendTypeOK, MarkerStates
  <2>5. StoreTypeOK'
    <3>1. DOMAIN dbUtxos' = DOMAIN dbUtxos
      BY <1>1 DEF MarkInDb, UpdateUtxo
    <3>2. dbUtxos' \in [DOMAIN dbUtxos' -> UtxoRecords]
      BY <1>1, <2>1, <3>1 DEF MarkInDb, UpdateUtxo, SpendTypeOK, StoreTypeOK
    <3>3. \A o \in DOMAIN dbUtxos' : Outpoint(dbUtxos'[o]) = o
      BY <1>1, <3>1 DEF MarkInDb, UpdateUtxo, SpendTypeOK, StoreTypeOK
    <3> QED BY <1>1, <3>1, <3>2, <3>3 DEF MarkInDb, SpendTypeOK, StoreTypeOK, memVars
  <2> QED BY <1>1, <2>4, <2>5 DEF MarkInDb, SpendTypeOK, nodeVars, memVars
<1>2. ASSUME NEW u \in marker[i].todo, MarkSkips(i, u) PROVE SpendTypeOK'
  <2>1. /\ marker' \in [Sends -> MarkerStates]
        /\ \A k \in Sends : marker'[k].pc = marker[k].pc /\ marker'[k].at = marker[k].at
    BY <1>2 DEF MarkSkips, SpendTypeOK, MarkerStates
  <2>2. sendFaults' \in Nat
    BY <1>2, FaultTyped DEF MarkSkips
  <2> QED BY <1>2, <2>1, <2>2, StoreKept DEF MarkSkips, SpendTypeOK, nodeVars, storeVars
<1>3. CASE MarkInMemory(i)
  <2>1. marker[i].at \in DOMAIN memUtxos /\ memUtxos \in Seq(UtxoRecords)
    BY <1>3 DEF MarkInMemory, SpendTypeOK, StoreTypeOK
  <2>2. [memUtxos[marker[i].at] EXCEPT !.spent = TRUE] \in UtxoRecords
    <3>1. ASSUME NEW r \in UtxoRecords PROVE [r EXCEPT !.spent = TRUE] \in UtxoRecords
      BY DEF UtxoRecords
    <3> QED BY <2>1, <3>1
  <2>3. memUtxos' = [memUtxos EXCEPT ![marker[i].at] = [memUtxos[marker[i].at] EXCEPT !.spent = TRUE]]
    BY <1>3 DEF MarkInMemory
  <2>4. memUtxos' \in Seq(UtxoRecords) /\ DOMAIN memUtxos' = DOMAIN memUtxos
    BY <2>1, <2>2, <2>3
  <2>5. /\ marker' \in [Sends -> MarkerStates]
        /\ \A k \in Sends : marker'[k].pc = "set" => marker[k].pc = "set" /\ marker'[k].at = marker[k].at
    BY <1>3 DEF MarkInMemory, SpendTypeOK, MarkerStates
  <2>6. StoreTypeOK'
    BY <1>3, <2>4 DEF MarkInMemory, SpendTypeOK, StoreTypeOK, dbVars
  <2> QED BY <1>3, <2>4, <2>5, <2>6 DEF MarkInMemory, SpendTypeOK, nodeVars, dbVars
<1>4. CASE MarkEnds(i)
  <2>1. /\ marker' \in [Sends -> MarkerStates]
        /\ \A k \in Sends : marker'[k].pc = "set" => marker[k].pc = "set" /\ marker'[k].at = marker[k].at
    BY <1>4 DEF MarkEnds, SpendTypeOK, MarkerStates
  <2> QED BY <1>4, <2>1, StoreKept DEF MarkEnds, SpendTypeOK, nodeVars, storeVars
<1> QED BY <1>1, <1>2, <1>3, <1>4 DEF MarkerStep

\* addChangeUTXO adds a record.
LEMMA ChangerTyped ==
  ASSUME SpendTypeOK, NEW i \in Sends, ChangerStep(i), IsFiniteSet(send[i].inputs),
         Storing(i) => DOMAIN memUtxos \subseteq DOMAIN changer[i].copy
  PROVE  SpendTypeOK'
<1>0. Change(i) \in UtxoRecords
  BY ChangeTyped
<1>1. /\ memUtxos \in Seq(UtxoRecords) /\ <<>> \in Seq(UtxoRecords)
      /\ Append(memUtxos, Change(i)) \in Seq(UtxoRecords)
      /\ DOMAIN memUtxos \subseteq DOMAIN Append(memUtxos, Change(i))
  BY <1>0 DEF SpendTypeOK, StoreTypeOK
<1>2. CASE ChangeSave(i)
  <2>1. changer' \in [Sends -> ChangerStates]
    BY <1>2 DEF ChangeSave, SpendTypeOK, ChangerStates
  <2>2. StoreTypeOK'
    BY <1>0, <1>2, SaveUtxoKeeps DEF ChangeSave, SpendTypeOK, StoreTypeOK, memVars
  <2> QED BY <1>2, <2>1, <2>2 DEF ChangeSave, SpendTypeOK, nodeVars, memVars
<1>3. CASE ChangeSaveFails(i)
  <2>1. changer' \in [Sends -> ChangerStates]
    BY <1>3 DEF ChangeSaveFails, SpendTypeOK, ChangerStates
  <2>2. sendFaults' \in Nat
    BY <1>3, FaultTyped DEF ChangeSaveFails
  <2> QED BY <1>3, <2>1, <2>2, StoreKept DEF ChangeSaveFails, SpendTypeOK, nodeVars, storeVars
<1>4. CASE ChangeAppend(i)
  <2>1. changer' \in [Sends -> ChangerStates]
    BY <1>4 DEF ChangeAppend, SpendTypeOK, ChangerStates
  <2>2. StoreTypeOK'
    BY <1>1, <1>4 DEF ChangeAppend, AppendUtxo, SpendTypeOK, StoreTypeOK, dbVars
  <2> QED BY <1>1, <1>4, <2>1, <2>2
          DEF ChangeAppend, AppendUtxo, SpendTypeOK, nodeVars
<1>5. CASE ChangeCopy(i)
  <2>1. changer' \in [Sends -> ChangerStates]
    BY <1>1, <1>5 DEF ChangeCopy, SpendTypeOK, ChangerStates
  <2> QED BY <1>5, <2>1, StoreKept DEF ChangeCopy, SpendTypeOK, nodeVars, storeVars
<1>6. CASE ChangeStore(i)
  <2>1. changer' \in [Sends -> ChangerStates]
    BY <1>1, <1>6 DEF ChangeStore, SpendTypeOK, ChangerStates
  <2>2. memUtxos' \in Seq(UtxoRecords) /\ DOMAIN memUtxos \subseteq DOMAIN memUtxos'
    BY <1>6 DEF ChangeStore, SpendTypeOK, ChangerStates, Storing
  <2>3. StoreTypeOK'
    BY <1>6, <2>2 DEF ChangeStore, SpendTypeOK, StoreTypeOK, dbVars
  <2> QED BY <1>6, <2>1, <2>2, <2>3 DEF ChangeStore, SpendTypeOK, nodeVars
<1> QED BY <1>2, <1>3, <1>4, <1>5, <1>6 DEF ChangerStep

\* setBalance writes an integer.
LEMMA BalancerTyped ==
  ASSUME SpendTypeOK, NEW i \in Sends, BalancerStep(i)
  PROVE  SpendTypeOK'
<1>1. balancer' \in [Sends -> BalancerStates]
  BY DEF BalancerStep, BalanceSave, BalanceSaveFails, BalanceSet, SpendTypeOK, BalancerStates
<1>2. balancer[i].value \in Int
  BY DEF SpendTypeOK, BalancerStates
<1>3. StoreTypeOK' /\ UNCHANGED memUtxos
  <2>1. CASE BalanceSave(i)
    BY <1>2, <2>1 DEF BalanceSave, SaveBalance, SpendTypeOK, StoreTypeOK, memVars
  <2>2. CASE BalanceSaveFails(i)
    BY <2>2, StoreKept DEF BalanceSaveFails, SpendTypeOK, storeVars
  <2>3. CASE BalanceSet(i)
    BY <1>2, <2>3 DEF BalanceSet, SetBalance, SpendTypeOK, StoreTypeOK, dbVars
  <2> QED BY <2>1, <2>2, <2>3 DEF BalancerStep
<1>4. sendFaults' \in Nat
  BY FaultTyped DEF BalancerStep, BalanceSave, BalanceSaveFails, BalanceSet
<1> QED BY <1>1, <1>3, <1>4
        DEF BalancerStep, BalanceSave, BalanceSaveFails, BalanceSet, SpendTypeOK, nodeVars

\* The next process starts from well-typed fields.
LEMMA RestartTyped ==
  ASSUME SpendTypeOK, SpendRestart
  PROVE  SpendTypeOK'
<1>1. send' \in [Sends -> SendStates]
  <2>1. ASSUME NEW i \in Sends PROVE [send[i] EXCEPT !.pc = "over"] \in SendStates
    BY DEF SpendTypeOK, SendStates
  <2> QED BY <2>1 DEF SpendRestart, SpendTypeOK
<1>2. marker' \in [Sends -> MarkerStates] /\ \A i \in Sends : marker'[i].pc = "idle"
  BY DEF SpendRestart, NoMark, MarkerStates
<1>3. changer' \in [Sends -> ChangerStates]
  <2>1. <<>> \in Seq(UtxoRecords)
    OBVIOUS
  <2> QED BY <2>1 DEF SpendRestart, NoCopy, ChangerStates
<1>4. balancer' \in [Sends -> BalancerStates]
  BY DEF SpendRestart, NoWrite, BalancerStates
<1>5. StoreTypeOK'
  <2>1. StoreTypeOK /\ LoadWallet /\ UNCHANGED dbVars
    BY DEF SpendTypeOK, SpendRestart
  <2> QED BY <2>1, LoadWalletLists DEF StoreTypeOK, LoadWallet, dbVars
<1>6. sendCrashes' \in Nat
  BY DEF SpendRestart, SpendTypeOK
<1> QED BY <1>1, <1>2, <1>3, <1>4, <1>5, <1>6 DEF SpendRestart, SpendTypeOK, nodeVars

-----------------------------------------------------------------------------
(* Coins: every step keeps CoinInv. *)

\* The wallet starts with its coins, each listed once.
LEMMA InitCoinInv == SpendInit => CoinInv
<1> SUFFICES ASSUME SpendInit PROVE CoinInv
  OBVIOUS
<1>1. \A o \in InitKeys : InitAt(o) \in DOMAIN InitCoins /\ Outpoint(InitCoins[InitAt(o)]) = o
  BY DEF InitKeys, InitAt
<1>2. \A j \in DOMAIN InitCoins : Outpoint(InitCoins[j]) \in InitKeys
  BY DEF InitKeys
<1>3. \A j \in DOMAIN InitCoins : InitAt(Outpoint(InitCoins[j])) = j
  BY <1>1, <1>2, CoinsAssumption
<1>4. CoinsExist
  BY <1>1, <1>2, <1>3 DEF SpendInit, CoinsExist, Range
<1>5. ChangeInv
  BY KeysDiffer DEF SpendInit, ChangeInv, Early, Unlisted, NoCopy
<1>6. InputsInv
  BY FS_EmptySet DEF SpendInit, InputsInv, NoMark
<1>7. ListInv
  BY CoinsAssumption DEF SpendInit, ListInv, NoneTwice, Unlisted, Storing, NoCopy
<1> QED BY <1>4, <1>5, <1>6, <1>7, InitTyped DEF CoinInv

\* The coins of the wallet keep existing as long as the node forgets none.
NodeKeeps ==
  /\ nodeSpent \subseteq nodeSpent'
  /\ \A o \in DOMAIN nodeCoins : o \in DOMAIN nodeCoins' /\ nodeCoins'[o] = nodeCoins[o]

\* What exists goes on to exist.
LEMMA ExistsKept == ASSUME NodeKeeps, NEW u, Exists(u) PROVE Exists(u)'
BY DEF NodeKeeps, Exists

\* A handler that ends, or goes on to its broadcast, before it has paid.
LEMMA HandlerKeeps ==
  ASSUME CoinInv, NEW i \in Sends, Early(i),
         UNCHANGED <<storeVars, nodeVars, workerVars>>,
         \A k \in Sends : k # i => send'[k] = send[k],
         send'[i].pc \in {"select", "broadcast", "over"},
         IsFiniteSet(send'[i].inputs),
         \A u \in send'[i].inputs : Exists(u),
         \A u, v \in send'[i].inputs : Outpoint(u) = Outpoint(v) => u = v
  PROVE  CoinsExist' /\ ChangeInv' /\ InputsInv' /\ ListInv'
<1>0. /\ UNCHANGED <<memUtxos, dbUtxos, nodeCoins, nodeSpent, marker, changer>>
  BY DEF storeVars, nodeVars, workerVars
<1>1. CoinsExist'
  BY <1>0 DEF CoinInv, CoinsExist
<1>2. \A k \in Sends : /\ Early(k)' => Early(k)
                       /\ Unlisted(k)' => Unlisted(k) /\ k # i
  BY <1>0 DEF CoinInv, ChangeInv, Early, Unlisted
<1>3. ChangeInv'
  <2>1. ASSUME NEW k \in Sends, Unlisted(k)' PROVE Exists(Change(k))'
    <3>1. Change(k)' = Change(k) /\ Exists(Change(k))
      BY <1>2, <2>1, ChangeSettled DEF CoinInv, ChangeInv
    <3> QED BY <1>0, <3>1 DEF Exists
  <2>2. \A k \in Sends : send'[k].pc # "over" => changer[k].pc = "idle"
    BY DEF CoinInv, ChangeInv, Early
  <2> QED BY <1>0, <1>2, <2>1, <2>2 DEF CoinInv, ChangeInv
<1>4. InputsInv'
  <2> SUFFICES ASSUME NEW k \in Sends
               PROVE  /\ IsFiniteSet(send'[k].inputs)
                      /\ \A u \in send'[k].inputs : Exists(u)'
                      /\ \A u, v \in send'[k].inputs : Outpoint(u) = Outpoint(v) => u = v
                      /\ send'[k].pc = "update" => \A u \in send'[k].inputs : Outpoint(u) \in nodeSpent
                      /\ marker[k].todo \subseteq send'[k].inputs
                      /\ Early(k)' => marker[k].todo = {}
                      /\ \A u \in marker[k].todo : Outpoint(u) \in nodeSpent
    BY <1>0 DEF InputsInv, Outpoint
  <2>1. CASE k = i
    BY <1>0, <2>1 DEF CoinInv, InputsInv, Exists
  <2>2. CASE k # i
    BY <1>0, <1>2, <2>2 DEF CoinInv, InputsInv, Exists
  <2> QED BY <2>1, <2>2
<1>5. ListInv'
  <2>1. \A s : AllExist(s)' <=> AllExist(s)
    BY <1>0 DEF AllExist, Exists
  <2> QED BY <1>0, <1>2, <2>1 DEF CoinInv, ListInv, Storing
<1> QED BY <1>1, <1>3, <1>4, <1>5

\* A call leaves its early stages in every step that the handler takes before
\* the wallet is updated, but one that is the broadcast of a transaction.
LEMMA QuietKeeps ==
  ASSUME CoinInv, NEW i \in Sends,
         \/ \E amount \in Amounts : CheckFunds(i, amount)
         \/ SelectFails(i) \/ Rejected(i) \/ SendFails(i)
  PROVE  CoinsExist' /\ ChangeInv' /\ InputsInv' /\ ListInv'
<1>1. Early(i) /\ UNCHANGED <<storeVars, nodeVars, workerVars>>
  BY DEF Early, CheckFunds, SelectFails, Rejected, SendFails
<1>2. send \in [Sends -> SendStates]
  BY DEF CoinInv, SpendTypeOK
<1>3. \A k \in Sends : k # i => send'[k] = send[k]
  BY <1>2 DEF CheckFunds, SelectFails, Rejected, SendFails, End
<1>4. send'[i].inputs = send[i].inputs /\ send'[i].pc \in {"select", "over"}
  <2>1. CASE End(i)
    BY <1>2, <2>1 DEF End, SendStates
  <2>2. ASSUME NEW amount \in Amounts, CheckFunds(i, amount)
        PROVE  send'[i].inputs = send[i].inputs /\ send'[i].pc \in {"select", "over"}
    BY <1>2, <2>2 DEF CheckFunds, SendStates
  <2> QED BY <2>1, <2>2 DEF SelectFails, Rejected, SendFails
<1>5. /\ IsFiniteSet(send'[i].inputs)
      /\ \A u \in send'[i].inputs : Exists(u)
      /\ \A u, v \in send'[i].inputs : Outpoint(u) = Outpoint(v) => u = v
  BY <1>4 DEF CoinInv, InputsInv
<1> QED BY <1>1, <1>3, <1>4, <1>5, HandlerKeeps

\* The inputs are coins of the list, each taken once.
LEMMA SelectKeeps ==
  ASSUME CoinInv, NEW i \in Sends, Select(i)
  PROVE  CoinsExist' /\ ChangeInv' /\ InputsInv' /\ ListInv'
<1>1. Early(i) /\ UNCHANGED <<storeVars, nodeVars, workerVars>>
  BY DEF Early, Select
<1>2. send \in [Sends -> SendStates] /\ memUtxos \in Seq(UtxoRecords)
  BY DEF CoinInv, SpendTypeOK, StoreTypeOK
<1>3. PICK P \in Selections(memUtxos, send[i].amount) :
        send' = [send EXCEPT ![i].pc = "broadcast", ![i].inputs = {memUtxos[p] : p \in P}]
  BY DEF Select
<1>4. /\ \A k \in Sends : k # i => send'[k] = send[k]
      /\ send'[i].pc = "broadcast" /\ send'[i].inputs = {memUtxos[p] : p \in P}
  BY <1>2, <1>3 DEF SendStates
<1>5. P \subseteq DOMAIN memUtxos
  BY <1>2, SelectionsListed
<1>6. IsFiniteSet({memUtxos[p] : p \in P})
  BY <1>2, <1>3, SelectionFinite
<1>7. \A p \in P : Exists(memUtxos[p])
  BY <1>5 DEF CoinInv, CoinsExist, Exists, Range
<1>8. \A p, q \in P : Outpoint(memUtxos[p]) = Outpoint(memUtxos[q]) => p = q
  BY <1>5 DEF CoinInv, ListInv, NoneTwice
<1>9. /\ IsFiniteSet(send'[i].inputs)
      /\ \A u \in send'[i].inputs : Exists(u)
      /\ \A u, v \in send'[i].inputs : Outpoint(u) = Outpoint(v) => u = v
  BY <1>4, <1>6, <1>7, <1>8
<1> QED BY <1>1, <1>4, <1>9, HandlerKeeps

\* The node takes the transaction: its change comes into existence.
LEMMA NodeStepKeeps ==
  ASSUME CoinInv, NEW i \in Sends, Broadcast(i) \/ ReplyLost(i)
  PROVE  CoinsExist' /\ ChangeInv' /\ InputsInv' /\ ListInv'
<1>1. /\ NodeAccepts(i) /\ UNCHANGED <<memUtxos, dbUtxos, marker, changer>>
      /\ Early(i) /\ changer[i].pc = "idle"
  BY DEF CoinInv, ChangeInv, Broadcast, ReplyLost, NodeAccepts, Early, storeVars, workerVars
<1>2. send \in [Sends -> SendStates]
  BY DEF CoinInv, SpendTypeOK
<1>3. /\ \A k \in Sends : k # i => send'[k] = send[k]
      /\ send'[i].inputs = send[i].inputs /\ send'[i].amount = send[i].amount
      /\ send'[i].pc \in {"update", "over"}
  <2>1. CASE Broadcast(i)
    BY <1>2, <2>1 DEF Broadcast, SendStates
  <2>2. CASE ReplyLost(i)
    BY <1>2, <2>2 DEF ReplyLost, End, SendStates
  <2> QED BY <2>1, <2>2
<1>4. /\ Outpoint(Change(i)) = ChangeKey(i) /\ Change(i).value = ChangeValue(i)
      /\ ChangeKey(i) \notin DOMAIN nodeCoins
  BY <1>1, ChangeTyped DEF CoinInv, InputsInv, ChangeInv
<1>5. /\ NodeKeeps
      /\ DOMAIN nodeCoins' = DOMAIN nodeCoins \cup {ChangeKey(i)}
      /\ nodeCoins'[ChangeKey(i)] = ChangeValue(i)
      /\ \A u \in send[i].inputs : Outpoint(u) \in nodeSpent'
  BY <1>1, <1>4 DEF NodeAccepts, NodeKeeps
<1>6. \A k \in Sends : /\ Change(k)' = Change(k)
                       /\ Early(k)' => Early(k) /\ k # i
                       /\ Unlisted(k)' => Unlisted(k) \/ k = i
  BY <1>1, <1>3, ChangeSettled DEF Early, Unlisted
<1>7. CoinsExist'
  <2>1. \A u : Exists(u) => Exists(u)'
    BY <1>5, ExistsKept
  <2> QED BY <1>1, <2>1 DEF CoinInv, CoinsExist, Exists
<1>8. ChangeInv'
  <2>1. DOMAIN nodeCoins' \subseteq InitKeys \cup {ChangeKey(k) : k \in Sends}
    BY <1>5 DEF CoinInv, ChangeInv
  <2>2. ASSUME NEW k \in Sends, Early(k)' PROVE ChangeKey(k) \notin DOMAIN nodeCoins'
    <3>1. Early(k) /\ k # i
      BY <1>6, <2>2
    <3>2. ChangeKey(k) # ChangeKey(i)
      BY <3>1, KeysDiffer
    <3> QED BY <1>1, <1>5, <3>1, <3>2 DEF CoinInv, ChangeInv
  <2>3. ASSUME NEW k \in Sends, Unlisted(k)' PROVE Exists(Change(k))'
    <3>1. CASE k = i
      BY <1>4, <1>5, <1>6, <3>1 DEF Exists
    <3>2. CASE k # i
      <4>1. Exists(Change(k))
        BY <1>6, <2>3, <3>2 DEF CoinInv, ChangeInv
      <4> QED BY <1>5, <1>6, <4>1, ExistsKept DEF Exists
    <3> QED BY <3>1, <3>2
  <2>4. \A k \in Sends : send'[k].pc # "over" => changer'[k].pc = "idle"
    BY <1>1, <1>3 DEF CoinInv, ChangeInv
  <2> QED BY <2>1, <2>2, <2>3, <2>4 DEF ChangeInv
<1>9. InputsInv'
  <2> SUFFICES ASSUME NEW k \in Sends
               PROVE  /\ IsFiniteSet(send'[k].inputs)
                      /\ \A u \in send'[k].inputs : Exists(u)'
                      /\ \A u, v \in send'[k].inputs : Outpoint(u) = Outpoint(v) => u = v
                      /\ send'[k].pc = "update" => \A u \in send'[k].inputs : Outpoint(u) \in nodeSpent'
                      /\ marker[k].todo \subseteq send'[k].inputs
                      /\ Early(k)' => marker[k].todo = {}
                      /\ \A u \in marker[k].todo : Outpoint(u) \in nodeSpent'
    BY <1>1 DEF InputsInv, Outpoint
  <2>1. send'[k].inputs = send[k].inputs
    BY <1>3
  <2>2. \A u \in send[k].inputs : Exists(u)'
    BY <1>5, ExistsKept DEF CoinInv, InputsInv
  <2>3. nodeSpent \subseteq nodeSpent'
    BY <1>5 DEF NodeKeeps
  <2>4. send'[k].pc = "update" => \A u \in send[k].inputs : Outpoint(u) \in nodeSpent'
    <3>1. CASE k = i
      BY <1>5, <3>1
    <3>2. CASE k # i
      BY <1>3, <2>3, <3>2 DEF CoinInv, InputsInv
    <3> QED BY <3>1, <3>2
  <2> QED BY <1>6, <2>1, <2>2, <2>3, <2>4 DEF CoinInv, InputsInv
<1>10. ListInv'
  <2>1. ASSUME NEW s, AllExist(s) PROVE AllExist(s)' /\ ChangeKey(i) \notin Listed(s)
    <3>1. \A j \in DOMAIN s : Exists(s[j]) /\ Exists(s[j])'
      BY <1>5, <2>1, ExistsKept DEF AllExist
    <3> QED BY <1>4, <3>1 DEF AllExist, Exists, Listed
  <2>2. AllExist(memUtxos)
    BY DEF CoinInv, CoinsExist, AllExist, Exists, Range
  <2>3. \A k \in Sends : Storing(k)' <=> Storing(k)
    BY <1>1 DEF Storing
  <2>4. \A k \in Sends : Unlisted(k)' => ChangeKey(k) \notin Listed(memUtxos)
    BY <1>6, <2>1, <2>2 DEF CoinInv, ListInv
  <2>5. ASSUME NEW k \in Sends, Storing(k)
        PROVE  /\ AllExist(changer[k].copy)'
               /\ \A l \in Sends : Unlisted(l)' => ChangeKey(l) \notin Listed(changer[k].copy)
    BY <1>1, <1>6, <2>1, <2>5 DEF CoinInv, ListInv
  <2> QED BY <1>1, <2>3, <2>4, <2>5 DEF CoinInv, ListInv, AllExist, NoneTwice, Listed
<1> QED BY <1>7, <1>8, <1>9, <1>10

\* The wallet's goroutines are started.
LEMMA UpdateKeeps ==
  ASSUME CoinInv, NEW i \in Sends, UpdateWallet(i)
  PROVE  CoinsExist' /\ ChangeInv' /\ InputsInv' /\ ListInv'
<1>1. /\ send[i].pc = "update" /\ UNCHANGED <<memUtxos, dbUtxos, nodeCoins, nodeSpent>>
  BY DEF UpdateWallet, storeVars, nodeVars
<1>2. /\ send \in [Sends -> SendStates] /\ marker \in [Sends -> MarkerStates]
      /\ changer \in [Sends -> ChangerStates]
  BY DEF CoinInv, SpendTypeOK
<1>3. \A k \in Sends : /\ send'[k].inputs = send[k].inputs /\ send'[k].amount = send[k].amount
                       /\ send'[k].pc = IF k = i THEN "over" ELSE send[k].pc
  BY <1>2 DEF UpdateWallet, End, SendStates
<1>4. \A k \in Sends : marker'[k].todo = IF k = i THEN send[i].inputs ELSE marker[k].todo
  BY <1>2 DEF UpdateWallet, MarkerStates
<1>5. \A k \in Sends : /\ changer'[k].pc = IF k = i THEN "save" ELSE changer[k].pc
                       /\ changer'[k].copy = changer[k].copy
  BY <1>2 DEF UpdateWallet, ChangerStates
<1>6. \A k \in Sends : /\ Change(k)' = Change(k)
                       /\ Early(k)' => Early(k) /\ k # i
                       /\ Unlisted(k)' => Unlisted(k)
                       /\ Storing(k)' => Storing(k) /\ k # i
  BY <1>1, <1>3, <1>5, ChangeSettled DEF Early, Unlisted, Storing
<1>7. CoinsExist'
  BY <1>1 DEF CoinInv, CoinsExist
<1>8. ChangeInv'
  <2>1. \A k \in Sends : Unlisted(k)' => Exists(Change(k))'
    BY <1>1, <1>6 DEF CoinInv, ChangeInv, Exists
  <2>2. \A k \in Sends : send'[k].pc # "over" => changer'[k].pc = "idle"
    BY <1>3, <1>5 DEF CoinInv, ChangeInv
  <2> QED BY <1>1, <1>6, <2>1, <2>2 DEF CoinInv, ChangeInv
<1>9. InputsInv'
  <2> SUFFICES ASSUME NEW k \in Sends
               PROVE  /\ IsFiniteSet(send'[k].inputs)
                      /\ \A u \in send'[k].inputs : Exists(u)'
                      /\ \A u, v \in send'[k].inputs : Outpoint(u) = Outpoint(v) => u = v
                      /\ send'[k].pc = "update" => \A u \in send'[k].inputs : Outpoint(u) \in nodeSpent
                      /\ marker'[k].todo \subseteq send'[k].inputs
                      /\ Early(k)' => marker'[k].todo = {}
                      /\ \A u \in marker'[k].todo : Outpoint(u) \in nodeSpent
    BY <1>1 DEF InputsInv, Outpoint
  <2>1. CASE k = i
    BY <1>1, <1>3, <1>4, <1>6, <2>1 DEF CoinInv, InputsInv, Exists
  <2>2. CASE k # i
    BY <1>1, <1>3, <1>4, <1>6, <2>2 DEF CoinInv, InputsInv, Exists
  <2> QED BY <2>1, <2>2
<1>10. ListInv'
  <2>1. \A s : AllExist(s)' <=> AllExist(s)
    BY <1>1 DEF AllExist, Exists
  <2> QED BY <1>1, <1>5, <1>6, <2>1 DEF CoinInv, ListInv
<1> QED BY <1>7, <1>8, <1>9, <1>10

\* Steps of the marking goroutines.
LEMMA MarkerKeeps ==
  ASSUME CoinInv, NEW i \in Sends, MarkerStep(i)
  PROVE  CoinsExist' /\ ChangeInv' /\ InputsInv' /\ ListInv'
<1>1. UNCHANGED <<nodeCoins, nodeSpent, send, changer>>
  BY DEF MarkerStep, MarkInDb, MarkSkips, MarkInMemory, MarkEnds, nodeVars
<1>2. /\ memUtxos \in Seq(UtxoRecords) /\ marker \in [Sends -> MarkerStates]
      /\ \A k \in Sends : marker[k].pc = "set" => marker[k].at \in DOMAIN memUtxos
  BY DEF CoinInv, SpendTypeOK, StoreTypeOK
<1>3. /\ DOMAIN memUtxos' = DOMAIN memUtxos
      /\ \A j \in DOMAIN memUtxos : /\ Outpoint(memUtxos'[j]) = Outpoint(memUtxos[j])
                                    /\ memUtxos'[j].value = memUtxos[j].value
  <2>1. CASE MarkInMemory(i)
    BY <1>2, <2>1 DEF MarkInMemory, UtxoRecords, Outpoint
  <2>2. CASE UNCHANGED memUtxos
    BY <2>2
  <2> QED BY <2>1, <2>2 DEF MarkerStep, MarkInDb, MarkSkips, MarkEnds, storeVars, memVars
<1>4. \A k \in Sends : marker'[k].todo \subseteq marker[k].todo
  <2>1. ASSUME NEW u \in marker[i].todo, MarkInDb(i, u)
        PROVE  \A k \in Sends : marker'[k].todo \subseteq marker[k].todo
    BY <1>2, <2>1 DEF MarkInDb, MarkerStates
  <2>2. ASSUME NEW u \in marker[i].todo, MarkSkips(i, u)
        PROVE  \A k \in Sends : marker'[k].todo \subseteq marker[k].todo
    BY <1>2, <2>2 DEF MarkSkips, MarkerStates
  <2>3. CASE MarkInMemory(i)
    BY <1>2, <2>3 DEF MarkInMemory, MarkerStates
  <2>4. CASE MarkEnds(i)
    BY <1>2, <2>4 DEF MarkEnds, MarkerStates
  <2> QED BY <2>1, <2>2, <2>3, <2>4 DEF MarkerStep
<1>5. \A u : Exists(u)' <=> Exists(u)
  BY <1>1 DEF Exists
<1>6. \A o \in DOMAIN dbUtxos' : Exists(dbUtxos'[o])
  <2>1. ASSUME NEW u \in marker[i].todo, MarkInDb(i, u), NEW o \in DOMAIN dbUtxos'
        PROVE  Exists(dbUtxos'[o])
    <3>1. Exists(u)
      BY DEF CoinInv, InputsInv
    <3>2. o \in DOMAIN dbUtxos /\ dbUtxos'[o] \in {dbUtxos[o], u}
      BY <2>1 DEF MarkInDb, UpdateUtxo
    <3> QED BY <3>1, <3>2 DEF CoinInv, CoinsExist, Exists, Range
  <2>2. CASE UNCHANGED dbUtxos
    BY <2>2 DEF CoinInv, CoinsExist, Exists, Range
  <2> QED BY <2>1, <2>2 DEF MarkerStep, MarkSkips, MarkInMemory, MarkEnds, storeVars, dbVars
<1>7. \A j \in DOMAIN memUtxos' : Exists(memUtxos'[j])
  BY <1>3 DEF CoinInv, CoinsExist, Exists, Range
<1>8. CoinsExist'
  BY <1>5, <1>6, <1>7 DEF CoinsExist, Exists, Range
<1>9. \A k \in Sends : /\ Change(k)' = Change(k)
                       /\ Early(k)' <=> Early(k)
                       /\ Unlisted(k)' <=> Unlisted(k)
                       /\ Storing(k)' <=> Storing(k)
  BY <1>1, ChangeSettled DEF Early, Unlisted, Storing
<1>10. ChangeInv'
  BY <1>1, <1>5, <1>9 DEF CoinInv, ChangeInv
<1>11. InputsInv'
  BY <1>1, <1>4, <1>5, <1>9 DEF CoinInv, InputsInv
<1>12. ListInv'
  <2>1. NoneTwice(memUtxos)'
    BY <1>3 DEF CoinInv, ListInv, NoneTwice
  <2>2. Listed(memUtxos)' = Listed(memUtxos)
    BY <1>3 DEF Listed
  <2>3. \A s : AllExist(s)' <=> AllExist(s)
    BY <1>5 DEF AllExist
  <2> QED BY <1>1, <1>3, <1>9, <2>1, <2>2, <2>3 DEF CoinInv, ListInv
<1> QED BY <1>8, <1>10, <1>11, <1>12

\* Steps of the goroutines that write the balance.
LEMMA BalancerKeeps ==
  ASSUME CoinInv, NEW i \in Sends, BalancerStep(i)
  PROVE  CoinsExist' /\ ChangeInv' /\ InputsInv' /\ ListInv'
<1>1. UNCHANGED <<memUtxos, dbUtxos, nodeCoins, nodeSpent, send, marker, changer>>
  BY DEF BalancerStep, BalanceSave, BalanceSaveFails, BalanceSet, storeVars, memVars, dbVars, nodeVars
<1>2. \A k \in Sends : /\ Change(k)' = Change(k)
                       /\ Early(k)' <=> Early(k)
                       /\ Unlisted(k)' <=> Unlisted(k)
                       /\ Storing(k)' <=> Storing(k)
  BY <1>1, ChangeSettled DEF Early, Unlisted, Storing
<1>3. \A u : Exists(u)' <=> Exists(u)
  BY <1>1 DEF Exists
<1>4. \A s : AllExist(s)' <=> AllExist(s)
  BY <1>3 DEF AllExist
<1> QED BY <1>1, <1>2, <1>3, <1>4 DEF CoinInv, CoinsExist, ChangeInv, InputsInv, ListInv

\* The process ends and starts again: the slice lists what is saved.
LEMMA RestartKeeps ==
  ASSUME CoinInv, SpendRestart
  PROVE  CoinsExist' /\ ChangeInv' /\ InputsInv' /\ ListInv'
<1>1. UNCHANGED <<dbUtxos, nodeCoins, nodeSpent>>
  BY DEF SpendRestart, dbVars, nodeVars
<1>2. /\ send \in [Sends -> SendStates]
      /\ StoreTypeOK
  BY DEF CoinInv, SpendTypeOK
<1>3. \A k \in Sends : /\ send'[k].inputs = send[k].inputs /\ send'[k].amount = send[k].amount
                       /\ send'[k].pc \in {"idle", "over"}
                       /\ send'[k].pc = "idle" => send[k].pc = "idle"
                       /\ marker'[k].todo = {} /\ changer'[k].pc = "idle"
  BY <1>2 DEF SpendRestart, SendStates, NoMark, NoCopy
<1>4. \A k \in Sends : /\ Change(k)' = Change(k)
                       /\ Early(k)' => Early(k)
                       /\ ~Unlisted(k)' /\ ~Storing(k)'
  BY <1>3, ChangeSettled DEF Early, Unlisted, Storing
<1>5. \A u : Exists(u)' <=> Exists(u)
  BY <1>1 DEF Exists
<1>6. LoadWallet
  BY DEF SpendRestart
<1>7. CoinsExist'
  <2>1. \A j \in DOMAIN memUtxos' : memUtxos'[j] \in Range(dbUtxos)
    BY <1>2, <1>6, LoadWalletLists
  <2> QED BY <1>1, <2>1 DEF CoinInv, CoinsExist, Range
<1>8. ChangeInv'
  BY <1>1, <1>3, <1>4 DEF CoinInv, ChangeInv
<1>9. InputsInv'
  <2>1. \A k \in Sends : /\ IsFiniteSet(send'[k].inputs)
                         /\ \A u \in send'[k].inputs : Exists(u)'
                         /\ \A u, v \in send'[k].inputs : Outpoint(u) = Outpoint(v) => u = v
    BY <1>3, <1>5 DEF CoinInv, InputsInv
  <2> QED BY <1>3, <2>1 DEF InputsInv, Outpoint
<1>10. ListInv'
  <2>1. ASSUME NEW j \in DOMAIN memUtxos', NEW k \in DOMAIN memUtxos',
               Outpoint(memUtxos'[j]) = Outpoint(memUtxos'[k])
        PROVE  j = k
    <3>1. memUtxos' \in Injection(1 .. Cardinality(DOMAIN dbUtxos), Range(dbUtxos))
      BY <1>6 DEF LoadWallet, CursorOrders, Bijection
    <3>2. memUtxos'[j] = memUtxos'[k]
      <4>1. PICK o \in DOMAIN dbUtxos : memUtxos'[j] = dbUtxos[o]
        BY <1>2, <1>6, LoadWalletLists DEF Range
      <4>2. PICK p \in DOMAIN dbUtxos : memUtxos'[k] = dbUtxos[p]
        BY <1>2, <1>6, LoadWalletLists DEF Range
      <4>3. o = p
        BY <1>2, <2>1, <4>1, <4>2 DEF StoreTypeOK
      <4> QED BY <4>1, <4>2, <4>3
    <3> QED BY <3>1, <3>2 DEF Injection, IsInjective
  <2> QED BY <1>4, <2>1 DEF ListInv, NoneTwice
<1> QED BY <1>7, <1>8, <1>9, <1>10

\* Steps of the goroutines that add the change.
LEMMA ChangerKeeps ==
  ASSUME CoinInv, NEW i \in Sends, ChangerStep(i)
  PROVE  CoinsExist' /\ ChangeInv' /\ InputsInv' /\ ListInv'
<1>1. UNCHANGED <<nodeCoins, nodeSpent, send, marker>>
  BY DEF ChangerStep, ChangeSave, ChangeSaveFails, ChangeAppend, ChangeCopy, ChangeStore, nodeVars
<1>2. /\ changer \in [Sends -> ChangerStates]
      /\ memUtxos \in Seq(UtxoRecords)
  BY DEF CoinInv, SpendTypeOK, StoreTypeOK
<1>3. changer[i].pc # "idle" /\ send[i].pc = "over"
  BY DEF ChangerStep, ChangeSave, ChangeSaveFails, ChangeAppend, ChangeCopy, ChangeStore,
         CoinInv, ChangeInv
<1>4. /\ Change(i) \in UtxoRecords /\ Outpoint(Change(i)) = ChangeKey(i)
      /\ changer[i].pc \in {"save", "append"} => Exists(Change(i))
  BY ChangeTyped DEF CoinInv, InputsInv, ChangeInv, Unlisted
<1>5. \A k \in Sends : Change(k)' = Change(k) /\ (Early(k)' <=> Early(k))
  BY <1>1, ChangeSettled DEF Early
<1>6. \A u : Exists(u)' <=> Exists(u)
  BY <1>1 DEF Exists
<1>7. \A s : AllExist(s)' <=> AllExist(s)
  BY <1>6 DEF AllExist
<1>8. InputsInv'
  BY <1>1, <1>5, <1>6 DEF CoinInv, InputsInv
<1>9. /\ \A k \in Sends : k # i => changer'[k] = changer[k]
      /\ Unlisted(i)' => Unlisted(i)
  <2>1. CASE ChangeSave(i)
    BY <1>1, <1>2, <2>1 DEF ChangeSave, Unlisted, ChangerStates
  <2>2. CASE ChangeSaveFails(i)
    BY <1>1, <1>2, <2>2 DEF ChangeSaveFails, Unlisted, ChangerStates
  <2>3. CASE ChangeAppend(i)
    BY <1>1, <1>2, <2>3 DEF ChangeAppend, Unlisted, ChangerStates
  <2>4. CASE ChangeCopy(i)
    BY <1>1, <1>2, <2>4 DEF ChangeCopy, Unlisted, ChangerStates
  <2>5. CASE ChangeStore(i)
    BY <1>1, <1>2, <2>5 DEF ChangeStore, Unlisted, ChangerStates
  <2> QED BY <2>1, <2>2, <2>3, <2>4, <2>5 DEF ChangerStep
<1>10. \A k \in Sends : Unlisted(k)' => Unlisted(k)
  BY <1>1, <1>9 DEF Unlisted
<1>11. ChangeInv'
  <2>1. \A k \in Sends : Unlisted(k)' => Exists(Change(k))'
    BY <1>5, <1>6, <1>10 DEF CoinInv, ChangeInv
  <2>2. \A k \in Sends : send'[k].pc # "over" => changer'[k].pc = "idle"
    BY <1>1, <1>3, <1>9 DEF CoinInv, ChangeInv
  <2> QED BY <1>1, <1>5, <2>1, <2>2 DEF CoinInv, ChangeInv
<1>12. AllExist(memUtxos) /\ \A o \in DOMAIN dbUtxos : Exists(dbUtxos[o])
  BY DEF CoinInv, CoinsExist, AllExist, Exists, Range
<1>13. ASSUME AllExist(memUtxos'), \A o \in DOMAIN dbUtxos' : Exists(dbUtxos'[o])
       PROVE  CoinsExist'
  BY <1>6, <1>13 DEF CoinsExist, AllExist, Exists, Range
<1>14. ASSUME UNCHANGED memUtxos, ~Storing(i)' PROVE ListInv'
  <2>1. \A k \in Sends : Storing(k)' => k # i /\ Storing(k) /\ changer'[k] = changer[k]
    BY <1>9, <1>14 DEF Storing
  <2> QED BY <1>7, <1>10, <1>14, <2>1 DEF CoinInv, ListInv
<1>15. CASE ChangeSave(i)
  <2>1. UNCHANGED memUtxos /\ ~Storing(i)'
    BY <1>2, <1>15 DEF ChangeSave, memVars, Storing, ChangerStates
  <2>2. \A o \in DOMAIN dbUtxos' : Exists(dbUtxos'[o])
    BY <1>4, <1>12, <1>15 DEF ChangeSave, SaveUtxo
  <2> QED BY <1>8, <1>11, <1>12, <1>13, <1>14, <2>1, <2>2
<1>16. CASE ChangeSaveFails(i)
  <2>1. UNCHANGED <<memUtxos, dbUtxos>> /\ ~Storing(i)'
    BY <1>2, <1>16 DEF ChangeSaveFails, storeVars, Storing, ChangerStates
  <2> QED BY <1>8, <1>11, <1>12, <1>13, <1>14, <2>1
<1> DEFINE longer == Append(memUtxos, Change(i))
<1>17. ASSUME ChangeAppend(i) \/ ChangeCopy(i)
       PROVE  /\ AllExist(longer) /\ NoneTwice(longer)
              /\ DOMAIN memUtxos \subseteq DOMAIN longer
              /\ \A j \in DOMAIN memUtxos : longer[j] = memUtxos[j]
              /\ \A k \in Sends : Unlisted(k) /\ k # i => ChangeKey(k) \notin Listed(longer)
              /\ Unlisted(i) /\ \A k \in Sends : ~Storing(k)
  <2>1. changer[i].pc = "append" /\ Unlisted(i) /\ \A k \in Sends : ~Storing(k)
    BY <1>17 DEF ChangeAppend, ChangeCopy, Unlisted, UtxoMtxFree, Storing
  <2>2. /\ DOMAIN longer = DOMAIN memUtxos \cup {Len(memUtxos) + 1}
        /\ Len(memUtxos) + 1 \notin DOMAIN memUtxos
        /\ longer[Len(memUtxos) + 1] = Change(i)
        /\ \A j \in DOMAIN memUtxos : longer[j] = memUtxos[j]
    BY <1>2, <1>4
  <2> HIDE DEF longer
  <2>3. AllExist(longer)
    BY <1>4, <1>12, <2>1, <2>2 DEF AllExist
  <2>4. ChangeKey(i) \notin Listed(memUtxos)
    BY <2>1 DEF CoinInv, ListInv
  <2>5. Listed(longer) = Listed(memUtxos) \cup {ChangeKey(i)}
    BY <1>4, <2>2 DEF Listed
  <2>6. NoneTwice(longer)
    BY <1>4, <2>2, <2>4 DEF CoinInv, ListInv, NoneTwice, Listed
  <2>7. \A k \in Sends : Unlisted(k) /\ k # i => ChangeKey(k) \notin Listed(longer)
    BY <2>5, KeysDiffer DEF CoinInv, ListInv
  <2> QED BY <2>1, <2>2, <2>3, <2>6, <2>7
<1>18. CASE ChangeAppend(i)
  <2>1. memUtxos' = longer /\ UNCHANGED dbUtxos /\ ~Unlisted(i)' /\ ~Storing(i)'
    <3>1. changer'[i].pc = "idle"
      BY <1>2, <1>18 DEF ChangeAppend, ChangerStates
    <3> QED BY <1>1, <1>3, <1>18, <3>1 DEF ChangeAppend, AppendUtxo, dbVars, Unlisted, Storing
  <2>2. \A k \in Sends : ~Storing(k)'
    BY <1>9, <1>17, <1>18, <2>1 DEF Storing
  <2> HIDE DEF longer
  <2>3. ListInv'
    BY <1>10, <1>17, <1>18, <2>1, <2>2 DEF ListInv
  <2> QED BY <1>8, <1>11, <1>12, <1>13, <1>17, <1>18, <2>1, <2>3
<1>19. CASE ChangeCopy(i)
  <2>1. /\ UNCHANGED <<memUtxos, dbUtxos>> /\ changer'[i].copy = longer
        /\ ~Unlisted(i)' /\ Storing(i)'
    <3>1. changer'[i].pc = "store" /\ changer'[i].copy = longer
      BY <1>2, <1>19 DEF ChangeCopy, ChangerStates
    <3> QED BY <1>1, <1>3, <1>19, <3>1 DEF ChangeCopy, storeVars, Unlisted, Storing
  <2>2. \A k \in Sends : Storing(k)' => k = i
    BY <1>9, <1>17, <1>19 DEF Storing
  <2> HIDE DEF longer
  <2>3. ListInv'
    BY <1>7, <1>10, <1>17, <1>19, <2>1, <2>2 DEF CoinInv, ListInv
  <2> QED BY <1>8, <1>11, <1>12, <1>13, <2>1, <2>3
<1>20. CASE ChangeStore(i)
  <2>1. /\ memUtxos' = changer[i].copy /\ UNCHANGED dbUtxos /\ Storing(i)
        /\ ~Storing(i)'
    BY <1>2, <1>20 DEF ChangeStore, dbVars, Storing, ChangerStates
  <2>2. \A k \in Sends : ~Storing(k)'
    BY <1>9, <2>1 DEF Storing, CoinInv, ListInv
  <2>3. AllExist(memUtxos') /\ ListInv'
    BY <1>10, <2>1, <2>2 DEF CoinInv, ListInv
  <2> QED BY <1>8, <1>11, <1>12, <1>13, <2>1, <2>3
<1> QED BY <1>15, <1>16, <1>18, <1>19, <1>20 DEF ChangerStep

\* Every step keeps the invariant about coins.
LEMMA CoinInvStep == CoinInv /\ [SpendNext]_allSpendVars => CoinInv'
<1> SUFFICES ASSUME CoinInv, [SpendNext]_allSpendVars PROVE CoinInv'
  OBVIOUS
<1>1. SpendTypeOK /\ InputsInv /\ ListInv /\ \A k \in Sends : IsFiniteSet(send[k].inputs)
  BY DEF CoinInv, InputsInv
<1>2. ASSUME NEW i \in Sends, NEW amount \in Amounts, CheckFunds(i, amount) PROVE CoinInv'
  BY <1>1, <1>2, HandlerTyped, QuietKeeps DEF CoinInv
<1>3. ASSUME NEW i \in Sends, HandlerStep(i) PROVE CoinInv'
  <2>1. CASE Select(i)
    BY <1>1, <2>1, SelectTyped, SelectKeeps DEF CoinInv
  <2>2. CASE SelectFails(i) \/ Rejected(i) \/ SendFails(i)
    BY <1>1, <2>2, HandlerTyped, QuietKeeps DEF CoinInv
  <2>3. CASE Broadcast(i) \/ ReplyLost(i)
    BY <1>1, <2>3, NodeTyped, NodeStepKeeps DEF CoinInv
  <2>4. CASE UpdateWallet(i)
    BY <1>1, <2>4, UpdateTyped, UpdateKeeps DEF CoinInv
  <2> QED BY <1>3, <2>1, <2>2, <2>3, <2>4 DEF HandlerStep
<1>4. ASSUME NEW i \in Sends, MarkerStep(i) PROVE CoinInv'
  BY <1>1, <1>4, MarkerTyped, MarkerKeeps DEF CoinInv
<1>5. ASSUME NEW i \in Sends, ChangerStep(i) PROVE CoinInv'
  <2>1. SpendTypeOK'
    BY <1>5, ChangerTyped DEF CoinInv, InputsInv, ListInv
  <2> QED BY <1>1, <1>5, <2>1, ChangerKeeps DEF CoinInv
<1>6. ASSUME NEW i \in Sends, BalancerStep(i) PROVE CoinInv'
  BY <1>1, <1>6, BalancerTyped, BalancerKeeps DEF CoinInv
<1>7. CASE SpendRestart
  BY <1>1, <1>7, RestartTyped, RestartKeeps DEF CoinInv
<1>8. CASE UNCHANGED allSpendVars
  <2>1. UNCHANGED <<storeVars, nodeCoins, nodeSpent, send, marker, changer, balancer,
                    sendFaults, sendCrashes>>
    BY <1>8 DEF allSpendVars, spendVars
  <2>2. UNCHANGED <<memUtxos, dbUtxos>>
    BY <2>1 DEF storeVars
  <2>3. \A k \in Sends : Change(k)' = Change(k)
    BY <2>1, ChangeSettled
  <2>4. SpendTypeOK'
    BY <1>1, <2>1, <2>2, StoreKept DEF SpendTypeOK
  <2>5. \A u : Exists(u)' <=> Exists(u)
    BY <2>1 DEF Exists
  <2>6. \A s : AllExist(s)' <=> AllExist(s)
    BY <2>5 DEF AllExist
  <2>7. \A k \in Sends : /\ Early(k)' <=> Early(k)
                         /\ Unlisted(k)' <=> Unlisted(k)
                         /\ Storing(k)' <=> Storing(k)
    BY <2>1 DEF Early, Unlisted, Storing
  <2> QED BY <2>1, <2>2, <2>3, <2>4, <2>5, <2>6, <2>7
          DEF CoinInv, CoinsExist, ChangeInv, InputsInv, ListInv
<1> QED BY <1>2, <1>3, <1>4, <1>5, <1>6, <1>7, <1>8 DEF SpendNext, ChangePanics, SpendCrash

\* The fields, the records and the goroutines' locals keep their types.
THEOREM SpendTyped == SpendSafety => []SpendTypeOK
<1>1. CoinInv => SpendTypeOK
  BY DEF CoinInv
<1> QED BY <1>1, InitCoinInv, CoinInvStep, PTL DEF SpendSafety

\* Whatever calls overlap, fail or are cut off, the wallet lists and saves only
\* coins that exist, with their value: addChangeUTXO adds a change output only
\* for a transaction that the node has taken.
THEOREM SpendListsCoins == SpendSafety => []CoinsExist
<1>1. CoinInv => CoinsExist
  BY DEF CoinInv
<1> QED BY <1>1, InitCoinInv, CoinInvStep, PTL DEF SpendSafety

-----------------------------------------------------------------------------
(* Marks. *)

\* At the start nothing is marked.
LEMMA InitMarkInv == SpendInit => MarkInv
BY CoinsAssumption DEF SpendInit, MarkInv, MarksAreTrue, TrueMark, InitAt, InitKeys, Storing,
                       NoMark, NoCopy

\* Coins of different transactions are told apart by the transaction alone.
LEMMA OneCoin ==
  ASSUME OneCoinPerTx, CoinInv, NEW o \in DOMAIN nodeCoins, NEW p \in DOMAIN nodeCoins,
         o[1] = p[1]
  PROVE  o = p
<1>1. ASSUME NEW q \in InitKeys, NEW r \in InitKeys, q[1] = r[1] PROVE q = r
  BY <1>1 DEF InitKeys, Outpoint, OneCoinPerTx
<1>2. ASSUME NEW q \in InitKeys PROVE q[1] < 1000
  BY CoinsAssumption DEF InitKeys, Outpoint
<1>3. \A i, k \in Sends : TxId(i) >= 1000 /\ (TxId(i) = TxId(k) => i = k) /\ TxId(i) \in Int
  BY SendAssumption DEF Sends, TxId
<1>4. ASSUME NEW q \in InitKeys PROVE q[1] \in Int
  <2>1. PICK j \in DOMAIN InitCoins : q = Outpoint(InitCoins[j])
    BY DEF InitKeys
  <2>2. InitCoins[j] \in UtxoRecords
    BY CoinsAssumption
  <2> QED BY <2>1, <2>2 DEF Outpoint, UtxoRecords
<1>5. \A q, r \in InitKeys \cup {ChangeKey(i) : i \in Sends} : q[1] = r[1] => q = r
  BY <1>1, <1>2, <1>3, <1>4 DEF ChangeKey
<1> QED BY <1>5 DEF CoinInv, ChangeInv

\* Every step keeps the invariant about marks.
LEMMA MarkInvStep ==
  ASSUME OneCoinPerTx
  PROVE  CoinInv /\ MarkInv /\ [SpendNext]_allSpendVars => MarkInv'
<1> SUFFICES ASSUME CoinInv, MarkInv, [SpendNext]_allSpendVars PROVE MarkInv'
  OBVIOUS
<1>0. /\ SpendTypeOK /\ memUtxos \in Seq(UtxoRecords) /\ send \in [Sends -> SendStates]
      /\ marker \in [Sends -> MarkerStates] /\ changer \in [Sends -> ChangerStates]
      /\ \A k \in Sends : marker[k].pc = "set" => marker[k].at \in DOMAIN memUtxos
  BY DEF CoinInv, SpendTypeOK, StoreTypeOK
<1>1. \A j \in DOMAIN memUtxos : TrueMark(memUtxos[j])
  BY DEF MarkInv, MarksAreTrue, TrueMark
<1>2. ASSUME NEW i \in Sends, NEW amount \in Amounts, CheckFunds(i, amount) PROVE MarkInv'
  <2>1. UNCHANGED <<memUtxos, dbUtxos, nodeSpent, marker, changer>>
    BY <1>2 DEF CheckFunds, storeVars, nodeVars, workerVars
  <2>2. \A k \in Sends : send'[k].inputs = send[k].inputs
    BY <1>0, <1>2 DEF CheckFunds, SendStates
  <2> QED BY <2>1, <2>2 DEF MarkInv, MarksAreTrue, TrueMark, Storing
<1>3. ASSUME NEW i \in Sends, SelectFails(i) \/ Rejected(i) \/ SendFails(i) PROVE MarkInv'
  <2>1. UNCHANGED <<memUtxos, dbUtxos, nodeSpent, marker, changer>> /\ End(i)
    BY <1>3 DEF SelectFails, Rejected, SendFails, storeVars, nodeVars, workerVars
  <2>2. \A k \in Sends : send'[k].inputs = send[k].inputs
    BY <1>0, <2>1 DEF End, SendStates
  <2> QED BY <2>1, <2>2 DEF MarkInv, MarksAreTrue, TrueMark, Storing
<1>4. ASSUME NEW i \in Sends, Select(i) PROVE MarkInv'
  <2>1. UNCHANGED <<memUtxos, dbUtxos, nodeSpent, marker, changer>>
    BY <1>4 DEF Select, storeVars, nodeVars, workerVars
  <2>2. PICK P \in Selections(memUtxos, send[i].amount) :
          send' = [send EXCEPT ![i].pc = "broadcast", ![i].inputs = {memUtxos[p] : p \in P}]
    BY <1>4 DEF Select
  <2>3. P \subseteq DOMAIN memUtxos
    BY <1>0, SelectionsListed
  <2>4. \A k \in Sends : send'[k].inputs = IF k = i THEN {memUtxos[p] : p \in P} ELSE send[k].inputs
    BY <1>0, <2>2 DEF SendStates
  <2>5. \A k \in Sends : \A u \in send'[k].inputs : TrueMark(u)
    <3> TAKE k \in Sends
    <3>1. CASE k = i
      <4>0. send'[k].inputs = {memUtxos[p] : p \in P}
        BY <2>4, <3>1
      <4>1. \A u \in send'[k].inputs : \E p \in DOMAIN memUtxos : u = memUtxos[p]
        BY <2>3, <4>0
      <4> QED BY <1>1, <4>1
    <3>2. CASE k # i
      BY <2>4, <3>2 DEF MarkInv
    <3> QED BY <3>1, <3>2
  <2> QED BY <2>1, <2>5 DEF MarkInv, MarksAreTrue, TrueMark, Storing
<1>5. ASSUME NEW i \in Sends, Broadcast(i) \/ ReplyLost(i) PROVE MarkInv'
  <2>1. /\ UNCHANGED <<memUtxos, dbUtxos, marker, changer>>
        /\ nodeSpent \subseteq nodeSpent'
    BY <1>5 DEF Broadcast, ReplyLost, NodeAccepts, storeVars, workerVars
  <2>2. \A k \in Sends : send'[k].inputs = send[k].inputs
    BY <1>0, <1>5 DEF Broadcast, ReplyLost, End, SendStates
  <2> QED BY <2>1, <2>2 DEF MarkInv, MarksAreTrue, TrueMark, Storing
<1>6. ASSUME NEW i \in Sends, UpdateWallet(i) PROVE MarkInv'
  <2>1. UNCHANGED <<memUtxos, dbUtxos, nodeSpent>>
    BY <1>6 DEF UpdateWallet, storeVars, nodeVars
  <2>2. \A k \in Sends : send'[k].inputs = send[k].inputs
    BY <1>0, <1>6 DEF UpdateWallet, End, SendStates
  <2>3. \A k \in Sends : marker'[k].pc = "set" => marker[k].pc = "set" /\ marker'[k].at = marker[k].at
    BY <1>0, <1>6 DEF UpdateWallet, MarkerStates
  <2>4. \A k \in Sends : Storing(k)' => Storing(k) /\ changer'[k].copy = changer[k].copy
    BY <1>0, <1>6 DEF UpdateWallet, ChangerStates, Storing
  <2> QED BY <2>1, <2>2, <2>3, <2>4 DEF MarkInv, MarksAreTrue, TrueMark
<1>7. ASSUME NEW i \in Sends, NEW u \in marker[i].todo, MarkInDb(i, u) PROVE MarkInv'
  <2>1. UNCHANGED <<memUtxos, nodeSpent, send, changer>>
    BY <1>7 DEF MarkInDb, memVars, nodeVars
  <2>2. TrueMark(u) /\ Outpoint(u) \in nodeSpent /\ Exists(u)
    BY DEF CoinInv, InputsInv, MarkInv
  <2>3. \A o \in DOMAIN dbUtxos' : TrueMark(dbUtxos'[o])
    BY <1>7, <2>2 DEF MarkInDb, UpdateUtxo, MarkInv
  <2>4. \A k \in Sends : marker'[k].pc = "set" =>
          \/ marker[k].pc = "set" /\ marker'[k].at = marker[k].at
          \/ marker'[k].at = Min(Matches(u))
    BY <1>0, <1>7 DEF MarkInDb, MarkerStates
  <2>5. Min(Matches(u)) \in Matches(u)
    <3>1. Matches(u) \subseteq Nat /\ Matches(u) # {}
      BY <1>0, <1>7 DEF MarkInDb, Matches
    <3>2. \E x \in Matches(u) : \A y \in Matches(u) : x <= y
      BY <3>1, LeastNat
    <3> QED BY <3>2 DEF Min
  <2>6. Outpoint(memUtxos[Min(Matches(u))]) \in nodeSpent
    <3> DEFINE v == memUtxos[Min(Matches(u))]
    <3>1. v.txid = u.txid /\ Outpoint(v) \in DOMAIN nodeCoins
      BY <2>5 DEF Matches, CoinInv, CoinsExist, Range
    <3>2. Outpoint(v)[1] = Outpoint(u)[1] /\ Outpoint(u) \in DOMAIN nodeCoins
      BY <2>2, <3>1 DEF Outpoint, Exists
    <3> HIDE DEF v
    <3>3. Outpoint(v) = Outpoint(u)
      BY <3>1, <3>2, OneCoin
    <3>4. Outpoint(v) \in nodeSpent
      BY <2>2, <3>3
    <3> QED BY <3>4 DEF v
  <2>7. \A k \in Sends : marker'[k].pc = "set" => Outpoint(memUtxos[marker'[k].at]) \in nodeSpent
    BY <2>4, <2>6 DEF MarkInv
  <2> QED BY <2>1, <2>3, <2>7 DEF MarkInv, MarksAreTrue, TrueMark, Storing, Outpoint
<1>8. ASSUME NEW i \in Sends, MarkEnds(i) \/ \E u \in marker[i].todo : MarkSkips(i, u)
      PROVE  MarkInv'
  <2>1. UNCHANGED <<memUtxos, dbUtxos, nodeSpent, send, changer>>
    BY <1>8 DEF MarkEnds, MarkSkips, storeVars, nodeVars
  <2>2. \A k \in Sends : marker'[k].pc = "set" => marker[k].pc = "set" /\ marker'[k].at = marker[k].at
    BY <1>0, <1>8 DEF MarkEnds, MarkSkips, MarkerStates
  <2> QED BY <2>1, <2>2 DEF MarkInv, MarksAreTrue, TrueMark, Storing
<1>9. ASSUME NEW i \in Sends, MarkInMemory(i) PROVE MarkInv'
  <2>1. UNCHANGED <<dbUtxos, nodeSpent, send, changer>> /\ marker[i].pc = "set"
    BY <1>9 DEF MarkInMemory, dbVars, nodeVars
  <2>2. /\ DOMAIN memUtxos' = DOMAIN memUtxos
        /\ \A j \in DOMAIN memUtxos : /\ Outpoint(memUtxos'[j]) = Outpoint(memUtxos[j])
                                      /\ j # marker[i].at => memUtxos'[j] = memUtxos[j]
    BY <1>0, <1>9 DEF MarkInMemory, UtxoRecords, Outpoint
  <2>3. \A k \in Sends : marker'[k].pc = "set" => marker[k].pc = "set" /\ marker'[k].at = marker[k].at
    BY <1>0, <1>9 DEF MarkInMemory, MarkerStates
  <2>4. Outpoint(memUtxos[marker[i].at]) \in nodeSpent
    BY <2>1 DEF MarkInv
  <2>5. MarksAreTrue'
    BY <1>1, <2>1, <2>2, <2>4 DEF MarksAreTrue, TrueMark
  <2>6. \A k \in Sends : marker'[k].pc = "set" => Outpoint(memUtxos'[marker'[k].at]) \in nodeSpent
    BY <1>0, <2>2, <2>3 DEF MarkInv
  <2> QED BY <2>1, <2>5, <2>6 DEF MarkInv, TrueMark, Storing, Outpoint
<1>10. ASSUME NEW i \in Sends, ChangerStep(i) PROVE MarkInv'
  <2>1. UNCHANGED <<nodeSpent, send, marker>>
    BY <1>10 DEF ChangerStep, ChangeSave, ChangeSaveFails, ChangeAppend, ChangeCopy, ChangeStore,
                 nodeVars
  <2>2. Change(i) \in UtxoRecords /\ TrueMark(Change(i))
    BY <1>0, ChangeTyped DEF CoinInv, InputsInv, TrueMark
  <2>3. \A o \in DOMAIN dbUtxos' : TrueMark(dbUtxos'[o])
    <3>1. CASE ChangeSave(i)
      BY <2>2, <3>1 DEF ChangeSave, SaveUtxo, MarkInv
    <3>2. CASE UNCHANGED dbUtxos
      BY <3>2 DEF MarkInv
    <3> QED BY <1>10, <3>1, <3>2
            DEF ChangerStep, ChangeSaveFails, ChangeAppend, ChangeCopy, ChangeStore, dbVars, storeVars
  <2>4. /\ \A j \in DOMAIN memUtxos' : TrueMark(memUtxos'[j])
        /\ \A j \in DOMAIN memUtxos : Outpoint(memUtxos'[j]) = Outpoint(memUtxos[j])
    <3>1. CASE ChangeAppend(i)
      BY <1>0, <1>1, <2>2, <3>1 DEF ChangeAppend, AppendUtxo
    <3>2. CASE ChangeStore(i)
      BY <3>2 DEF ChangeStore, MarkInv, Storing, CoinInv, ListInv
    <3>3. CASE UNCHANGED memUtxos
      BY <1>1, <3>3
    <3> QED BY <1>10, <3>1, <3>2, <3>3
            DEF ChangerStep, ChangeSave, ChangeSaveFails, ChangeCopy, memVars, storeVars
  <2>5. ASSUME NEW k \in Sends, Storing(k)', NEW j \in DOMAIN changer'[k].copy
        PROVE  TrueMark(changer'[k].copy[j])
    <3>1. CASE ChangeCopy(i) /\ k = i
      <4>1. changer'[k].copy = Append(memUtxos, Change(i))
        BY <1>0, <3>1 DEF ChangeCopy
      <4>2. \A l \in DOMAIN Append(memUtxos, Change(i)) : TrueMark(Append(memUtxos, Change(i))[l])
        BY <1>0, <1>1, <2>2
      <4> QED BY <2>5, <4>1, <4>2
    <3>2. CASE ~(ChangeCopy(i) /\ k = i)
      <4>1. Storing(k) /\ changer'[k].copy = changer[k].copy
        <5>1. CASE ChangeCopy(i)
          BY <1>0, <2>5, <3>2, <5>1 DEF ChangeCopy, Storing, ChangerStates
        <5>2. CASE ChangeStore(i)
          BY <1>0, <2>5, <5>2 DEF ChangeStore, Storing, ChangerStates
        <5>3. CASE ChangeAppend(i)
          BY <1>0, <2>5, <5>3 DEF ChangeAppend, Storing, ChangerStates
        <5>4. CASE ChangeSave(i) \/ ChangeSaveFails(i)
          BY <1>0, <2>5, <5>4 DEF ChangeSave, ChangeSaveFails, Storing, ChangerStates
        <5> QED BY <1>10, <5>1, <5>2, <5>3, <5>4 DEF ChangerStep
      <4> QED BY <2>5, <4>1 DEF MarkInv
    <3> QED BY <3>1, <3>2
  <2>6. MarksAreTrue'
    BY <2>1, <2>4 DEF MarksAreTrue, TrueMark
  <2>7. \A k \in Sends : marker'[k].pc = "set" => Outpoint(memUtxos'[marker'[k].at]) \in nodeSpent'
    BY <1>0, <2>1, <2>4 DEF MarkInv
  <2> QED BY <2>1, <2>3, <2>5, <2>6, <2>7 DEF MarkInv, TrueMark
<1>11. ASSUME NEW i \in Sends, BalancerStep(i) PROVE MarkInv'
  <2>1. UNCHANGED <<memUtxos, dbUtxos, nodeSpent, send, marker, changer>>
    BY <1>11 DEF BalancerStep, BalanceSave, BalanceSaveFails, BalanceSet, storeVars, memVars, dbVars,
                 nodeVars
  <2> QED BY <2>1 DEF MarkInv, MarksAreTrue, TrueMark, Storing
<1>12. CASE SpendRestart
  <2>1. UNCHANGED <<dbUtxos, nodeSpent>> /\ LoadWallet /\ StoreTypeOK
    BY <1>0, <1>12 DEF SpendRestart, dbVars, nodeVars, SpendTypeOK
  <2>2. \A k \in Sends : /\ send'[k].inputs = send[k].inputs
                         /\ marker'[k].pc = "idle" /\ ~Storing(k)'
    BY <1>0, <1>12 DEF SpendRestart, SendStates, NoMark, NoCopy, Storing
  <2>3. \A j \in DOMAIN memUtxos' : TrueMark(memUtxos'[j])
    BY <2>1, LoadWalletLists DEF MarkInv, Range
  <2> QED BY <2>1, <2>2, <2>3 DEF MarkInv, MarksAreTrue, TrueMark
<1>13. CASE UNCHANGED allSpendVars
  BY <1>13 DEF allSpendVars, spendVars, storeVars, MarkInv, MarksAreTrue, TrueMark, Storing
<1> QED BY <1>2, <1>3, <1>4, <1>5, <1>6, <1>7, <1>8, <1>9, <1>10, <1>11, <1>12, <1>13
        DEF SpendNext, HandlerStep, MarkerStep, ChangePanics, SpendCrash

\* When all coins the wallet starts with are of different transactions, the
\* loop of markSpentUTXOs, which compares transactions, marks only coins that
\* are spent, although the slice may grow and be replaced between the search
\* and the mark.
THEOREM SpendMarksTruly == OneCoinPerTx /\ SpendSafety => []MarksAreTrue
<1> SUFFICES ASSUME OneCoinPerTx PROVE SpendSafety => []MarksAreTrue
  OBVIOUS
<1>1. CoinInv /\ MarkInv /\ [SpendNext]_allSpendVars => (CoinInv /\ MarkInv)'
  BY CoinInvStep, MarkInvStep
<1>2. MarkInv => MarksAreTrue
  BY DEF MarkInv
<1> QED BY <1>1, <1>2, InitCoinInv, InitMarkInv, PTL DEF SpendSafety

-----------------------------------------------------------------------------
(* Balances. *)

\* Sums over the coins of the node and over the calls are sums of integers.
LEMMA SumsTyped ==
  ASSUME CoinInv
  PROVE  /\ IsFiniteSet(DOMAIN nodeCoins \ nodeSpent)
         /\ \A o \in DOMAIN nodeCoins \ nodeSpent : nodeCoins[o] \in Int
         /\ NodeValue \in Int
         /\ IsFiniteSet(Sends) /\ IsFiniteSet(Updating) /\ Updating \subseteq Sends
         /\ \A k \in Sends : Cost(k) \in Nat
         /\ Due \in Int /\ Due >= 0
<1>1. IsFiniteSet(DOMAIN nodeCoins) /\ \A o \in DOMAIN nodeCoins : nodeCoins[o] \in Int
  BY DEF CoinInv, SpendTypeOK
<1>2. IsFiniteSet(DOMAIN nodeCoins \ nodeSpent)
  BY <1>1, FS_Subset
<1>3. NodeValue \in Int
  BY <1>1, <1>2, SumTyped DEF NodeValue
<1>4. IsFiniteSet(Sends)
  BY SendAssumption, FS_Interval DEF Sends
<1>5. IsFiniteSet(Updating) /\ Updating \subseteq Sends
  BY <1>4, FS_Subset DEF Updating
<1>6. \A k \in Sends : Cost(k) \in Nat
  BY ChangeTyped DEF CoinInv, InputsInv
<1>7. Due \in Int /\ Due >= 0
  <2> DEFINE f == [k \in Sends |-> Cost(k)]
  <2>1. \A k \in Updating : f[k] \in Int /\ f[k] >= 0
    BY <1>5, <1>6
  <2>2. Due = SumFunctionOnSet(f, Updating)
    BY DEF Due
  <2> HIDE DEF f
  <2> QED BY <1>5, <2>1, <2>2, SumTyped, SumOfPart
<1> QED BY <1>1, <1>2, <1>3, <1>4, <1>5, <1>6, <1>7

\* What is due does not change when calls stay where they are.
LEMMA DueSame ==
  ASSUME CoinInv, Updating' = Updating,
         \A k \in Updating : /\ send'[k].inputs = send[k].inputs
                             /\ send'[k].amount = send[k].amount
  PROVE  Due' = Due
<1> DEFINE f == [k \in Sends |-> Cost(k)]
           g == [k \in Sends |-> Cost(k)']
<1>1. \A k \in Updating : f[k] = g[k]
  BY SumsTyped, ChangeSettled
<1>2. Due = SumFunctionOnSet(f, Updating) /\ Due' = SumFunctionOnSet(g, Updating)
  BY DEF Due
<1>3. IsFiniteSet(Updating)
  BY SumsTyped
<1> HIDE DEF f, g
<1> QED BY <1>1, <1>2, <1>3, SumSame

\* A call whose transaction is out adds its cost to what is due.
LEMMA DueMore ==
  ASSUME CoinInv, NEW i \in Sends, i \notin Updating, Updating' = Updating \cup {i},
         \A k \in Sends : /\ send'[k].inputs = send[k].inputs
                          /\ send'[k].amount = send[k].amount
  PROVE  Due' = Due + Cost(i)
<1> DEFINE f == [k \in Sends |-> Cost(k)]
           g == [k \in Sends |-> Cost(k)']
<1>1. f = g
  BY ChangeSettled
<1>2. Due = SumFunctionOnSet(f, Updating) /\ Due' = SumFunctionOnSet(g, Updating \cup {i})
  BY DEF Due
<1>3. IsFiniteSet(Updating) /\ \A k \in Updating : f[k] \in Int
  BY SumsTyped
<1>4. f[i] = Cost(i) /\ f[i] \in Int
  BY SumsTyped
<1> HIDE DEF f, g
<1> QED BY <1>1, <1>2, <1>3, <1>4, SumAdd

\* A call that takes its cost off the balance takes it off what is due.
LEMMA DueLess ==
  ASSUME CoinInv, NEW i \in Updating, Updating' = Updating \ {i},
         \A k \in Sends : /\ send'[k].inputs = send[k].inputs
                          /\ send'[k].amount = send[k].amount
  PROVE  Due' = Due - Cost(i) /\ Due' \in Int
<1> DEFINE f == [k \in Sends |-> Cost(k)]
           g == [k \in Sends |-> Cost(k)']
<1>1. f = g
  BY ChangeSettled
<1>2. Due = SumFunctionOnSet(f, Updating) /\ Due' = SumFunctionOnSet(g, Updating \ {i})
  BY DEF Due
<1>3. IsFiniteSet(Updating) /\ (\A k \in Updating : f[k] \in Int) /\ Cost(i) \in Int
  BY SumsTyped
<1>4. f[i] = Cost(i)
  BY SumsTyped
<1>5. IsFiniteSet(Updating \ {i})
  BY <1>3, FS_Subset
<1> HIDE DEF f, g
<1>6. SumFunctionOnSet(f, Updating) = f[i] + SumFunctionOnSet(f, Updating \ {i})
  BY <1>3, SumRemove
<1>7. SumFunctionOnSet(f, Updating \ {i}) \in Int
  BY <1>3, <1>5, SumTyped
<1> QED BY <1>1, <1>2, <1>3, <1>4, <1>6, <1>7

\* A transaction costs the wallet its amount and its fee, and no more: the
\* change comes back.
LEMMA NodePays ==
  ASSUME SpendTypeOK, NEW i \in Sends, NodeAccepts(i), ChangeKey(i) \notin DOMAIN nodeCoins,
         IsFiniteSet(send[i].inputs), \A u \in send[i].inputs : Exists(u),
         \A u, v \in send[i].inputs : Outpoint(u) = Outpoint(v) => u = v
  PROVE  NodeValue' = NodeValue - Cost(i) /\ NodeValue' \in Int
<1> DEFINE I   == send[i].inputs
           Ins == {Outpoint(u) : u \in I}
           Old == DOMAIN nodeCoins \ nodeSpent
           key == ChangeKey(i)
<1>1. /\ IsFiniteSet(I) /\ \A u \in I : Exists(u)
      /\ \A u, v \in I : Outpoint(u) = Outpoint(v) => u = v
  OBVIOUS
<1>2. /\ Outpoint(Change(i)) = key /\ Cost(i) \in Int /\ ChangeValue(i) \in Int
      /\ ChangeValue(i) = InputValue(I) - Cost(i) /\ InputValue(I) \in Int
  BY ChangeTyped
<1>3. key \notin DOMAIN nodeCoins
  OBVIOUS
<1>4. Ins \subseteq Old /\ nodeSpent \subseteq DOMAIN nodeCoins
  BY DEF NodeAccepts, Acceptable, SpendTypeOK
<1>5. DOMAIN nodeCoins' \ nodeSpent' = (Old \ Ins) \cup {key}
  BY <1>2, <1>3, <1>4 DEF NodeAccepts
<1>6. /\ \A o \in Old \ Ins : nodeCoins'[o] = nodeCoins[o]
      /\ nodeCoins'[key] = ChangeValue(i) /\ key \notin Old \ Ins
  BY <1>2, <1>3 DEF NodeAccepts
<1>7. IsFiniteSet(Old) /\ IsFiniteSet(Old \ Ins) /\ \A o \in Old : nodeCoins[o] \in Int
  BY FS_Subset DEF SpendTypeOK
<1>8. InputValue(I) = SumFunctionOnSet(nodeCoins, Ins)
  <2> DEFINE g == [u \in I |-> u.value]
             h == [u \in I |-> Outpoint(u)]
  <2>1. /\ \A u \in I : g[u] \in Int /\ g[u] = nodeCoins[h[u]]
        /\ \A u, v \in I : h[u] = h[v] => u = v
    BY <1>1, <1>4, <1>7 DEF Exists
  <2>2. {h[u] : u \in I} = Ins
    OBVIOUS
  <2>3. InputValue(I) = SumFunctionOnSet(g, I)
    BY DEF InputValue, SumFunction
  <2>4. IsFiniteSet(I)
    BY <1>1
  <2> HIDE DEF g, h, I, Ins
  <2> QED BY <2>1, <2>2, <2>3, <2>4, SumOfImages
<1> HIDE DEF I, Ins, Old, key
<1>9. NodeValue = SumFunctionOnSet(nodeCoins, Ins) + SumFunctionOnSet(nodeCoins, Old \ Ins)
  <2>1. NodeValue = SumFunctionOnSet(nodeCoins, Old)
    BY DEF NodeValue, Old
  <2> QED BY <1>4, <1>7, <2>1, SumSplit
<1>10. SumFunctionOnSet(nodeCoins', Old \ Ins) = SumFunctionOnSet(nodeCoins, Old \ Ins)
  BY <1>6, <1>7, SumSame
<1>11. SumFunctionOnSet(nodeCoins', (Old \ Ins) \cup {key})
         = SumFunctionOnSet(nodeCoins', Old \ Ins) + ChangeValue(i)
  <2>1. \A o \in Old \ Ins : nodeCoins'[o] \in Int
    BY <1>6, <1>7
  <2>2. nodeCoins'[key] \in Int
    BY <1>2, <1>6
  <2> QED BY <1>6, <1>7, <2>1, <2>2, SumAdd
<1>12. NodeValue' = SumFunctionOnSet(nodeCoins', (Old \ Ins) \cup {key})
  BY <1>5 DEF NodeValue
<1>13. SumFunctionOnSet(nodeCoins, Old \ Ins) \in Int
  BY <1>7, SumTyped
<1> QED BY <1>2, <1>8, <1>9, <1>10, <1>11, <1>12, <1>13

\* At the start both balances are the value of the coins.
LEMMA InitBalanceInv == SpendInit => BalanceInv
<1> SUFFICES ASSUME SpendInit PROVE BalanceInv
  OBVIOUS
<1> DEFINE D == DOMAIN InitCoins
           g == [j \in D |-> InitCoins[j].value]
           h == [j \in D |-> Outpoint(InitCoins[j])]
<1>1. /\ D = 1 .. Len(InitCoins) /\ Len(InitCoins) \in Nat
      /\ \A j \in D : InitCoins[j] \in UtxoRecords /\ InitCoins[j].value \in Nat
  BY CoinsAssumption
<1>2. IsFiniteSet(D)
  BY <1>1, FS_Interval
<1>3. \A j, k \in D : h[j] = h[k] => j = k
  BY CoinsAssumption
<1>4. {h[j] : j \in D} = InitKeys
  BY DEF InitKeys
<1>5. \A j \in D : g[j] \in Int /\ g[j] = nodeCoins[h[j]]
  <2> TAKE j \in D
  <2>1. h[j] \in InitKeys /\ InitAt(h[j]) = j
    BY CoinsAssumption DEF InitKeys, InitAt
  <2> QED BY <1>1, <2>1 DEF SpendInit
<1>6. InitValue = SumFunctionOnSet(g, D)
  BY DEF InitValue, SumFunction
<1>7. NodeValue = SumFunctionOnSet(nodeCoins, InitKeys)
  <2>1. DOMAIN nodeCoins \ nodeSpent = InitKeys
    BY DEF SpendInit
  <2> QED BY <2>1 DEF NodeValue
<1>8. InitValue = NodeValue /\ InitValue \in Int
  <2> HIDE DEF D, g, h
  <2> QED BY <1>2, <1>3, <1>4, <1>5, <1>6, <1>7, SumOfImages, SumTyped
<1>9. Due = 0
  <2>1. Updating = {}
    BY DEF Updating, SpendInit
  <2> QED BY <2>1, SumEmpty DEF Due
<1>10. \A i \in Sends : balancer[i].pc = "idle"
  BY DEF SpendInit, NoWrite
<1> QED BY <1>8, <1>9, <1>10 DEF SpendInit, BalanceInv

\* Balances stay where they are, or are copied, while the sum they must cover
\* does not grow.
LEMMA CoverKept ==
  ASSUME CoinInv, BalanceInv, NodeValue' + Due' <= NodeValue + Due,
         NodeValue' \in Int, Due' \in Int,
         memBalance' \in {memBalance, dbBalance}, dbBalance' = dbBalance,
         \A k \in Sends : balancer'[k].pc # "idle" => balancer[k].pc # "idle" /\ balancer'[k].value = balancer[k].value
  PROVE  BalanceInv'
<1>1. /\ memBalance \in Int /\ dbBalance \in Int /\ NodeValue \in Int /\ Due \in Int
      /\ \A k \in Sends : balancer[k].value \in Int
  BY SumsTyped DEF CoinInv, SpendTypeOK, StoreTypeOK, BalancerStates
<1>2. \A b \in Int : b >= NodeValue + Due => b >= NodeValue' + Due'
  <2>1. \A a, b, c, d, e \in Int : a + c <= d + e /\ b >= d + e => b >= a + c
    OBVIOUS
  <2> QED BY <1>1, <2>1
<1>3. memBalance' >= NodeValue' + Due' /\ dbBalance' >= NodeValue' + Due'
  BY <1>1, <1>2 DEF BalanceInv
<1>4. ASSUME NEW k \in Sends, balancer'[k].pc # "idle"
      PROVE  balancer'[k].value >= NodeValue' + Due'
  BY <1>1, <1>2, <1>4 DEF BalanceInv
<1> QED BY <1>3, <1>4 DEF BalanceInv

\* Nothing changes that the balances must cover.
LEMMA CoverSame ==
  ASSUME CoinInv, UNCHANGED <<nodeCoins, nodeSpent>>, Updating' = Updating,
         \A k \in Updating : send'[k].inputs = send[k].inputs /\ send'[k].amount = send[k].amount
  PROVE  /\ NodeValue' = NodeValue /\ Due' = Due
         /\ NodeValue \in Int /\ Due \in Int /\ NodeValue' + Due' <= NodeValue + Due
<1>1. NodeValue' = NodeValue
  BY DEF NodeValue
<1> QED BY <1>1, DueSame, SumsTyped

\* Every step keeps the invariant about balances.
LEMMA BalanceInvStep == CoinInv /\ BalanceInv /\ [SpendNext]_allSpendVars => BalanceInv'
<1> SUFFICES ASSUME CoinInv, BalanceInv, [SpendNext]_allSpendVars PROVE BalanceInv'
  OBVIOUS
<1>0. /\ send \in [Sends -> SendStates] /\ balancer \in [Sends -> BalancerStates]
      /\ memBalance \in Int /\ dbBalance \in Int
  BY DEF CoinInv, SpendTypeOK, StoreTypeOK
<1>1. NodeValue \in Int /\ Due \in Int /\ Due >= 0 /\ \A k \in Sends : Cost(k) \in Nat
  BY SumsTyped
<1>2. ASSUME NEW i \in Sends,
             \/ \E amount \in Amounts : CheckFunds(i, amount)
             \/ Select(i) \/ SelectFails(i) \/ Rejected(i) \/ SendFails(i)
      PROVE  BalanceInv'
  <2>1. /\ UNCHANGED <<memBalance, dbBalance, nodeCoins, nodeSpent, balancer>>
        /\ send[i].pc # "update"
    BY <1>2 DEF CheckFunds, Select, SelectFails, Rejected, SendFails, storeVars, nodeVars, workerVars
  <2>2. \A k \in Sends : k # i => send'[k] = send[k]
    <3>1. CASE End(i)
      BY <1>0, <3>1 DEF End
    <3>2. CASE Select(i)
      BY <1>0, <3>2 DEF Select
    <3>3. ASSUME NEW amount \in Amounts, CheckFunds(i, amount)
          PROVE  \A k \in Sends : k # i => send'[k] = send[k]
      BY <1>0, <3>3 DEF CheckFunds
    <3> QED BY <1>2, <3>1, <3>2, <3>3 DEF SelectFails, Rejected, SendFails
  <2>3. send'[i].pc # "update"
    <3>1. CASE End(i)
      BY <1>0, <3>1 DEF End, SendStates
    <3>2. CASE Select(i)
      BY <1>0, <3>2 DEF Select, SendStates
    <3>3. ASSUME NEW amount \in Amounts, CheckFunds(i, amount) PROVE send'[i].pc # "update"
      BY <1>0, <3>3 DEF CheckFunds, SendStates
    <3> QED BY <1>2, <3>1, <3>2, <3>3 DEF SelectFails, Rejected, SendFails
  <2>4. Updating' = Updating /\ i \notin Updating
    BY <2>1, <2>2, <2>3 DEF Updating
  <2>5. \A k \in Updating : send'[k].inputs = send[k].inputs /\ send'[k].amount = send[k].amount
    BY <2>2, <2>4 DEF Updating
  <2> QED BY <2>1, <2>4, <2>5, CoverSame, CoverKept
<1>3. ASSUME NEW i \in Sends, Broadcast(i) \/ ReplyLost(i) PROVE BalanceInv'
  <2>1. /\ UNCHANGED <<memBalance, dbBalance, balancer>> /\ NodeAccepts(i)
        /\ i \notin Updating
    BY <1>3 DEF Broadcast, ReplyLost, NodeAccepts, storeVars, workerVars, Updating
  <2>2. NodeValue' = NodeValue - Cost(i) /\ NodeValue' \in Int
    <3>1. ChangeKey(i) \notin DOMAIN nodeCoins
      BY <2>1 DEF CoinInv, ChangeInv, Early, NodeAccepts
    <3> QED BY <2>1, <3>1, NodePays DEF CoinInv, InputsInv
  <2>3. \A k \in Sends : send'[k].inputs = send[k].inputs /\ send'[k].amount = send[k].amount
    BY <1>0, <1>3 DEF Broadcast, ReplyLost, End, SendStates
  <2>4. Due' \in Int /\ NodeValue' + Due' <= NodeValue + Due
    <3>1. CASE Broadcast(i)
      <4>1. Updating' = Updating \cup {i}
        BY <1>0, <3>1 DEF Broadcast, Updating, SendStates
      <4>2. Due' = Due + Cost(i)
        BY <2>1, <2>3, <4>1, DueMore
      <4> QED BY <1>1, <2>2, <4>2
    <3>2. CASE ReplyLost(i)
      <4>1. Updating' = Updating
        BY <1>0, <2>1, <3>2 DEF ReplyLost, End, Updating, SendStates
      <4>2. Due' = Due
        BY <2>3, <4>1, DueSame, SumsTyped
      <4> QED BY <1>1, <2>2, <4>2
    <3> QED BY <1>3, <3>1, <3>2
  <2> QED BY <2>1, <2>2, <2>4, CoverKept
<1>4. ASSUME NEW i \in Sends, UpdateWallet(i) PROVE BalanceInv'
  <2>1. /\ UNCHANGED <<memBalance, dbBalance, nodeCoins, nodeSpent>> /\ i \in Updating
    BY <1>4 DEF UpdateWallet, storeVars, nodeVars, Updating
  <2>2. \A k \in Sends : send'[k].inputs = send[k].inputs /\ send'[k].amount = send[k].amount
    BY <1>0, <1>4 DEF UpdateWallet, End, SendStates
  <2>3. Updating' = Updating \ {i}
    BY <1>0, <1>4 DEF UpdateWallet, End, Updating, SendStates
  <2>4. Due' = Due - Cost(i) /\ Due' \in Int
    BY <2>1, <2>2, <2>3, DueLess
  <2>5. NodeValue' = NodeValue
    BY <2>1 DEF NodeValue
  <2>6. balancer'[i].value = memBalance - Cost(i)
    <3>1. balancer'[i].value = memBalance - send[i].amount - Fee(i)
      BY <1>0, <1>4 DEF UpdateWallet
    <3>2. Fee(i) \in Int /\ send[i].amount \in Int
      <4>1. Fee(i) \in Nat
        BY ChangeTyped DEF CoinInv, InputsInv
      <4>2. send[i].amount \in Nat
        BY ChangeTyped DEF CoinInv, InputsInv
      <4> QED BY <4>1, <4>2
    <3> QED BY <1>0, <3>1, <3>2 DEF Cost
  <2>7. \A k \in Sends : k # i => balancer'[k] = balancer[k]
    BY <1>0, <1>4 DEF UpdateWallet
  <2>8. \A k \in Sends : balancer[k].value \in Int
    BY <1>0 DEF BalancerStates
  <2>9. ASSUME NEW k \in Sends, balancer'[k].pc # "idle"
        PROVE  balancer'[k].value >= NodeValue' + Due'
    <3>1. CASE k = i
      BY <1>0, <1>1, <2>4, <2>5, <2>6, <3>1 DEF BalanceInv
    <3>2. CASE k # i
      BY <1>1, <2>4, <2>5, <2>7, <2>8, <2>9, <3>2 DEF BalanceInv
    <3> QED BY <3>1, <3>2
  <2>10. memBalance >= NodeValue' + Due' /\ dbBalance >= NodeValue' + Due'
    BY <1>0, <1>1, <2>4, <2>5 DEF BalanceInv
  <2> QED BY <2>1, <2>9, <2>10 DEF BalanceInv
<1>5. ASSUME NEW i \in Sends, MarkerStep(i) \/ ChangerStep(i) PROVE BalanceInv'
  <2>1. UNCHANGED <<memBalance, dbBalance, nodeCoins, nodeSpent, send, balancer>>
    BY <1>5 DEF MarkerStep, MarkInDb, MarkSkips, MarkInMemory, MarkEnds, ChangerStep, ChangeSave,
                ChangeSaveFails, ChangeAppend, ChangeCopy, ChangeStore, storeVars, memVars, dbVars,
                nodeVars
  <2>2. Updating' = Updating
    BY <2>1 DEF Updating
  <2> QED BY <2>1, <2>2, CoverSame, CoverKept
<1>6. ASSUME NEW i \in Sends, BalancerStep(i) PROVE BalanceInv'
  <2>1. UNCHANGED <<nodeCoins, nodeSpent, send>>
    BY <1>6 DEF BalancerStep, BalanceSave, BalanceSaveFails, BalanceSet, nodeVars
  <2>2. Updating' = Updating
    BY <2>1 DEF Updating
  <2>3. NodeValue' = NodeValue /\ Due' = Due
    BY <2>1, <2>2, CoverSame
  <2>4. /\ balancer[i].pc # "idle"
        /\ memBalance' \in {memBalance, balancer[i].value}
        /\ dbBalance' \in {dbBalance, balancer[i].value}
    BY <1>6 DEF BalancerStep, BalanceSave, BalanceSaveFails, BalanceSet, SaveBalance, SetBalance,
                storeVars, memVars, dbVars
  <2>5. \A k \in Sends : balancer'[k].pc # "idle" =>
          balancer[k].pc # "idle" /\ balancer'[k].value = balancer[k].value
    BY <1>0, <1>6, <2>4 DEF BalancerStep, BalanceSave, BalanceSaveFails, BalanceSet, BalancerStates
  <2> QED BY <2>3, <2>4, <2>5 DEF BalanceInv
<1>7. CASE SpendRestart
  <2>1. /\ UNCHANGED <<dbBalance, nodeCoins, nodeSpent>> /\ memBalance' = dbBalance
        /\ \A k \in Sends : balancer'[k].pc = "idle"
    BY <1>7 DEF SpendRestart, LoadWallet, NoWrite, dbVars, nodeVars
  <2>2. Updating' = {}
    BY <1>0, <1>7 DEF SpendRestart, Updating, SendStates
  <2>3. Due' = 0
    BY <2>2, SumEmpty DEF Due
  <2>4. NodeValue' = NodeValue
    BY <2>1 DEF NodeValue
  <2> QED BY <1>1, <2>1, <2>3, <2>4, CoverKept
<1>8. CASE UNCHANGED allSpendVars
  <2>1. UNCHANGED <<memBalance, dbBalance, nodeCoins, nodeSpent, send, balancer>>
    BY <1>8 DEF allSpendVars, spendVars, storeVars
  <2>2. Updating' = Updating
    BY <2>1 DEF Updating
  <2> QED BY <2>1, <2>2, CoverSame, CoverKept
<1> QED BY <1>2, <1>3, <1>4, <1>5, <1>6, <1>7, <1>8
        DEF SpendNext, HandlerStep, ChangePanics, SpendCrash

\* Whatever calls overlap, fail or are cut off by a crash, both balances are at
\* least what the unspent coins are worth: SendToAddress takes amount and fee
\* of a transaction off at most once, and only after the node has taken it.
THEOREM SpendHidesNoMoney == SpendSafety => []NeverUnderstated
<1>1. CoinInv /\ BalanceInv /\ [SpendNext]_allSpendVars => (CoinInv /\ BalanceInv)'
  BY CoinInvStep, BalanceInvStep
<1>2. CoinInv /\ BalanceInv => NeverUnderstated
  <2> SUFFICES ASSUME CoinInv, BalanceInv PROVE NeverUnderstated
    OBVIOUS
  <2>1. /\ memBalance \in Int /\ dbBalance \in Int /\ NodeValue \in Int
        /\ Due \in Int /\ Due >= 0
    BY SumsTyped DEF CoinInv, SpendTypeOK, StoreTypeOK
  <2> QED BY <2>1 DEF BalanceInv, NeverUnderstated
<1> QED BY <1>1, <1>2, InitCoinInv, InitBalanceInv, PTL DEF SpendSafety
=============================================================================
