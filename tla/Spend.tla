------------------------------- MODULE Spend -------------------------------
(***************************************************************************)
(* Sending: SendToAddress of wallet/rpc.go with createRawTransaction,      *)
(* extractTxInfo and updateWalletAfterTx of wallet/tx.go.  Every RPC call  *)
(* runs in a goroutine of its own, and updateWalletAfterTx starts three    *)
(* more: one marks the inputs as spent, one adds the change, one writes    *)
(* the balance computed before they started.  Nobody waits for them, so    *)
(* the next call may read the fields at any point of their work.           *)
(*                                                                         *)
(* The node is the set of the wallet's coins that exist and of those that  *)
(* an accepted transaction has spent.  The check of the Locked flag is in  *)
(* WalletLock, the key for the change output in KeyChain; here a call gets *)
(* past the one and is given a fresh address by the other.                 *)
(***************************************************************************)
EXTENDS Store, Selection

CONSTANTS
  InitCoins,    \* the wallet's UTXOs at the start, in the order of the slice
  Amounts,      \* the amounts users send
  FeeBase, FeePerInput,  \* fee of a transaction with a change output
  MaxSends,     \* bound: calls of SendToAddress
  Serial,       \* a call starts only when the work of all others is over
  MayGrow,      \* append may move the slice: it is full
  MaxSendFaults, MaxSendCrashes  \* bounds: failures, crashes

Sends == 1 .. MaxSends

\* Transaction i of the wallet pays at output 0 and has its change at 1.
TxId(i) == 1000 + i

ASSUME CoinsAssumption ==
  /\ InitCoins \in Seq(UtxoRecords)
  /\ \A i \in DOMAIN InitCoins :
        InitCoins[i].txid < 1000 /\ InitCoins[i].value \in Nat /\ ~InitCoins[i].spent
  /\ \A i, j \in DOMAIN InitCoins : Outpoint(InitCoins[i]) = Outpoint(InitCoins[j]) => i = j
ASSUME SendAssumption ==
  /\ Amounts \subseteq Nat \ {0} /\ FeeBase \in Nat /\ FeePerInput \in Nat
  /\ MaxSends \in Nat /\ MaxSendFaults \in Nat /\ MaxSendCrashes \in Nat
  /\ Serial \in BOOLEAN /\ MayGrow \in BOOLEAN

VARIABLES
  nodeCoins,    \* the wallet's coins known to the node: outpoint -> value
  nodeSpent,    \* outpoints of those that are spent
  send,         \* the handlers: [pc, amount, inputs]
  marker,       \* goroutines of markSpentUTXOs: [pc, todo, at]
  changer,      \* goroutines of addChangeUTXO: [pc, copy]
  balancer,     \* goroutines of setBalance: [pc, value]
  sendFaults, sendCrashes

nodeVars     == <<nodeCoins, nodeSpent>>
workerVars   == <<marker, changer, balancer>>
spendVars    == <<nodeCoins, nodeSpent, send, marker, changer, balancer, sendFaults, sendCrashes>>
allSpendVars == <<storeVars, spendVars>>

-----------------------------------------------------------------------------
(* What a transaction is worth. *)

InputValue(S) == SumFunction([u \in S |-> u.value])
Fee(i)        == FeeBase + FeePerInput * Cardinality(send[i].inputs)

\* createRawTransaction: the fee comes out of the change.
ChangeValue(i) == InputValue(send[i].inputs) - send[i].amount - Fee(i)
Change(i)      == NewUtxo([txid |-> TxId(i), vout |-> 1, value |-> ChangeValue(i)])

\* extractTxInfo takes the output whose value differs from the amount for the
\* change; when both are equal it returns an empty output.
ChangeFound(i) == ChangeValue(i) # send[i].amount

SendFault == sendFaults < MaxSendFaults /\ sendFaults' = sendFaults + 1

Finished(i) ==
  /\ send[i].pc \in {"idle", "over"}
  /\ marker[i].pc = "idle" /\ changer[i].pc = "idle" /\ balancer[i].pc = "idle"
AllFinished == \A i \in Sends : Finished(i)

\* utxoMtx is held from the copy of a full slice to the store of the new one.
UtxoMtxFree == \A i \in Sends : changer[i].pc # "store"

-----------------------------------------------------------------------------
(* The handler. *)

End(i) == send' = [send EXCEPT ![i].pc = "over"]

CheckFunds(i, amount) ==
  /\ send[i].pc = "idle"
  /\ Serial => AllFinished
  /\ send' = [send EXCEPT ![i].amount = amount,
                          ![i].pc = IF memBalance < amount THEN "over" ELSE "select"]
  /\ UNCHANGED <<storeVars, nodeVars, workerVars, sendFaults, sendCrashes>>

Select(i) ==
  /\ send[i].pc = "select"
  /\ \E P \in Selections(memUtxos, send[i].amount) :
        send' = [send EXCEPT ![i].pc = "broadcast", ![i].inputs = {memUtxos[p] : p \in P}]
  /\ UNCHANGED <<storeVars, nodeVars, workerVars, sendFaults, sendCrashes>>

SelectFails(i) ==
  /\ send[i].pc = "select"
  /\ Selections(memUtxos, send[i].amount) = {}
  /\ End(i)
  /\ UNCHANGED <<storeVars, nodeVars, workerVars, sendFaults, sendCrashes>>

\* The node takes a transaction whose inputs it has unspent and whose outputs
\* are positive.
Acceptable(i) ==
  /\ {Outpoint(u) : u \in send[i].inputs} \subseteq DOMAIN nodeCoins \ nodeSpent
  /\ ChangeValue(i) > 0

NodeAccepts(i) ==
  /\ send[i].pc = "broadcast" /\ Acceptable(i)
  /\ nodeSpent' = nodeSpent \cup {Outpoint(u) : u \in send[i].inputs}
  /\ nodeCoins' = [o \in DOMAIN nodeCoins \cup {Outpoint(Change(i))} |->
                     IF o = Outpoint(Change(i)) THEN ChangeValue(i) ELSE nodeCoins[o]]

Broadcast(i) ==
  /\ NodeAccepts(i)
  /\ send' = [send EXCEPT ![i].pc = "update"]
  /\ UNCHANGED <<storeVars, workerVars, sendFaults, sendCrashes>>

\* The transaction is out, but SendRawTransaction returns an error: the
\* wallet is left as it was.
ReplyLost(i) ==
  /\ NodeAccepts(i) /\ SendFault
  /\ End(i)
  /\ UNCHANGED <<storeVars, workerVars, sendCrashes>>

\* The node refuses the transaction.
Rejected(i) ==
  /\ send[i].pc = "broadcast" /\ ~Acceptable(i)
  /\ End(i)
  /\ UNCHANGED <<storeVars, nodeVars, workerVars, sendFaults, sendCrashes>>

\* Mutant: the error of SendRawTransaction is logged, and the wallet updated.
SendFailureIgnored(i) ==
  /\ send[i].pc = "broadcast" /\ SendFault
  /\ send' = [send EXCEPT ![i].pc = "update"]
  /\ UNCHANGED <<storeVars, nodeVars, workerVars, sendCrashes>>

\* The transaction is not sent at all: a key could not be stored, an input
\* not be signed, the node not be reached.
SendFails(i) ==
  /\ send[i].pc = "broadcast" /\ SendFault
  /\ End(i)
  /\ UNCHANGED <<storeVars, nodeVars, workerVars, sendCrashes>>

\* Mutants: the fee is forgotten; it is taken off both by the change and here
\* once more.
UpdateWithoutFee(i) ==
  /\ send[i].pc = "update"
  /\ End(i)
  /\ marker' = [marker EXCEPT ![i].pc = "find", ![i].todo = send[i].inputs]
  /\ changer' = [changer EXCEPT ![i].pc = "save"]
  /\ balancer' = [balancer EXCEPT ![i] =
        [pc |-> "save", value |-> memBalance - send[i].amount]]
  /\ UNCHANGED <<storeVars, nodeVars, sendFaults, sendCrashes>>

UpdateFeeTwice(i) ==
  /\ send[i].pc = "update"
  /\ End(i)
  /\ marker' = [marker EXCEPT ![i].pc = "find", ![i].todo = send[i].inputs]
  /\ changer' = [changer EXCEPT ![i].pc = "save"]
  /\ balancer' = [balancer EXCEPT ![i] =
        [pc |-> "save", value |-> memBalance - send[i].amount - 2 * Fee(i)]]
  /\ UNCHANGED <<storeVars, nodeVars, sendFaults, sendCrashes>>

\* updateWalletAfterTx: the balance is read here, once, and the goroutines
\* are started.
UpdateWallet(i) ==
  /\ send[i].pc = "update"
  /\ End(i)
  /\ marker' = [marker EXCEPT ![i].pc = "find", ![i].todo = send[i].inputs]
  /\ changer' = [changer EXCEPT ![i].pc = "save"]
  /\ balancer' = [balancer EXCEPT ![i] =
        [pc |-> "save", value |-> memBalance - send[i].amount - Fee(i)]]
  /\ UNCHANGED <<storeVars, nodeVars, sendFaults, sendCrashes>>

-----------------------------------------------------------------------------
(* markSpentUTXOs *)

\* Entries of the slice that the loop takes for input u: it compares TxID.
Matches(u) == {j \in DOMAIN memUtxos : memUtxos[j].txid = u.txid}

\* Mutants: the index is counted from zero; the input is not ticked off.
MarkIndexFromZero(i, u) ==
  /\ marker[i].pc = "find" /\ u \in marker[i].todo
  /\ Matches(u) # {}
  /\ UpdateUtxo(u)
  /\ marker' = [marker EXCEPT ![i] =
        [pc |-> "set", todo |-> marker[i].todo \ {u}, at |-> Min(Matches(u)) - 1]]
  /\ UNCHANGED <<memVars, dbBalance, dbScanned, nodeVars, send, changer, balancer,
                 sendFaults, sendCrashes>>

MarkAgain(i, u) ==
  /\ marker[i].pc = "find" /\ u \in marker[i].todo
  /\ Matches(u) # {}
  /\ UpdateUtxo(u)
  /\ marker' = [marker EXCEPT ![i] =
        [pc |-> "set", todo |-> marker[i].todo, at |-> Min(Matches(u))]]
  /\ UNCHANGED <<memVars, dbBalance, dbScanned, nodeVars, send, changer, balancer,
                 sendFaults, sendCrashes>>

\* The first match is to be marked.  Its record is written to the database
\* first, from the caller's copy, whose Spent flag nobody has set.
MarkInDb(i, u) ==
  /\ marker[i].pc = "find" /\ u \in marker[i].todo
  /\ Matches(u) # {}
  /\ UpdateUtxo(u)
  /\ marker' = [marker EXCEPT ![i] =
        [pc |-> "set", todo |-> marker[i].todo \ {u}, at |-> Min(Matches(u))]]
  /\ UNCHANGED <<memVars, dbBalance, dbScanned, nodeVars, send, changer, balancer,
                 sendFaults, sendCrashes>>

\* No entry, no record in the database, or an update that fails: next input.
MarkSkips(i, u) ==
  /\ marker[i].pc = "find" /\ u \in marker[i].todo
  /\ \/ (Matches(u) = {} \/ Outpoint(u) \notin DOMAIN dbUtxos) /\ UNCHANGED sendFaults
     \/ SendFault
  /\ marker' = [marker EXCEPT ![i].todo = @ \ {u}]
  /\ UNCHANGED <<storeVars, nodeVars, send, changer, balancer, sendCrashes>>

MarkInMemory(i) ==
  /\ marker[i].pc = "set"
  /\ memUtxos' = [memUtxos EXCEPT ![marker[i].at].spent = TRUE]
  /\ marker' = [marker EXCEPT ![i].pc = "find"]
  /\ UNCHANGED <<memBalance, memScanned, dbVars, nodeVars, send, changer, balancer,
                 sendFaults, sendCrashes>>

MarkEnds(i) ==
  /\ marker[i].pc = "find" /\ marker[i].todo = {}
  /\ marker' = [marker EXCEPT ![i].pc = "idle"]
  /\ UNCHANGED <<storeVars, nodeVars, send, changer, balancer, sendFaults, sendCrashes>>

-----------------------------------------------------------------------------
(* addChangeUTXO *)

ChangeSave(i) ==
  /\ changer[i].pc = "save" /\ ChangeFound(i)
  /\ SaveUtxo(Change(i))
  /\ changer' = [changer EXCEPT ![i].pc = "append"]
  /\ UNCHANGED <<memVars, dbBalance, dbScanned, nodeVars, send, marker, balancer,
                 sendFaults, sendCrashes>>

\* addUTXO fails; addChangeUTXO drops the error.
ChangeSaveFails(i) ==
  /\ changer[i].pc = "save" /\ ChangeFound(i) /\ SendFault
  /\ changer' = [changer EXCEPT ![i].pc = "idle"]
  /\ UNCHANGED <<storeVars, nodeVars, send, marker, balancer, sendCrashes>>

\* append in place: the array of the slice has room.
ChangeAppend(i) ==
  /\ changer[i].pc = "append" /\ UtxoMtxFree
  /\ AppendUtxo(Change(i))
  /\ changer' = [changer EXCEPT ![i].pc = "idle"]
  /\ UNCHANGED <<memBalance, memScanned, dbVars, nodeVars, send, marker, balancer,
                 sendFaults, sendCrashes>>

\* append to a full slice: the entries are copied to a new array, and only
\* then does w.utxos point to it.  The marking goroutines take no lock.
ChangeCopy(i) ==
  /\ changer[i].pc = "append" /\ UtxoMtxFree /\ MayGrow
  /\ changer' = [changer EXCEPT ![i] = [pc |-> "store", copy |-> Append(memUtxos, Change(i))]]
  /\ UNCHANGED <<storeVars, nodeVars, send, marker, balancer, sendFaults, sendCrashes>>

ChangeStore(i) ==
  /\ changer[i].pc = "store"
  /\ memUtxos' = changer[i].copy
  /\ changer' = [changer EXCEPT ![i] = [pc |-> "idle", copy |-> <<>>]]
  /\ UNCHANGED <<memBalance, memScanned, dbVars, nodeVars, send, marker, balancer,
                 sendFaults, sendCrashes>>

-----------------------------------------------------------------------------
(* setBalance *)

BalanceSave(i) ==
  /\ balancer[i].pc = "save"
  /\ SaveBalance(balancer[i].value)
  /\ balancer' = [balancer EXCEPT ![i].pc = "set"]
  /\ UNCHANGED <<memVars, dbUtxos, dbScanned, nodeVars, send, marker, changer,
                 sendFaults, sendCrashes>>

BalanceSaveFails(i) ==
  /\ balancer[i].pc = "save" /\ SendFault
  /\ balancer' = [balancer EXCEPT ![i].pc = "idle"]
  /\ UNCHANGED <<storeVars, nodeVars, send, marker, changer, sendCrashes>>

BalanceSet(i) ==
  /\ balancer[i].pc = "set"
  /\ SetBalance(balancer[i].value)
  /\ balancer' = [balancer EXCEPT ![i].pc = "idle"]
  /\ UNCHANGED <<memUtxos, memScanned, dbVars, nodeVars, send, marker, changer,
                 sendFaults, sendCrashes>>

-----------------------------------------------------------------------------
(* The end of the process, and its next start. *)

NoMark == [pc |-> "idle", todo |-> {}, at |-> 1]
NoCopy == [pc |-> "idle", copy |-> <<>>]
NoWrite == [pc |-> "idle", value |-> 0]

\* Calls in progress are lost with all their goroutines.
SpendRestart ==
  /\ LoadWallet
  /\ send' = [i \in Sends |->
        IF send[i].pc = "idle" THEN send[i] ELSE [send[i] EXCEPT !.pc = "over"]]
  /\ marker' = [i \in Sends |-> NoMark]
  /\ changer' = [i \in Sends |-> NoCopy]
  /\ balancer' = [i \in Sends |-> NoWrite]
  /\ sendCrashes' = sendCrashes + 1
  /\ UNCHANGED <<dbVars, nodeVars, sendFaults>>

SpendCrash == sendCrashes < MaxSendCrashes /\ SpendRestart

\* addChangeUTXO reads addrs[0] of an empty script.
ChangePanics(i) == changer[i].pc = "save" /\ ~ChangeFound(i) /\ SpendRestart

-----------------------------------------------------------------------------
InitValue == SumFunction([i \in DOMAIN InitCoins |-> InitCoins[i].value])
InitAt(o) == CHOOSE i \in DOMAIN InitCoins : Outpoint(InitCoins[i]) = o
InitKeys  == {Outpoint(InitCoins[i]) : i \in DOMAIN InitCoins}

SpendInit ==
  /\ memUtxos = InitCoins /\ memBalance = InitValue /\ memScanned = 0
  /\ dbUtxos = [o \in InitKeys |-> InitCoins[InitAt(o)]]
  /\ dbBalance = InitValue /\ dbScanned = 0
  /\ nodeCoins = [o \in InitKeys |-> InitCoins[InitAt(o)].value] /\ nodeSpent = {}
  /\ send = [i \in Sends |-> [pc |-> "idle", amount |-> 0, inputs |-> {}]]
  /\ marker = [i \in Sends |-> NoMark]
  /\ changer = [i \in Sends |-> NoCopy]
  /\ balancer = [i \in Sends |-> NoWrite]
  /\ sendFaults = 0 /\ sendCrashes = 0

HandlerStep(i) ==
  \/ Select(i) \/ SelectFails(i)
  \/ Broadcast(i) \/ ReplyLost(i) \/ Rejected(i) \/ SendFails(i)
  \/ UpdateWallet(i)
MarkerStep(i) ==
  \/ \E u \in marker[i].todo : MarkInDb(i, u) \/ MarkSkips(i, u)
  \/ MarkInMemory(i) \/ MarkEnds(i)
ChangerStep(i) ==
  \/ ChangeSave(i) \/ ChangeSaveFails(i)
  \/ ChangeAppend(i) \/ ChangeCopy(i) \/ ChangeStore(i)
BalancerStep(i) == BalanceSave(i) \/ BalanceSaveFails(i) \/ BalanceSet(i)

SpendNext ==
  \/ \E i \in Sends :
        \/ \E amount \in Amounts : CheckFunds(i, amount)
        \/ HandlerStep(i) \/ MarkerStep(i) \/ ChangerStep(i) \/ BalancerStep(i)
        \/ ChangePanics(i)
  \/ SpendCrash

\* A call that has begun and the goroutines it started keep running; users
\* need not send, and the process need not crash.
SpendFairness == \A i \in Sends :
  /\ WF_allSpendVars(HandlerStep(i))
  /\ WF_allSpendVars(MarkerStep(i))
  /\ WF_allSpendVars(ChangerStep(i) \/ ChangePanics(i))
  /\ WF_allSpendVars(BalancerStep(i))

SpendSafety == SpendInit /\ [][SpendNext]_allSpendVars
SpendSpec   == SpendSafety /\ SpendFairness

-----------------------------------------------------------------------------
(* Properties. *)

\* What the wallet's unspent coins are worth, according to the node.
NodeValue == SumFunctionOnSet(nodeCoins, DOMAIN nodeCoins \ nodeSpent)

SendStates     == [pc : {"idle", "select", "broadcast", "update", "over"},
                   amount : Amounts \cup {0}, inputs : SUBSET UtxoRecords]
MarkerStates   == [pc : {"idle", "find", "set"}, todo : SUBSET UtxoRecords, at : Nat \ {0}]
ChangerStates  == [pc : {"idle", "save", "append", "store"}, copy : Seq(UtxoRecords)]
BalancerStates == [pc : {"idle", "save", "set"}, value : Int]

SpendTypeOK ==
  /\ StoreTypeOK
  /\ IsFiniteSet(DOMAIN nodeCoins) /\ DOMAIN nodeCoins \subseteq Outpoints
  /\ nodeCoins \in [DOMAIN nodeCoins -> Int]
  /\ nodeSpent \subseteq DOMAIN nodeCoins
  /\ send \in [Sends -> SendStates]
  /\ marker \in [Sends -> MarkerStates]
  /\ changer \in [Sends -> ChangerStates]
  /\ balancer \in [Sends -> BalancerStates]
  /\ \A i \in Sends : marker[i].pc = "set" => marker[i].at \in DOMAIN memUtxos
  /\ sendFaults \in Nat /\ sendCrashes \in Nat

\* A coin the wallet shows as spent has been spent: no coin becomes
\* unusable for a transaction that did not use it.
\* For wallets whose coins are of different transactions: the loop takes two
\* coins of one transaction for each other.
MarksAreTrue ==
  \A j \in DOMAIN memUtxos : memUtxos[j].spent => Outpoint(memUtxos[j]) \in nodeSpent

\* Every coin the wallet lists or has saved exists, with that value: change
\* is added only for transactions the node has taken.
CoinsExist ==
  \A u \in Range(memUtxos) \cup Range(dbUtxos) :
    Outpoint(u) \in DOMAIN nodeCoins /\ u.value = nodeCoins[Outpoint(u)]

\* No money is hidden: whatever calls overlap, fail or are cut off by a
\* crash, both balances are at least what the unspent coins are worth, since
\* amount and fee of a transaction are taken off at most once.
NeverUnderstated == memBalance >= NodeValue /\ dbBalance >= NodeValue

\* Every call returns, and the goroutines it started end.
SendsEnd == \A i \in Sends : send[i].pc # "idle" ~> Finished(i)

-----------------------------------------------------------------------------
(* What the comments of the code promise and the code does not keep. *)

\* "if it finds them in the wallet it will mark them as spent": when every
\* goroutine is done and nothing has failed, each coin that the wallet has
\* spent and lists is marked.
SpentIsMarked ==
  AllFinished /\ sendFaults = 0 /\ sendCrashes = 0 =>
    \A j \in DOMAIN memUtxos : Outpoint(memUtxos[j]) \in nodeSpent => memUtxos[j].spent

\* "only update utxo in wallet struct if update in db succeeded": a coin that
\* is marked in memory is marked in the database.
MarkIsSaved ==
  \A j \in DOMAIN memUtxos : memUtxos[j].spent => dbUtxos[Outpoint(memUtxos[j])].spent

\* "new balance will be current wallet balance - amount wanting to be sent -
\* fee": when all goroutines are done, the balance has lost what was sent.
BalanceIsReduced ==
  AllFinished /\ sendFaults = 0 /\ sendCrashes = 0 => memBalance = NodeValue

\* "if no errors while creating and broadcasting tx, then update the wallet
\* fields accordingly ... and add change utxo to list of wallet utxos".
ChangeIsKept ==
  AllFinished /\ sendFaults = 0 => DOMAIN nodeCoins \subseteq DOMAIN dbUtxos
=============================================================================
