------------------------------- MODULE Wallet -------------------------------
(***************************************************************************)
(* One wallet that receives and sends: Scan and Spend over one Store, with *)
(* one node and one end of the process.  Scans credit the balance and      *)
(* append to w.utxos while the goroutines of a send write the balance,     *)
(* append the change and mark entries of the same slice.  utxoMtx keeps    *)
(* the two appends apart; nothing else is kept apart.                      *)
(*                                                                         *)
(* The wallet begins empty.  What it can send comes out of blocks, change  *)
(* pays an internal address, which scans do not look for (w.addresses      *)
(* holds the external ones), and payments of the wallet go to others.      *)
(***************************************************************************)
EXTENDS Scan, Spend

ASSUME WalletAssumption == InitHeight = 0 /\ InitCoins = <<>>

VARIABLES
  moving,       \* an append of a scan between the copy of the full slice and
                \* the store: <<>>, or <<goroutine, new slice>>
  overlapped    \* ghost: a block or a call came before all was quiet, or the
                \* slice moved while a send may be marking its inputs

walletVars == <<allScanVars, spendVars, moving, overlapped>>

\* No goroutine has anything left to do, but for calls that begin.
Quiet == Idle /\ AllFinished

-----------------------------------------------------------------------------
(* Scanning. *)

\* Mutant: addUTXO appends without utxoMtx.
ScanAppendUnlocked(t) == AppendReceived(t) /\ moving = <<>> /\ UNCHANGED moving

\* addUTXO takes utxoMtx; the slice has room.
ScanAppend(t) == AppendReceived(t) /\ UtxoMtxFree /\ moving = <<>> /\ UNCHANGED moving

\* The slice is full: its entries are copied, and then w.utxos is set.
ScanCopy(t) ==
  /\ scan[t].pc = "append" /\ MayGrow /\ UtxoMtxFree /\ moving = <<>>
  /\ moving' = <<t, Append(memUtxos, NewUtxo(Current(t)))>>
  /\ UNCHANGED allScanVars

ScanStore(t) ==
  /\ moving # <<>> /\ moving[1] = t
  /\ memUtxos' = moving[2] /\ moving' = <<>>
  /\ Go(t, "read")
  /\ UNCHANGED <<memBalance, memScanned, dbVars,
                 height, addresses, filter, subscribed, target, faults, crashes>>

\* The other steps of a goroutine that scans do not touch the slice.
ScanElse(t) ==
  /\ \/ FetchBlockFails(t) \/ SkipOutput(t)
     \/ SaveReceived(t) \/ SaveReceivedFails(t)
     \/ ReadBalance(t) \/ SaveCredit(t) \/ SaveCreditFails(t) \/ SetCredit(t)
     \/ ReadScanned(t) \/ SaveAdvance(t) \/ SaveAdvanceFails(t) \/ SetAdvance(t)
  /\ UNCHANGED moving

ReceiveStep(t) ==
  /\ ScanAppend(t) \/ ScanCopy(t) \/ ScanStore(t) \/ ScanElse(t)
  /\ UNCHANGED <<spendVars, overlapped>>

CatchUpStep == SyncStep /\ UNCHANGED <<spendVars, moving, overlapped>>

\* The coins that block h brings.
NewCoins(h) ==
  [o \in OwnOutpoints(h) |->
     (CHOOSE u \in {Chain[h][i] : i \in OwnPositions(h)} : Outpoint(u) = o).value]

Mine ==
  /\ MineBlock
  /\ Serial => Quiet
  /\ nodeCoins' = [o \in DOMAIN nodeCoins \cup OwnOutpoints(height + 1) |->
                     IF o \in DOMAIN nodeCoins THEN nodeCoins[o] ELSE NewCoins(height + 1)[o]]
  /\ overlapped' = (overlapped \/ ~Quiet)
  /\ UNCHANGED <<nodeSpent, send, workerVars, sendFaults, sendCrashes, moving>>

Issue(a) == GetNewAddress(a) /\ UNCHANGED <<spendVars, moving, overlapped>>

-----------------------------------------------------------------------------
(* Sending. *)

Call(i, amount) ==
  /\ CheckFunds(i, amount)
  /\ Serial => Quiet
  /\ overlapped' = (overlapped \/ ~Quiet)
  /\ UNCHANGED <<scanVars, moving>>

\* The appends of the change wait for a scan that holds utxoMtx.
ChangeStep(i) ==
  \/ ChangeSave(i) \/ ChangeSaveFails(i) \/ ChangeStore(i)
  \/ moving = <<>> /\ (ChangeAppend(i) \/ ChangeCopy(i))

SendStep(i) ==
  /\ HandlerStep(i) \/ MarkerStep(i) \/ ChangeStep(i) \/ BalancerStep(i)
  /\ overlapped' = (overlapped \/ changer'[i].pc = "store")
  /\ UNCHANGED <<scanVars, moving>>

-----------------------------------------------------------------------------
(* The end of the process, for all of its goroutines. *)

AllRestart == Restart /\ SpendRestart /\ moving' = <<>> /\ UNCHANGED overlapped

Die            == crashes < MaxCrashes /\ AllRestart
ScanPanic(t)   == Panics(t) /\ AllRestart
ChangePanic(i) == ChangePanics(i) /\ AllRestart

-----------------------------------------------------------------------------
WalletInit == ScanInit /\ SpendInit /\ moving = <<>> /\ overlapped = FALSE

WalletNext ==
  \/ CatchUpStep \/ Mine
  \/ \E t \in Threads : ReceiveStep(t) \/ ScanPanic(t)
  \/ \E a \in NewAddrs : Issue(a)
  \/ \E i \in Sends :
        \/ \E amount \in Amounts : Call(i, amount)
        \/ SendStep(i) \/ ChangePanic(i)
  \/ Die

\* As in Scan and Spend: what has begun goes on.
WalletFairness ==
  /\ WF_walletVars(CatchUpStep)
  /\ \A t \in Threads : WF_walletVars(ReceiveStep(t) \/ ScanPanic(t))
  /\ \A i \in Sends : WF_walletVars(SendStep(i) \/ ChangePanic(i))

WalletSafety == WalletInit /\ [][WalletNext]_walletVars
WalletSpec   == WalletSafety /\ WalletFairness

-----------------------------------------------------------------------------
(* Properties. *)

NoFailure == faults = 0 /\ sendFaults = 0 /\ crashes = 0

WalletTypeOK ==
  /\ ScanTypeOK /\ SpendTypeOK
  /\ moving = <<>> \/ moving \in Threads \X Seq(UtxoRecords)
  /\ overlapped \in BOOLEAN

\* When blocks and calls come one after the other, marks are not overtaken by
\* a slice that moves, and nothing fails, the wallet at rest agrees with the
\* node: both balances are what its unspent coins are worth, it lists each of
\* its coins once, received or change, with the spent ones marked, and has
\* scanned every block.
WalletExact ==
  Quiet /\ ~overlapped /\ NoFailure =>
    /\ memScanned = height /\ dbScanned = height
    /\ memBalance = NodeValue /\ dbBalance = NodeValue
    /\ {Outpoint(u) : u \in Range(memUtxos)} = DOMAIN nodeCoins
    /\ {Outpoint(u) : u \in {v \in Range(memUtxos) : v.spent}} = nodeSpent
    /\ Len(memUtxos) = Cardinality(DOMAIN nodeCoins)

\* No append to w.utxos is lost, although scans and sends append at the same
\* time to a slice that moves: what is saved is listed, or a goroutine is still
\* about to append it, whatever has overlapped, failed or died.
AppendsAreKept ==
  \A o \in DOMAIN dbUtxos :
    \/ \E u \in Range(memUtxos) : Outpoint(u) = o
    \/ \E t \in Threads : scan[t].pc = "append" /\ Outpoint(Current(t)) = o
    \/ \E i \in Sends : changer[i].pc \in {"append", "store"} /\ Outpoint(Change(i)) = o

\* What payments received and payments made are worth, and the payments that
\* the node has taken.
Worth(C, D) ==
  SumFunction([p \in C |-> Chain[p[1]][p[2]].value])
    - SumFunction([i \in D |-> send[i].amount + Fee(i)])
Debits == {i \in Sends : Outpoint(Change(i)) \in DOMAIN nodeCoins}

\* Goroutines overwrite each other's balance, and credits and debits get lost;
\* but without failures and restarts none counts twice, and no balance is ever
\* torn: it is always the worth of some of the payments received less some of
\* those made.
BalanceIsWhole ==
  NoFailure =>
    \E C \in SUBSET PaidPlaces(height), D \in SUBSET Debits : memBalance = Worth(C, D)
=============================================================================
