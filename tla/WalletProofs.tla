---------------------------- MODULE WalletProofs ----------------------------
(***************************************************************************)
(* Proofs about a wallet that receives and sends: scans and sends overlap  *)
(* in any way, fail at any step and are cut off by crashes.  The last part *)
(* is about a wallet to which nothing of this happens, which agrees with   *)
(* the node.                                                               *)
(***************************************************************************)
EXTENDS Wallet, ScanProofs, SpendProofs

\* s is the list of the wallet's coins with one more, o: marks may have been
\* set in the one and not in the other.
Extension(s, o) ==
  /\ Len(s) = Len(memUtxos) + 1
  /\ \A j \in DOMAIN memUtxos : Outpoint(s[j]) = Outpoint(memUtxos[j])
  /\ Outpoint(s[Len(s)]) = o

\* utxoMtx: one goroutine at a time has a copy of the slice, which it will
\* store, and nobody appends in between.
MutexInv ==
  /\ moving # <<>> =>
       /\ UtxoMtxFree /\ scan[moving[1]].pc = "append"
       /\ Extension(moving[2], Outpoint(Current(moving[1])))
  /\ \A i \in Sends : Storing(i) =>
       /\ Extension(changer[i].copy, ChangeKey(i))
       /\ \A k \in Sends : Storing(k) => k = i

FiniteInputs == \A i \in Sends : IsFiniteSet(send[i].inputs)
InMined      == \A t \in Threads : scan[t].pc \in BlockPCs => scan[t].block <= height
CallsFirst   == \A i \in Sends : send[i].pc # "over" => changer[i].pc = "idle"

WalletInv == WalletTypeOK /\ MutexInv /\ FiniteInputs /\ InMined /\ CallsFirst

\* The coin o is listed, or a goroutine is about to append it.
Shown(o) ==
  \/ o \in Listed(memUtxos)
  \/ \E t \in Threads : scan[t].pc = "append" /\ Outpoint(Current(t)) = o
  \/ \E i \in Sends : changer[i].pc \in {"append", "store"} /\ ChangeKey(i) = o

AllShown == \A o \in DOMAIN dbUtxos : Shown(o)

\* The outpoint of what a goroutine scans, as a record of the wallet.
LEMMA NewOutpoint == \A c : Outpoint(NewUtxo(c)) = Outpoint(c)
BY DEF Outpoint, NewUtxo

-----------------------------------------------------------------------------
(* Types. *)

\* A step of sending leaves the variables of Scan well typed, and one of
\* scanning those of Spend, as long as the slice does not become shorter.
LEMMA OtherTyped ==
  ASSUME WalletTypeOK
  PROVE  /\ SpendTypeOK' /\ UNCHANGED scanVars => ScanTypeOK'
         /\ /\ ScanTypeOK' /\ UNCHANGED spendVars
            /\ DOMAIN memUtxos \subseteq DOMAIN memUtxos'
            => SpendTypeOK'
<1>1. ASSUME SpendTypeOK', UNCHANGED scanVars PROVE ScanTypeOK'
  <2>1. StoreTypeOK'
    BY <1>1 DEF SpendTypeOK
  <2>2. ScanTypeOK
    BY DEF WalletTypeOK
  <2> QED BY <1>1, <2>1, <2>2 DEF ScanTypeOK, scanVars, Block
<1>2. ASSUME ScanTypeOK', UNCHANGED spendVars, DOMAIN memUtxos \subseteq DOMAIN memUtxos'
      PROVE  SpendTypeOK'
  <2>1. StoreTypeOK'
    BY <1>2 DEF ScanTypeOK
  <2>2. SpendTypeOK
    BY DEF WalletTypeOK
  <2> QED BY <1>2, <2>1, <2>2 DEF SpendTypeOK, spendVars
<1> QED BY <1>1, <1>2

\* A step of Scan that takes place in the wallet.
LEMMA ScanPartTyped ==
  ASSUME WalletTypeOK, ScanNext, UNCHANGED spendVars,
         DOMAIN memUtxos \subseteq DOMAIN memUtxos'
  PROVE  ScanTypeOK' /\ SpendTypeOK'
<1>1. ScanTypeOK'
  BY TypingStep DEF WalletTypeOK
<1> QED BY <1>1, OtherTyped

\* What an append adds.
LEMMA AppendedTyped ==
  ASSUME WalletTypeOK, NEW t \in Threads, scan[t].pc = "append"
  PROVE  /\ NewUtxo(Current(t)) \in UtxoRecords
         /\ memUtxos \in Seq(UtxoRecords)
         /\ Append(memUtxos, NewUtxo(Current(t))) \in Seq(UtxoRecords)
<1>1. ScanTypeOK /\ scan[t].pc \in OutputPCs
  BY DEF WalletTypeOK, OutputPCs
<1>2. NewUtxo(Current(t)) \in UtxoRecords
  BY <1>1, CurrentTyped
<1>3. memUtxos \in Seq(UtxoRecords)
  BY <1>1 DEF ScanTypeOK, StoreTypeOK
<1> QED BY <1>2, <1>3

\* The steps of a goroutine that scans.
LEMMA ReceiveTyped ==
  ASSUME WalletInv, NEW t \in Threads, ReceiveStep(t)
  PROVE  WalletTypeOK'
<1>0. WalletTypeOK /\ UNCHANGED <<spendVars, overlapped>>
  BY DEF WalletInv, ReceiveStep
<1>1. CASE ScanAppend(t)
  <2>1. AppendReceived(t) /\ UNCHANGED moving
    BY <1>1 DEF ScanAppend
  <2>2. ScanNext
    BY <2>1 DEF ScanNext, BlockStep
  <2>3. DOMAIN memUtxos \subseteq DOMAIN memUtxos'
    BY <1>0, <2>1, AppendedTyped DEF AppendReceived, AppendUtxo
  <2> QED BY <1>0, <2>1, <2>2, <2>3, ScanPartTyped DEF WalletTypeOK
<1>2. CASE ScanCopy(t)
  <2>1. moving' \in Threads \X Seq(UtxoRecords)
    BY <1>0, <1>2, AppendedTyped DEF ScanCopy
  <2>2. UNCHANGED storeVars /\ UNCHANGED scanVars
    BY <1>2 DEF ScanCopy, allScanVars
  <2>3. SpendTypeOK' /\ ScanTypeOK'
    <3>1. StoreTypeOK'
      BY <1>0, <2>2, StoreKept DEF WalletTypeOK, ScanTypeOK
    <3>2. SpendTypeOK'
      BY <1>0, <2>2, <3>1 DEF WalletTypeOK, SpendTypeOK, spendVars, storeVars
    <3> QED BY <1>0, <2>2, <3>2, OtherTyped
  <2> QED BY <1>0, <2>1, <2>3 DEF WalletTypeOK
<1>3. CASE ScanStore(t)
  <2>1. /\ moving # <<>> /\ memUtxos' = moving[2] /\ moving' = <<>> /\ moving[1] = t
        /\ UNCHANGED <<memBalance, memScanned, dbVars,
                       height, addresses, filter, subscribed, target, faults, crashes>>
        /\ Go(t, "read")
    BY <1>3 DEF ScanStore
  <2>2. moving \in Threads \X Seq(UtxoRecords)
    BY <1>0, <2>1 DEF WalletTypeOK
  <2>3. memUtxos' \in Seq(UtxoRecords) /\ memUtxos \in Seq(UtxoRecords)
    BY <1>0, <2>1, <2>2 DEF WalletTypeOK, ScanTypeOK, StoreTypeOK
  <2>4. Len(memUtxos') = Len(memUtxos) + 1 /\ scan[t].pc = "append"
    BY <2>1 DEF WalletInv, MutexInv, Extension
  <2>5. StoreTypeOK'
    BY <1>0, <2>1, <2>3 DEF WalletTypeOK, ScanTypeOK, StoreTypeOK, dbVars
  <2>6. ThreadsTyped'
    BY <1>0, <2>1, <2>4, GoTyped DEF WalletTypeOK, ScanPCs, BlockPCs, OutputPCs
  <2>7. ScanTypeOK'
    BY <1>0, <2>1, <2>5, <2>6, TypingFromThreads DEF WalletTypeOK, ScanTypeOK
  <2>8. DOMAIN memUtxos \subseteq DOMAIN memUtxos'
    BY <2>3, <2>4
  <2> QED BY <1>0, <2>1, <2>7, <2>8, OtherTyped DEF WalletTypeOK
<1>4. CASE ScanElse(t)
  <2>1. /\ ScanNext /\ UNCHANGED moving
    BY <1>4 DEF ScanElse, ScanNext, BlockStep
  <2>2. UNCHANGED memUtxos
    BY <1>4 DEF ScanElse, FetchBlockFails, SkipOutput, SaveReceived, SaveReceivedFails,
                ReadBalance, SaveCredit, SaveCreditFails, SetCredit, ReadScanned, SaveAdvance,
                SaveAdvanceFails, SetAdvance, storeVars, memVars
  <2> QED BY <1>0, <2>1, <2>2, ScanPartTyped DEF WalletTypeOK
<1> QED BY <1>1, <1>2, <1>3, <1>4 DEF ReceiveStep

\* The next start of the program.
LEMMA AllRestartTyped ==
  ASSUME WalletTypeOK, AllRestart
  PROVE  WalletTypeOK'
<1>1. ScanTypeOK' /\ SpendTypeOK'
  BY RestartKeepsTypes, RestartTyped DEF WalletTypeOK, AllRestart
<1> QED BY <1>1 DEF WalletTypeOK, AllRestart

\* The outputs of a block that pay the wallet are finitely many coins, each
\* with a value.
LEMMA NewCoinsTyped ==
  ASSUME NEW h \in 1 .. Len(Chain)
  PROVE  /\ IsFiniteSet(OwnOutpoints(h)) /\ OwnOutpoints(h) \subseteq Outpoints
         /\ NewCoins(h) \in [OwnOutpoints(h) -> Int]
<1>1. /\ Chain[h] \in Seq(OutputRecords)
      /\ \A i \in DOMAIN Chain[h] : Chain[h][i] \in OutputRecords
  BY ChainAssumption
<1>2. OwnPositions(h) \subseteq DOMAIN Chain[h]
  BY DEF OwnPositions
<1>3. IsFiniteSet(OwnPositions(h))
  <2>1. DOMAIN Chain[h] = 1 .. Len(Chain[h]) /\ Len(Chain[h]) \in Nat
    BY <1>1
  <2>2. IsFiniteSet(1 .. Len(Chain[h]))
    BY <2>1, FS_Interval
  <2> QED BY <1>2, <2>1, <2>2, FS_Subset
<1>4. IsFiniteSet(OwnOutpoints(h))
  <2> DEFINE f == [i \in OwnPositions(h) |-> Outpoint(Chain[h][i])]
  <2>1. f \in Surjection(OwnPositions(h), OwnOutpoints(h))
    BY DEF Surjection, OwnOutpoints
  <2> HIDE DEF f
  <2> QED BY <1>3, <2>1, FS_Surjection
<1>5. OwnOutpoints(h) \subseteq Outpoints
  BY <1>1, <1>2 DEF OwnOutpoints, Outpoints, Outpoint, OutputRecords
<1>6. ASSUME NEW o \in OwnOutpoints(h) PROVE NewCoins(h)[o] \in Int
  <2> DEFINE u == CHOOSE v \in {Chain[h][i] : i \in OwnPositions(h)} : Outpoint(v) = o
  <2>1. \E v \in {Chain[h][i] : i \in OwnPositions(h)} : Outpoint(v) = o
    BY <1>6 DEF OwnOutpoints
  <2>2. u \in {Chain[h][i] : i \in OwnPositions(h)}
    BY <2>1
  <2>3. u \in OutputRecords
    BY <1>1, <1>2, <2>2
  <2>4. \A r \in OutputRecords : r.value \in Int
    BY DEF OutputRecords
  <2> QED BY <1>6, <2>3, <2>4 DEF NewCoins
<1> QED BY <1>4, <1>5, <1>6 DEF NewCoins

\* A block brings coins to the node.
LEMMA MineTyped ==
  ASSUME WalletTypeOK, Mine
  PROVE  WalletTypeOK'
<1>1. ScanNext /\ UNCHANGED storeVars
  BY DEF Mine, MineBlock, ScanNext
<1>2. ScanTypeOK'
  BY <1>1, TypingStep DEF WalletTypeOK
<1>3. height + 1 \in 1 .. Len(Chain)
  BY NumbersTyped DEF WalletTypeOK, Mine, MineBlock
<1> DEFINE own == OwnOutpoints(height + 1)
<1>4. /\ nodeCoins' = [o \in DOMAIN nodeCoins \cup own |->
                          IF o \in DOMAIN nodeCoins THEN nodeCoins[o]
                          ELSE NewCoins(height + 1)[o]]
      /\ UNCHANGED <<nodeSpent, send, workerVars, sendFaults, sendCrashes, moving>>
  BY DEF Mine
<1>5. /\ nodeCoins \in [DOMAIN nodeCoins -> Int] /\ nodeSpent \subseteq DOMAIN nodeCoins
      /\ IsFiniteSet(DOMAIN nodeCoins) /\ DOMAIN nodeCoins \subseteq Outpoints
  BY DEF WalletTypeOK, SpendTypeOK
<1>6. /\ IsFiniteSet(own) /\ own \subseteq Outpoints
      /\ NewCoins(height + 1) \in [own -> Int]
  BY <1>3, NewCoinsTyped
<1> HIDE DEF own
<1>7. /\ DOMAIN nodeCoins' = DOMAIN nodeCoins \cup own
      /\ nodeCoins' \in [DOMAIN nodeCoins' -> Int]
  BY <1>4, <1>5, <1>6
<1>8. IsFiniteSet(DOMAIN nodeCoins')
  <2>1. IsFiniteSet(DOMAIN nodeCoins) /\ IsFiniteSet(own)
    BY <1>5, <1>6
  <2>2. IsFiniteSet(DOMAIN nodeCoins \cup own)
    BY <2>1, FS_Union
  <2> QED BY <1>7, <2>2
<1>9. SpendTypeOK'
  <2>1. StoreTypeOK' /\ UNCHANGED memUtxos
    BY <1>1, <1>2 DEF ScanTypeOK, storeVars
  <2> QED BY <1>4, <1>5, <1>6, <1>7, <1>8, <2>1 DEF WalletTypeOK, SpendTypeOK, workerVars
<1>10. overlapped' \in BOOLEAN
  <2>1. Quiet \in BOOLEAN
    BY DEF Quiet
  <2> QED BY <2>1 DEF Mine, WalletTypeOK
<1> QED BY <1>2, <1>4, <1>9, <1>10 DEF WalletTypeOK

\* The steps of a call and of its goroutines.
LEMMA SendTyped ==
  ASSUME WalletInv, NEW i \in Sends,
         SendStep(i) \/ \E amount \in Amounts : Call(i, amount)
  PROVE  WalletTypeOK'
<1>0. /\ SpendTypeOK /\ IsFiniteSet(send[i].inputs) /\ memUtxos \in Seq(UtxoRecords)
      /\ changer \in [Sends -> ChangerStates]
  BY DEF WalletInv, WalletTypeOK, SpendTypeOK, StoreTypeOK, FiniteInputs
<1>1. UNCHANGED <<scanVars, moving>>
  BY DEF SendStep, Call
<1>2. ASSUME NEW amount \in Amounts, Call(i, amount) PROVE SpendTypeOK' /\ overlapped' \in BOOLEAN
  <2>1. SpendTypeOK'
    BY <1>0, <1>2, HandlerTyped DEF Call
  <2> QED BY <1>2, <2>1 DEF Call, WalletInv, WalletTypeOK
<1>3. ASSUME SendStep(i) PROVE SpendTypeOK' /\ overlapped' \in BOOLEAN
  <2>1. ASSUME HandlerStep(i) PROVE SpendTypeOK'
    BY <1>0, <2>1, HandlerTyped, SelectTyped, NodeTyped, UpdateTyped DEF HandlerStep
  <2>2. ASSUME MarkerStep(i) PROVE SpendTypeOK'
    BY <1>0, <2>2, MarkerTyped
  <2>3. ASSUME ChangeStep(i) PROVE SpendTypeOK'
    <3>1. ChangerStep(i)
      BY <2>3 DEF ChangeStep, ChangerStep
    <3>2. Storing(i) => DOMAIN memUtxos \subseteq DOMAIN changer[i].copy
      BY <1>0 DEF WalletInv, MutexInv, Extension, ChangerStates
    <3> QED BY <1>0, <3>1, <3>2, ChangerTyped
  <2>4. ASSUME BalancerStep(i) PROVE SpendTypeOK'
    BY <1>0, <2>4, BalancerTyped
  <2>5. overlapped' \in BOOLEAN
    BY <1>3 DEF SendStep, WalletInv, WalletTypeOK
  <2> QED BY <1>3, <2>1, <2>2, <2>3, <2>4, <2>5 DEF SendStep
<1>4. SpendTypeOK' /\ overlapped' \in BOOLEAN
  BY <1>2, <1>3
<1> QED BY <1>1, <1>4, OtherTyped DEF WalletInv, WalletTypeOK

\* All steps keep the types.
LEMMA WalletTypedStep == WalletInv /\ [WalletNext]_walletVars => WalletTypeOK'
<1> SUFFICES ASSUME WalletInv, [WalletNext]_walletVars PROVE WalletTypeOK'
  OBVIOUS
<1>0. WalletTypeOK
  BY DEF WalletInv
<1>1. CASE CatchUpStep
  <2>1. ScanNext /\ UNCHANGED <<spendVars, moving, overlapped>> /\ UNCHANGED memUtxos
    BY <1>1 DEF CatchUpStep, ScanNext, SyncStep, GetBlockCount, GetBlockCountFails,
                FetchMissingBlock, Subscribe, storeVars
  <2> QED BY <1>0, <2>1, ScanPartTyped DEF WalletTypeOK
<1>2. CASE Mine
  BY <1>0, <1>2, MineTyped
<1>3. ASSUME NEW t \in Threads, ReceiveStep(t) PROVE WalletTypeOK'
  BY <1>3, ReceiveTyped
<1>4. ASSUME NEW a \in NewAddrs, Issue(a) PROVE WalletTypeOK'
  <2>1. ScanNext /\ UNCHANGED <<spendVars, moving, overlapped>> /\ UNCHANGED memUtxos
    BY <1>4 DEF Issue, ScanNext, GetNewAddress, storeVars
  <2> QED BY <1>0, <2>1, ScanPartTyped DEF WalletTypeOK
<1>5. ASSUME NEW i \in Sends, NEW amount \in Amounts, Call(i, amount) PROVE WalletTypeOK'
  BY <1>5, SendTyped
<1>6. ASSUME NEW i \in Sends, SendStep(i) PROVE WalletTypeOK'
  BY <1>6, SendTyped
<1>7. CASE AllRestart
  BY <1>0, <1>7, AllRestartTyped
<1>8. CASE UNCHANGED walletVars
  <2>1. ScanTypeOK'
    BY <1>0, <1>8, TypingStep DEF WalletTypeOK, walletVars
  <2>2. UNCHANGED memUtxos /\ UNCHANGED spendVars /\ UNCHANGED <<moving, overlapped>>
    BY <1>8 DEF walletVars, allScanVars, storeVars
  <2> QED BY <1>0, <2>1, <2>2, OtherTyped DEF WalletTypeOK
<1> QED BY <1>1, <1>2, <1>3, <1>4, <1>5, <1>6, <1>7, <1>8
        DEF WalletNext, ScanPanic, ChangePanic, Die

-----------------------------------------------------------------------------
(* AppendsAreKept. *)

\* The property, with the outpoint of the change of a call, which is settled
\* with its number.
LEMMA ShownIsKept == AllShown <=> AppendsAreKept
<1>1. \A i : Outpoint(Change(i)) = ChangeKey(i)
  BY DEF Outpoint, Change, NewUtxo, ChangeKey
<1>2. \A o : o \in Listed(memUtxos) <=> \E u \in Range(memUtxos) : Outpoint(u) = o
  BY DEF Listed, Range
<1> QED BY <1>1, <1>2 DEF AllShown, Shown, AppendsAreKept

\* A step that appends nothing, and takes nobody to an append or away from one.
LEMMA SliceKept ==
  ASSUME WalletInv, AllShown, UNCHANGED moving, Len(memUtxos') = Len(memUtxos),
         memUtxos' \in Seq(UtxoRecords),
         \A j \in DOMAIN memUtxos : Outpoint(memUtxos'[j]) = Outpoint(memUtxos[j]),
         DOMAIN dbUtxos' \subseteq DOMAIN dbUtxos,
         \A t \in Threads : scan[t].pc = "append" => scan'[t] = scan[t],
         \A i \in Sends : Storing(i)' => Storing(i),
         \A i \in Sends : changer[i].pc \in {"append", "store"} => changer'[i] = changer[i]
  PROVE  MutexInv' /\ AllShown'
<1>1. memUtxos \in Seq(UtxoRecords) /\ DOMAIN memUtxos' = DOMAIN memUtxos
  BY DEF WalletInv, WalletTypeOK, ScanTypeOK, StoreTypeOK
<1>2. \A s, o : Extension(s, o) => Extension(s, o)'
  BY <1>1 DEF Extension
<1>3. \A t \in Threads : scan[t].pc = "append" =>
        scan'[t].pc = "append" /\ Current(t)' = Current(t)
  BY DEF Current, Block
<1>4. ASSUME moving' # <<>>
      PROVE  /\ UtxoMtxFree' /\ scan'[moving'[1]].pc = "append"
             /\ Extension(moving[2], Outpoint(Current(moving[1])))'
  <2>1. /\ moving # <<>> /\ moving[1] \in Threads
        /\ UtxoMtxFree /\ scan[moving[1]].pc = "append"
        /\ Extension(moving[2], Outpoint(Current(moving[1])))
    BY <1>4 DEF WalletInv, MutexInv, WalletTypeOK
  <2>2. UtxoMtxFree'
    BY <2>1 DEF UtxoMtxFree, Storing
  <2>3. scan'[moving[1]].pc = "append" /\ Current(moving[1])' = Current(moving[1])
    <3>1. scan'[moving[1]] = scan[moving[1]]
      BY <2>1
    <3> QED BY <2>1, <3>1 DEF Current, Block
  <2>4. Extension(moving[2], Outpoint(Current(moving[1])))'
    BY <1>2, <2>1, <2>3 DEF Outpoint
  <2> QED BY <2>2, <2>3, <2>4
<1>5. ASSUME NEW i \in Sends, Storing(i)'
      PROVE  /\ Extension(changer[i].copy, ChangeKey(i))'
             /\ \A k \in Sends : Storing(k)' => k = i
  <2>1. Storing(i) /\ changer'[i] = changer[i]
    BY <1>5 DEF Storing
  <2>2. Extension(changer[i].copy, ChangeKey(i)) /\ \A k \in Sends : Storing(k) => k = i
    BY <2>1 DEF WalletInv, MutexInv
  <2> QED BY <1>2, <2>1, <2>2
<1>6. MutexInv'
  BY <1>4, <1>5 DEF MutexInv
<1>7. \A o : Shown(o) => Shown(o)'
  <2>1. Listed(memUtxos') = Listed(memUtxos)
    BY <1>1 DEF Listed
  <2> QED BY <1>3, <2>1 DEF Shown
<1> QED BY <1>6, <1>7 DEF AllShown

\* What the wallet lists when a coin is appended.
LEMMA AppendLists ==
  ASSUME NEW s \in Seq(UtxoRecords), NEW u \in UtxoRecords
  PROVE  /\ Listed(Append(s, u)) = Listed(s) \cup {Outpoint(u)}
         /\ Len(Append(s, u)) = Len(s) + 1
         /\ \A j \in DOMAIN s : Append(s, u)[j] = s[j]
         /\ Append(s, u)[Len(Append(s, u))] = u
<1>1. /\ DOMAIN Append(s, u) = DOMAIN s \cup {Len(s) + 1} /\ Len(s) + 1 \notin DOMAIN s
      /\ \A j \in DOMAIN s : Append(s, u)[j] = s[j]
      /\ Append(s, u)[Len(s) + 1] = u /\ Len(Append(s, u)) = Len(s) + 1
  OBVIOUS
<1>2. Listed(Append(s, u)) = Listed(s) \cup {Outpoint(u)}
  <2> HIDE DEF Listed
  <2>1. Listed(Append(s, u)) = {Outpoint(Append(s, u)[j]) : j \in DOMAIN s \cup {Len(s) + 1}}
    BY <1>1 DEF Listed
  <2>2. {Outpoint(Append(s, u)[j]) : j \in DOMAIN s} = Listed(s)
    BY <1>1 DEF Listed
  <2> QED BY <1>1, <2>1, <2>2
<1> QED BY <1>1, <1>2

\* The extension that is stored lists what was listed and its new coin.
LEMMA ExtensionLists ==
  ASSUME NEW s \in Seq(UtxoRecords), memUtxos \in Seq(UtxoRecords), NEW o, Extension(s, o)
  PROVE  Listed(s) = Listed(memUtxos) \cup {o}
<1>1. DOMAIN s = DOMAIN memUtxos \cup {Len(s)}
  BY DEF Extension
<1>2. {Outpoint(s[j]) : j \in DOMAIN memUtxos} = Listed(memUtxos)
  BY DEF Extension, Listed
<1>3. Listed(s) = {Outpoint(s[j]) : j \in DOMAIN memUtxos \cup {Len(s)}}
  BY <1>1 DEF Listed
<1> QED BY <1>2, <1>3 DEF Extension

\* Appends of a scan, and its other steps.
LEMMA ReceiveKeeps ==
  ASSUME WalletInv, AllShown, NEW t \in Threads, ReceiveStep(t)
  PROVE  MutexInv' /\ AllShown'
<1>0. /\ WalletTypeOK /\ UNCHANGED <<send, marker, changer>>
      /\ memUtxos \in Seq(UtxoRecords) /\ scan \in [Threads -> ScanRecords]
      /\ moving = <<>> \/ moving \in Threads \X Seq(UtxoRecords)
  BY DEF WalletInv, WalletTypeOK, ScanTypeOK, StoreTypeOK, ReceiveStep, spendVars, ScanRecords
<1>1. CASE ScanAppend(t)
  <2>1. /\ scan[t].pc = "append" /\ memUtxos' = Append(memUtxos, NewUtxo(Current(t)))
        /\ Go(t, "read") /\ UtxoMtxFree /\ moving = <<>> /\ moving' = <<>> /\ UNCHANGED dbUtxos
    BY <1>1 DEF ScanAppend, AppendReceived, AppendUtxo, dbVars
  <2>2. NewUtxo(Current(t)) \in UtxoRecords
    BY <1>0, <2>1, AppendedTyped
  <2>3. Listed(memUtxos') = Listed(memUtxos) \cup {Outpoint(Current(t))}
    BY <1>0, <2>1, <2>2, AppendLists, NewOutpoint
  <2>4. MutexInv'
    BY <1>0, <2>1 DEF MutexInv, UtxoMtxFree, Storing
  <2>5. \A u \in Threads : u # t => scan'[u] = scan[u]
    BY <1>0, <2>1 DEF Go
  <2>6. ASSUME NEW o, Shown(o) PROVE Shown(o)'
    <3>1. CASE o \in Listed(memUtxos')
      BY <3>1 DEF Shown
    <3>2. CASE o \notin Listed(memUtxos')
      <4>1. ASSUME NEW u \in Threads, scan[u].pc = "append", Outpoint(Current(u)) = o
            PROVE  Shown(o)'
        <5>1. u # t
          BY <2>3, <3>2, <4>1
        <5>2. scan'[u].pc = "append" /\ Current(u)' = Current(u)
          BY <2>5, <4>1, <5>1 DEF Current, Block
        <5> QED BY <4>1, <5>2 DEF Shown, Outpoint
      <4> QED BY <1>0, <2>3, <2>6, <3>2, <4>1 DEF Shown
    <3> QED BY <3>1, <3>2
  <2> QED BY <2>1, <2>4, <2>6 DEF AllShown
<1>2. CASE ScanCopy(t)
  <2>1. /\ scan[t].pc = "append" /\ UtxoMtxFree /\ moving = <<>>
        /\ moving' = <<t, Append(memUtxos, NewUtxo(Current(t)))>>
        /\ UNCHANGED <<memUtxos, dbUtxos, scan>>
    BY <1>2 DEF ScanCopy, allScanVars, storeVars, scanVars
  <2>2. NewUtxo(Current(t)) \in UtxoRecords
    BY <1>0, <2>1, AppendedTyped
  <2>3. Extension(Append(memUtxos, NewUtxo(Current(t))), Outpoint(Current(t)))
    BY <1>0, <2>2, AppendLists, NewOutpoint DEF Extension
  <2>4. Current(t)' = Current(t)
    BY <2>1 DEF Current, Block
  <2>5. MutexInv'
    <3>1. Extension(moving[2], Outpoint(Current(moving[1])))'
      BY <2>1, <2>3, <2>4 DEF Extension, Outpoint
    <3> QED BY <1>0, <2>1, <3>1 DEF MutexInv, UtxoMtxFree, Storing
  <2>6. \A o : Shown(o) => Shown(o)'
    BY <1>0, <2>1 DEF Shown, Current, Block
  <2> QED BY <2>1, <2>5, <2>6 DEF AllShown
<1>3. CASE ScanStore(t)
  <2>1. /\ moving # <<>> /\ moving[1] = t /\ memUtxos' = moving[2] /\ moving' = <<>>
        /\ Go(t, "read") /\ UNCHANGED dbUtxos
    BY <1>3 DEF ScanStore, dbVars
  <2>2. /\ UtxoMtxFree /\ scan[t].pc = "append"
        /\ Extension(moving[2], Outpoint(Current(t)))
    BY <2>1 DEF WalletInv, MutexInv
  <2>3. Listed(memUtxos') = Listed(memUtxos) \cup {Outpoint(Current(t))}
    BY <1>0, <2>1, <2>2, ExtensionLists
  <2>4. MutexInv'
    BY <1>0, <2>1, <2>2 DEF MutexInv, UtxoMtxFree, Storing
  <2>5. \A u \in Threads : u # t => scan'[u] = scan[u]
    BY <1>0, <2>1 DEF Go
  <2>6. ASSUME NEW o, Shown(o) PROVE Shown(o)'
    <3>1. CASE o \in Listed(memUtxos')
      BY <3>1 DEF Shown
    <3>2. CASE o \notin Listed(memUtxos')
      <4>1. ASSUME NEW u \in Threads, scan[u].pc = "append", Outpoint(Current(u)) = o
            PROVE  Shown(o)'
        <5>1. u # t
          BY <2>3, <3>2, <4>1
        <5>2. scan'[u].pc = "append" /\ Current(u)' = Current(u)
          BY <2>5, <4>1, <5>1 DEF Current, Block
        <5> QED BY <4>1, <5>2 DEF Shown, Outpoint
      <4> QED BY <1>0, <2>3, <2>6, <3>2, <4>1 DEF Shown
    <3> QED BY <3>1, <3>2
  <2> QED BY <2>1, <2>4, <2>6 DEF AllShown
<1>4. CASE SaveReceived(t) /\ UNCHANGED moving
  <2>1. /\ scan[t].pc = "outputs" /\ SaveUtxo(NewUtxo(Current(t))) /\ Go(t, "append")
        /\ UNCHANGED <<memUtxos, moving>>
    BY <1>4 DEF SaveReceived, Received, AtOutput, memVars
  <2>2. DOMAIN dbUtxos' = DOMAIN dbUtxos \cup {Outpoint(Current(t))}
    BY <2>1, NewOutpoint DEF SaveUtxo
  <2>3. \A u \in Threads : scan[u].pc = "append" => scan'[u] = scan[u]
    BY <1>0, <2>1 DEF Go
  <2>4. scan'[t].pc = "append" /\ Current(t)' = Current(t)
    BY <1>0, <2>1 DEF Go, Current, Block, ScanRecords
  <2>5. MutexInv'
    <3>1. moving # <<>> => Current(moving[1])' = Current(moving[1]) /\ scan'[moving[1]].pc = "append"
      <4>1. moving # <<>> => moving[1] \in Threads /\ scan[moving[1]].pc = "append"
        BY <1>0 DEF WalletInv, MutexInv
      <4>2. moving # <<>> => scan'[moving[1]] = scan[moving[1]]
        BY <2>3, <4>1
      <4> QED BY <2>1, <4>1, <4>2 DEF Current, Block
    <3>2. \A s, o : Extension(s, o)' <=> Extension(s, o)
      BY <2>1 DEF Extension
    <3> QED BY <1>0, <2>1, <3>1, <3>2 DEF WalletInv, MutexInv, UtxoMtxFree, Storing, Outpoint
  <2>6. ASSUME NEW o, Shown(o) PROVE Shown(o)'
    <3>1. \A u \in Threads : scan[u].pc = "append" =>
            scan'[u].pc = "append" /\ Current(u)' = Current(u)
      BY <2>3 DEF Current, Block
    <3> QED BY <1>0, <2>1, <2>6, <3>1 DEF Shown, Outpoint
  <2>7. Shown(Outpoint(Current(t)))'
    BY <2>4 DEF Shown
  <2>8. Outpoint(Current(t))' = Outpoint(Current(t))
    BY <2>4 DEF Outpoint
  <2> QED BY <2>2, <2>5, <2>6, <2>7, <2>8 DEF AllShown
<1>5. CASE ScanElse(t) /\ ~SaveReceived(t)
  <2>1. /\ UNCHANGED <<memUtxos, dbUtxos, moving>> /\ scan[t].pc # "append"
    BY <1>5 DEF ScanElse, FetchBlockFails, SkipOutput, SaveReceivedFails, Received, AtOutput,
                ReadBalance, SaveCredit, SaveCreditFails, SetCredit, ReadScanned, SaveAdvance,
                SaveAdvanceFails, SetAdvance, storeVars, memVars, dbVars
  <2>2. \A u \in Threads : u # t => scan'[u] = scan[u]
    BY <1>0, <1>5 DEF ScanElse, FetchBlockFails, SkipOutput, SaveReceivedFails,
                ReadBalance, SaveCredit, SaveCreditFails, SetCredit, ReadScanned, SaveAdvance,
                SaveAdvanceFails, SetAdvance, Go, GoWith, NextOutput, Return
  <2> QED BY <1>0, <2>1, <2>2, SliceKept DEF Storing
<1>6. \/ ScanAppend(t) \/ ScanCopy(t) \/ ScanStore(t)
      \/ (SaveReceived(t) /\ UNCHANGED moving) \/ (ScanElse(t) /\ ~SaveReceived(t))
  BY DEF ReceiveStep, ScanElse
<1> QED BY <1>1, <1>2, <1>3, <1>4, <1>5, <1>6

\* Appends of the change, and the other steps of a call and its goroutines.
LEMMA SendKeepsSlice ==
  ASSUME WalletInv, AllShown, NEW i \in Sends,
         SendStep(i) \/ \E amount \in Amounts : Call(i, amount)
  PROVE  MutexInv' /\ AllShown'
<1>0. /\ SpendTypeOK /\ StoreTypeOK
      /\ memUtxos \in Seq(UtxoRecords)
      /\ changer \in [Sends -> ChangerStates] /\ marker \in [Sends -> MarkerStates]
      /\ IsFiniteSet(send[i].inputs)
      /\ UNCHANGED <<scan, moving>>
  BY DEF WalletInv, WalletTypeOK, SpendTypeOK, StoreTypeOK, FiniteInputs, SendStep, Call, scanVars
<1>1. ASSUME UNCHANGED <<memUtxos, changer>>, DOMAIN dbUtxos' = DOMAIN dbUtxos
      PROVE  MutexInv' /\ AllShown'
  BY <1>0, <1>1, SliceKept DEF Storing
<1>2. ASSUME NEW amount \in Amounts, Call(i, amount) PROVE MutexInv' /\ AllShown'
  BY <1>1, <1>2 DEF Call, CheckFunds, storeVars, workerVars
<1>3. CASE HandlerStep(i)
  <2>1. CASE UpdateWallet(i)
    <3>1. /\ changer[i].pc = "idle" /\ UNCHANGED <<memUtxos, dbUtxos>>
          /\ changer' = [changer EXCEPT ![i].pc = "save"]
      BY <2>1 DEF UpdateWallet, storeVars, WalletInv, CallsFirst
    <3>2. \A k \in Sends : Storing(k)' => Storing(k)
      BY <1>0, <3>1 DEF Storing, ChangerStates
    <3>3. \A k \in Sends : changer[k].pc \in {"append", "store"} => changer'[k] = changer[k]
      BY <1>0, <3>1 DEF ChangerStates
    <3> QED BY <1>0, <3>1, <3>2, <3>3, SliceKept
  <2>2. CASE ~UpdateWallet(i)
    BY <1>1, <1>3, <2>2 DEF HandlerStep, Select, SelectFails, Broadcast, ReplyLost, Rejected,
                            SendFails, storeVars, workerVars
  <2> QED BY <2>1, <2>2
<1>4. CASE MarkerStep(i)
  <2>1. UNCHANGED changer /\ DOMAIN dbUtxos' = DOMAIN dbUtxos
    BY <1>4 DEF MarkerStep, MarkInDb, UpdateUtxo, MarkSkips, MarkInMemory, MarkEnds,
                storeVars, dbVars
  <2>2. CASE MarkInMemory(i)
    <3>1. marker[i].at \in DOMAIN memUtxos /\ memUtxos \in Seq(UtxoRecords)
      BY <1>0, <2>2 DEF MarkInMemory, SpendTypeOK
    <3>2. memUtxos' = [memUtxos EXCEPT ![marker[i].at] =
                         [memUtxos[marker[i].at] EXCEPT !.spent = TRUE]]
      BY <2>2 DEF MarkInMemory
    <3>3. \A r \in UtxoRecords : /\ [r EXCEPT !.spent = TRUE] \in UtxoRecords
                                 /\ Outpoint([r EXCEPT !.spent = TRUE]) = Outpoint(r)
      BY DEF UtxoRecords, Outpoint
    <3>4. memUtxos' \in Seq(UtxoRecords) /\ Len(memUtxos') = Len(memUtxos)
      BY <3>1, <3>2, <3>3
    <3>5. \A j \in DOMAIN memUtxos : Outpoint(memUtxos'[j]) = Outpoint(memUtxos[j])
      BY <3>1, <3>2, <3>3
    <3> QED BY <1>0, <2>1, <3>4, <3>5, SliceKept DEF Storing
  <2>3. CASE ~MarkInMemory(i)
    <3>1. UNCHANGED memUtxos
      BY <1>4, <2>3 DEF MarkerStep, MarkInDb, MarkSkips, MarkEnds, storeVars, memVars
    <3> QED BY <1>1, <2>1, <3>1
  <2> QED BY <2>2, <2>3
<1>5. CASE BalancerStep(i)
  BY <1>1, <1>5 DEF BalancerStep, BalanceSave, BalanceSaveFails, BalanceSet, storeVars, memVars,
                    dbVars
<1>6. CASE ChangeSaveFails(i)
  <2>1. /\ changer[i].pc = "save" /\ UNCHANGED <<memUtxos, dbUtxos>>
        /\ changer' = [changer EXCEPT ![i].pc = "idle"]
    BY <1>6 DEF ChangeSaveFails, storeVars
  <2>2. \A k \in Sends : Storing(k)' => Storing(k)
    BY <1>0, <2>1 DEF Storing, ChangerStates
  <2>3. \A k \in Sends : changer[k].pc \in {"append", "store"} => changer'[k] = changer[k]
    BY <1>0, <2>1 DEF ChangerStates
  <2> QED BY <1>0, <2>1, <2>2, <2>3, SliceKept
<1>7. Change(i) \in UtxoRecords /\ Outpoint(Change(i)) = ChangeKey(i)
  BY <1>0, ChangeTyped
<1>8. \A t \in Threads : Current(t)' = Current(t)
  BY <1>0 DEF Current, Block
<1>9. CASE ChangeSave(i)
  <2>1. /\ changer[i].pc = "save" /\ SaveUtxo(Change(i)) /\ UNCHANGED memUtxos
        /\ changer' = [changer EXCEPT ![i].pc = "append"]
    BY <1>9 DEF ChangeSave, memVars
  <2>2. DOMAIN dbUtxos' = DOMAIN dbUtxos \cup {ChangeKey(i)}
    BY <1>7, <2>1 DEF SaveUtxo
  <2>3. /\ \A k \in Sends : Storing(k)' <=> Storing(k)
        /\ \A k \in Sends : k # i => changer'[k] = changer[k]
        /\ changer'[i].pc = "append"
    BY <1>0, <2>1 DEF Storing, ChangerStates
  <2>4. MutexInv'
    <3>1. \A s, o : Extension(s, o)' <=> Extension(s, o)
      BY <2>1 DEF Extension
    <3>2. \A k \in Sends : Storing(k) => changer'[k] = changer[k]
      BY <2>1, <2>3 DEF Storing
    <3>3. UtxoMtxFree => UtxoMtxFree'
      BY <2>3 DEF UtxoMtxFree, Storing
    <3>4. moving # <<>> => moving[1] \in Threads
      BY DEF WalletInv, WalletTypeOK
    <3> QED BY <1>0, <1>8, <2>3, <3>1, <3>2, <3>3, <3>4 DEF WalletInv, MutexInv, Outpoint
  <2>5. \A o : Shown(o) => Shown(o)'
    BY <1>0, <1>8, <2>1, <2>3 DEF Shown, Outpoint
  <2>6. Shown(ChangeKey(i))'
    BY <2>3 DEF Shown
  <2> QED BY <2>2, <2>4, <2>5, <2>6 DEF AllShown
<1>10. ASSUME ChangeAppend(i), moving = <<>> PROVE MutexInv' /\ AllShown'
  <2>1. /\ changer[i].pc = "append" /\ UtxoMtxFree
        /\ memUtxos' = Append(memUtxos, Change(i)) /\ UNCHANGED dbUtxos
        /\ changer' = [changer EXCEPT ![i].pc = "idle"]
    BY <1>10 DEF ChangeAppend, AppendUtxo, dbVars
  <2>2. Listed(memUtxos') = Listed(memUtxos) \cup {ChangeKey(i)}
    BY <1>0, <1>7, <2>1, AppendLists
  <2>3. /\ \A k \in Sends : ~Storing(k)'
        /\ \A k \in Sends : k # i => changer'[k] = changer[k]
    BY <1>0, <2>1 DEF Storing, UtxoMtxFree, ChangerStates
  <2>4. MutexInv'
    BY <1>0, <1>10, <2>3 DEF MutexInv
  <2>5. \A o : Shown(o) => Shown(o)'
    BY <1>0, <1>8, <2>2, <2>3 DEF Shown, Outpoint
  <2> QED BY <2>1, <2>4, <2>5 DEF AllShown
<1>11. ASSUME ChangeCopy(i), moving = <<>> PROVE MutexInv' /\ AllShown'
  <2>1. /\ changer[i].pc = "append" /\ UtxoMtxFree /\ UNCHANGED <<memUtxos, dbUtxos>>
        /\ changer' = [changer EXCEPT ![i] =
                         [pc |-> "store", copy |-> Append(memUtxos, Change(i))]]
    BY <1>11 DEF ChangeCopy, storeVars
  <2>2. /\ changer'[i].pc = "store" /\ changer'[i].copy = Append(memUtxos, Change(i))
        /\ \A k \in Sends : k # i => changer'[k] = changer[k] /\ ~Storing(k)'
    BY <1>0, <2>1 DEF Storing, UtxoMtxFree
  <2>3. Extension(changer[i].copy, ChangeKey(i))'
    <3>1. Extension(Append(memUtxos, Change(i)), ChangeKey(i))
      BY <1>0, <1>7, AppendLists DEF Extension
    <3> QED BY <2>1, <2>2, <3>1 DEF Extension
  <2>4. MutexInv'
    BY <1>0, <1>11, <2>2, <2>3 DEF MutexInv
  <2>5. \A o : Shown(o) => Shown(o)'
    BY <1>0, <1>8, <2>1, <2>2 DEF Shown, Outpoint
  <2> QED BY <2>1, <2>4, <2>5 DEF AllShown
<1>12. CASE ChangeStore(i)
  <2>1. /\ Storing(i) /\ memUtxos' = changer[i].copy /\ UNCHANGED dbUtxos
        /\ changer' = [changer EXCEPT ![i] = [pc |-> "idle", copy |-> <<>>]]
    BY <1>12 DEF ChangeStore, Storing, dbVars
  <2>2. /\ Extension(changer[i].copy, ChangeKey(i))
        /\ \A k \in Sends : Storing(k) => k = i
        /\ moving = <<>>
    BY <1>0, <2>1 DEF WalletInv, MutexInv, UtxoMtxFree, Storing
  <2>3. Listed(memUtxos') = Listed(memUtxos) \cup {ChangeKey(i)}
    BY <1>0, <2>1, <2>2, ExtensionLists DEF ChangerStates
  <2>4. /\ \A k \in Sends : ~Storing(k)'
        /\ \A k \in Sends : k # i => changer'[k] = changer[k]
    BY <1>0, <2>1, <2>2 DEF Storing
  <2>5. MutexInv'
    BY <1>0, <2>2, <2>4 DEF MutexInv
  <2>6. \A o : Shown(o) => Shown(o)'
    BY <1>0, <1>8, <2>3, <2>4 DEF Shown, Outpoint
  <2> QED BY <2>1, <2>5, <2>6 DEF AllShown
<1> QED BY <1>2, <1>3, <1>4, <1>5, <1>6, <1>9, <1>10, <1>11, <1>12 DEF SendStep, ChangeStep

\* The next start lists what is saved, and nobody is appending.
LEMMA RestartShows ==
  ASSUME WalletTypeOK, AllRestart
  PROVE  MutexInv' /\ AllShown'
<1>1. /\ LoadWallet /\ UNCHANGED dbUtxos /\ moving' = <<>>
      /\ \A i \in Sends : changer'[i].pc = "idle"
  BY DEF AllRestart, Restart, SpendRestart, NoCopy, dbVars
<1>2. StoreTypeOK
  BY DEF WalletTypeOK, ScanTypeOK
<1>3. MutexInv'
  BY <1>1 DEF MutexInv, Storing
<1>4. ASSUME NEW o \in DOMAIN dbUtxos PROVE o \in Listed(memUtxos')
  <2>1. dbUtxos[o] \in Range(dbUtxos) /\ Outpoint(dbUtxos[o]) = o
    BY <1>2 DEF Range, StoreTypeOK
  <2>2. \E j \in DOMAIN memUtxos' : memUtxos'[j] = dbUtxos[o]
    BY <1>1, <2>1 DEF LoadWallet, CursorOrders, Bijection, Surjection
  <2> QED BY <2>1, <2>2 DEF Listed
<1> QED BY <1>1, <1>3, <1>4 DEF AllShown, Shown

\* Calls, goroutines that scan, and blocks go their way.
LEMMA ProgressKept ==
  WalletInv /\ [WalletNext]_walletVars => FiniteInputs' /\ InMined' /\ CallsFirst'
<1> SUFFICES ASSUME WalletInv, [WalletNext]_walletVars
             PROVE  FiniteInputs' /\ InMined' /\ CallsFirst'
  OBVIOUS
<1>0. /\ scan \in [Threads -> ScanRecords] /\ height \in Nat
      /\ send \in [Sends -> SendStates] /\ changer \in [Sends -> ChangerStates]
      /\ memUtxos \in Seq(UtxoRecords) /\ memScanned \in Int
  BY DEF WalletInv, WalletTypeOK, ScanTypeOK, SpendTypeOK, StoreTypeOK, ScanRecords
<1>1. ASSUME UNCHANGED <<send, changer>> PROVE FiniteInputs' /\ CallsFirst'
  BY <1>1 DEF WalletInv, FiniteInputs, CallsFirst
<1>2. ASSUME UNCHANGED <<scan, height>> PROVE InMined'
  BY <1>2 DEF WalletInv, InMined
<1>3. CASE CatchUpStep
  <2>1. UNCHANGED <<send, changer, height>>
    BY <1>3 DEF CatchUpStep, SyncStep, GetBlockCount, GetBlockCountFails, FetchMissingBlock,
                Subscribe, spendVars
  <2>2. \A t \in Threads : t # Sync => scan'[t] = scan[t]
    BY <1>0, <1>3 DEF CatchUpStep, SyncStep, GetBlockCount, GetBlockCountFails,
                FetchMissingBlock, Subscribe, Go
  <2>3. scan'[Sync].pc \in BlockPCs => scan'[Sync].block <= height
    <3>1. CASE FetchMissingBlock
      BY <1>0, <3>1, SyncIsThread DEF FetchMissingBlock, ThreadAt
    <3>2. CASE ~FetchMissingBlock
      BY <1>0, <1>3, <3>2, SyncIsThread DEF CatchUpStep, SyncStep, GetBlockCount,
           GetBlockCountFails, Subscribe, Go, ScanRecords, BlockPCs, OutputPCs
    <3> QED BY <3>1, <3>2
  <2> QED BY <1>1, <2>1, <2>2, <2>3 DEF WalletInv, InMined
<1>4. CASE Mine
  <2>1. UNCHANGED <<send, changer>> /\ height' = height + 1
    BY <1>4 DEF Mine, MineBlock, workerVars
  <2>2. \A t \in Threads : scan'[t] = scan[t] \/ scan'[t] = ThreadAt("outputs", height + 1)
    BY <1>4 DEF Mine, MineBlock
  <2>3. \A t \in Threads : scan'[t] = scan[t] \/ scan'[t].block = height + 1
    BY <2>2 DEF ThreadAt
  <2>4. ASSUME NEW t \in Threads, scan'[t].pc \in BlockPCs PROVE scan'[t].block <= height'
    <3>1. CASE scan'[t] = scan[t]
      <4>1. scan[t].block <= height /\ scan[t].block \in Int
        BY <1>0, <2>4, <3>1 DEF WalletInv, InMined, ScanRecords
      <4> QED BY <1>0, <2>1, <3>1, <4>1
    <3>2. CASE scan'[t].block = height + 1
      BY <1>0, <2>1, <3>2
    <3> QED BY <2>3, <3>1, <3>2
  <2>5. InMined'
    BY <2>4 DEF InMined
  <2> QED BY <1>1, <2>1, <2>5
<1>5. ASSUME NEW t \in Threads, ReceiveStep(t) PROVE FiniteInputs' /\ InMined' /\ CallsFirst'
  <2>1. UNCHANGED <<send, changer>>
    BY <1>5 DEF ReceiveStep, spendVars
  <2>2. UNCHANGED height
    BY <1>5 DEF ReceiveStep, ScanAppend, AppendReceived, ScanCopy, allScanVars, scanVars, ScanStore,
                ScanElse, FetchBlockFails, SkipOutput, SaveReceived, SaveReceivedFails,
                ReadBalance, SaveCredit, SaveCreditFails, SetCredit, ReadScanned, SaveAdvance,
                SaveAdvanceFails, SetAdvance
  <2>3. \/ UNCHANGED scan
        \/ /\ scan[t].pc \in BlockPCs
           /\ \/ \E pc \in ScanPCs : Go(t, pc)
              \/ \E pc \in ScanPCs, v \in Int : GoWith(t, pc, v)
              \/ NextOutput(t)
    <3>1. CASE ScanCopy(t)
      BY <3>1 DEF ScanCopy, allScanVars, scanVars
    <3>2. CASE ScanAppend(t)
      BY <3>2 DEF ScanAppend, AppendReceived, BlockPCs, OutputPCs, ScanPCs
    <3>3. CASE ScanStore(t)
      BY <3>3 DEF ScanStore, WalletInv, MutexInv, BlockPCs, OutputPCs, ScanPCs
    <3>4. CASE ReadBalance(t)
      <4>1. memBalance + Current(t).value \in Int
        <5>1. scan[t].pc \in OutputPCs /\ ScanTypeOK /\ memBalance \in Int
          BY <3>4 DEF ReadBalance, OutputPCs, WalletInv, WalletTypeOK, ScanTypeOK, StoreTypeOK
        <5>2. Current(t).value \in Int
          BY <5>1, CurrentTyped DEF OutputRecords
        <5> QED BY <5>1, <5>2
      <4> QED BY <3>4, <4>1 DEF ReadBalance, BlockPCs, OutputPCs, ScanPCs
    <3>5. CASE ReadScanned(t)
      BY <1>0, <3>5 DEF ReadScanned, BlockPCs, OutputPCs, ScanPCs
    <3>6. CASE FetchBlockFails(t) \/ SkipOutput(t) \/ SaveReceived(t) \/ SaveReceivedFails(t)
      BY <3>6 DEF FetchBlockFails, SkipOutput, SaveReceived, SaveReceivedFails, Received, AtOutput,
                  Return, BlockPCs, OutputPCs, ScanPCs
    <3>7. CASE SaveCredit(t) \/ SaveCreditFails(t) \/ SetCredit(t)
      BY <3>7 DEF SaveCredit, SaveCreditFails, SetCredit, Return, BlockPCs, OutputPCs, ScanPCs
    <3>8. CASE SaveAdvance(t) \/ SaveAdvanceFails(t) \/ SetAdvance(t)
      BY <3>8 DEF SaveAdvance, SaveAdvanceFails, SetAdvance, Return, BlockPCs, OutputPCs, ScanPCs
    <3> QED BY <1>5, <3>1, <3>2, <3>3, <3>4, <3>5, <3>6, <3>7, <3>8 DEF ReceiveStep, ScanElse
  <2>4. \A u \in Threads : scan'[u].pc \in BlockPCs =>
          scan[u].pc \in BlockPCs /\ scan'[u].block = scan[u].block
    <3>1. CASE UNCHANGED scan
      BY <3>1
    <3>2. CASE scan[t].pc \in BlockPCs /\ \E pc \in ScanPCs : Go(t, pc)
      BY <1>0, <3>2 DEF Go, ScanRecords
    <3>3. CASE scan[t].pc \in BlockPCs /\ \E pc \in ScanPCs, v \in Int : GoWith(t, pc, v)
      BY <1>0, <3>3 DEF GoWith, ScanRecords
    <3>4. CASE scan[t].pc \in BlockPCs /\ NextOutput(t)
      BY <1>0, <3>4 DEF NextOutput, ScanRecords
    <3> QED BY <2>3, <3>1, <3>2, <3>3, <3>4
  <2> QED BY <1>1, <2>1, <2>2, <2>4 DEF WalletInv, InMined
<1>6. ASSUME NEW a \in NewAddrs, Issue(a) PROVE FiniteInputs' /\ InMined' /\ CallsFirst'
  BY <1>1, <1>2, <1>6 DEF Issue, GetNewAddress, spendVars
<1>7. ASSUME NEW i \in Sends, SendStep(i) \/ \E amount \in Amounts : Call(i, amount)
      PROVE  FiniteInputs' /\ InMined' /\ CallsFirst'
  <2>1. UNCHANGED <<scan, height>>
    BY <1>7 DEF SendStep, Call, scanVars
  <2>2. ASSUME UNCHANGED changer, send[i].pc # "over", 
               \A k \in Sends : k # i => send'[k] = send[k], IsFiniteSet(send'[i].inputs)
        PROVE  FiniteInputs' /\ CallsFirst'
    <3>1. \A k \in Sends : send'[k].pc # "over" => changer'[k].pc = "idle"
      BY <2>2 DEF WalletInv, CallsFirst
    <3>2. \A k \in Sends : IsFiniteSet(send'[k].inputs)
      BY <2>2 DEF WalletInv, FiniteInputs
    <3> QED BY <3>1, <3>2 DEF FiniteInputs, CallsFirst
  <2>3. ASSUME NEW amount \in Amounts, Call(i, amount) PROVE FiniteInputs' /\ CallsFirst'
    <3>1. CheckFunds(i, amount)
      BY <2>3 DEF Call
    <3>2. send'[i].inputs = send[i].inputs /\ \A k \in Sends : k # i => send'[k] = send[k]
      BY <1>0, <3>1 DEF CheckFunds, SendStates
    <3> QED BY <2>2, <3>1, <3>2 DEF CheckFunds, workerVars, WalletInv, FiniteInputs
  <2>4. CASE Select(i)
    <3>1. PICK P \in Selections(memUtxos, send[i].amount) :
            send' = [send EXCEPT ![i].pc = "broadcast", ![i].inputs = {memUtxos[p] : p \in P}]
      BY <2>4 DEF Select
    <3>2. IsFiniteSet({memUtxos[p] : p \in P})
      BY <1>0, <3>1, SelectionFinite
    <3>3. send'[i].inputs = {memUtxos[p] : p \in P} /\ \A k \in Sends : k # i => send'[k] = send[k]
      BY <1>0, <3>1 DEF SendStates
    <3> QED BY <2>1, <1>2, <2>2, <2>4, <3>2, <3>3 DEF Select, workerVars
  <2>5. CASE Broadcast(i) \/ ReplyLost(i) \/ Rejected(i) \/ SendFails(i) \/ SelectFails(i)
    <3>1. /\ UNCHANGED changer /\ send[i].pc # "over"
          /\ \E pc \in {"update", "over"} : send' = [send EXCEPT ![i].pc = pc]
      BY <2>5 DEF Broadcast, ReplyLost, Rejected, SendFails, SelectFails, NodeAccepts, End, workerVars
    <3>2. send'[i].inputs = send[i].inputs /\ \A k \in Sends : k # i => send'[k] = send[k]
      BY <1>0, <3>1 DEF SendStates
    <3> QED BY <2>1, <1>2, <2>2, <3>1, <3>2 DEF WalletInv, FiniteInputs
  <2>6. CASE UpdateWallet(i)
    <3>1. /\ send' = [send EXCEPT ![i].pc = "over"]
          /\ \A k \in Sends : k # i => changer'[k] = changer[k]
      BY <1>0, <2>6 DEF UpdateWallet, End
    <3>2. /\ \A k \in Sends : send'[k].inputs = send[k].inputs
          /\ send'[i].pc = "over" /\ \A k \in Sends : k # i => send'[k] = send[k]
      BY <1>0, <3>1 DEF SendStates
    <3> QED BY <2>1, <1>2, <3>1, <3>2 DEF WalletInv, FiniteInputs, CallsFirst
  <2>7. CASE MarkerStep(i) \/ BalancerStep(i)
    BY <1>1, <1>2, <2>1, <2>7 DEF MarkerStep, MarkInDb, MarkSkips, MarkInMemory, MarkEnds,
                BalancerStep, BalanceSave, BalanceSaveFails, BalanceSet
  <2>8. CASE ChangeStep(i)
    <3>1. /\ UNCHANGED send /\ changer[i].pc # "idle"
          /\ \A k \in Sends : k # i => changer'[k] = changer[k]
      BY <1>0, <2>8 DEF ChangeStep, ChangeSave, ChangeSaveFails, ChangeAppend, ChangeCopy, ChangeStore
    <3> QED BY <1>2, <2>1, <3>1 DEF WalletInv, FiniteInputs, CallsFirst
  <2> QED BY <1>2, <1>7, <2>1, <2>3, <2>4, <2>5, <2>6, <2>7, <2>8 DEF SendStep, HandlerStep
<1>8. CASE AllRestart
  <2>1. /\ \A k \in Sends : changer'[k].pc = "idle" /\ send'[k].inputs = send[k].inputs
        /\ scan' = [t \in Threads |-> ThreadAt(IF t = Sync THEN "count" ELSE "idle", 0)]
    BY <1>0, <1>8 DEF AllRestart, Restart, SpendRestart, NoCopy, SendStates
  <2>2. InMined'
    BY <2>1 DEF InMined, ThreadAt, BlockPCs, OutputPCs
  <2> QED BY <2>1, <2>2 DEF WalletInv, FiniteInputs, CallsFirst
<1>9. CASE UNCHANGED walletVars
  BY <1>1, <1>2, <1>9 DEF walletVars, allScanVars, scanVars, spendVars
<1> QED BY <1>3, <1>4, <1>5, <1>6, <1>7, <1>8, <1>9
        DEF WalletNext, ScanPanic, ChangePanic, Die

\* Every step that is not one of a scan, a send or a restart leaves the slice
\* and the database alone.
LEMMA SliceStep == WalletInv /\ AllShown /\ [WalletNext]_walletVars => MutexInv' /\ AllShown'
<1> SUFFICES ASSUME WalletInv, AllShown, [WalletNext]_walletVars PROVE MutexInv' /\ AllShown'
  OBVIOUS
<1>0. /\ scan \in [Threads -> ScanRecords] /\ height \in Nat
      /\ memUtxos \in Seq(UtxoRecords)
  BY DEF WalletInv, WalletTypeOK, ScanTypeOK, StoreTypeOK, ScanRecords
<1>1. ASSUME UNCHANGED <<memUtxos, dbUtxos, changer, moving>>,
             \A t \in Threads : scan[t].pc = "append" => scan'[t] = scan[t]
      PROVE  MutexInv' /\ AllShown'
  BY <1>0, <1>1, SliceKept DEF Storing
<1>2. CASE CatchUpStep
  <2>1. UNCHANGED <<memUtxos, dbUtxos, changer, moving>>
    BY <1>2 DEF CatchUpStep, SyncStep, GetBlockCount, GetBlockCountFails, FetchMissingBlock,
                Subscribe, spendVars, storeVars
  <2>2. \A t \in Threads : scan[t].pc = "append" => scan'[t] = scan[t]
    BY <1>0, <1>2 DEF CatchUpStep, SyncStep, GetBlockCount, GetBlockCountFails,
                FetchMissingBlock, Subscribe, Go
  <2> QED BY <1>1, <2>1, <2>2
<1>3. CASE Mine
  <2>1. UNCHANGED <<memUtxos, dbUtxos, changer, moving>>
    BY <1>3 DEF Mine, MineBlock, workerVars, storeVars
  <2>2. ASSUME NEW t \in Threads, scan[t].pc = "append" PROVE scan'[t] = scan[t]
    <3>1. scan[t].block <= height /\ (t # Sync => scan[t].block = t[1])
      BY <2>2 DEF WalletInv, InMined, WalletTypeOK, ScanTypeOK, BlockPCs, OutputPCs
    <3>2. t[1] # height + 1
      BY <1>0, <3>1 DEF Sync, ScanRecords
    <3> QED BY <1>3, <3>2 DEF Mine, MineBlock
  <2> QED BY <1>1, <2>1, <2>2
<1>4. ASSUME NEW t \in Threads, ReceiveStep(t) PROVE MutexInv' /\ AllShown'
  BY <1>4, ReceiveKeeps
<1>5. ASSUME NEW a \in NewAddrs, Issue(a) PROVE MutexInv' /\ AllShown'
  BY <1>1, <1>5 DEF Issue, GetNewAddress, spendVars, storeVars
<1>6. ASSUME NEW i \in Sends, SendStep(i) \/ \E amount \in Amounts : Call(i, amount)
      PROVE  MutexInv' /\ AllShown'
  BY <1>6, SendKeepsSlice
<1>7. CASE AllRestart
  BY <1>7, RestartShows DEF WalletInv
<1>8. CASE UNCHANGED walletVars
  BY <1>1, <1>8 DEF walletVars, allScanVars, scanVars, spendVars, storeVars
<1> QED BY <1>2, <1>3, <1>4, <1>5, <1>6, <1>7, <1>8
        DEF WalletNext, ScanPanic, ChangePanic, Die

\* The wallet begins empty, with nobody at work.
LEMMA WalletInitially == WalletInit => WalletInv /\ AllShown
<1> SUFFICES ASSUME WalletInit PROVE WalletInv /\ AllShown
  OBVIOUS
<1>1. ScanTypeOK /\ SpendTypeOK
  BY TypingInit, InitTyped DEF WalletInit
<1>2. moving = <<>> /\ overlapped = FALSE /\ dbUtxos = <<>>
  BY DEF WalletInit, ScanInit
<1>3. \A i \in Sends : changer[i].pc = "idle" /\ send[i].inputs = {}
  BY DEF WalletInit, SpendInit, NoCopy
<1>4. MutexInv
  BY <1>2, <1>3 DEF MutexInv, Storing
<1>5. FiniteInputs /\ CallsFirst
  BY <1>3, FS_EmptySet DEF FiniteInputs, CallsFirst
<1>6. InMined
  BY DEF InMined, WalletInit, ScanInit, ThreadAt, BlockPCs, OutputPCs
<1>7. WalletTypeOK
  BY <1>1, <1>2 DEF WalletTypeOK
<1>8. AllShown
  BY <1>2 DEF AllShown
<1> QED BY <1>4, <1>5, <1>6, <1>7, <1>8 DEF WalletInv

\* The types, and the discipline of utxoMtx, hold in every state.
LEMMA WalletStep ==
  WalletInv /\ AllShown /\ [WalletNext]_walletVars => WalletInv' /\ AllShown'
BY WalletTypedStep, SliceStep, ProgressKept DEF WalletInv

\* The state of a wallet that scans and sends keeps its type, whatever overlaps,
\* fails or dies; marks are set within the slice although it moves.
THEOREM WalletTyped == WalletSafety => []WalletTypeOK
<1>1. WalletInv => WalletTypeOK
  BY DEF WalletInv
<1> QED BY <1>1, WalletInitially, WalletStep, PTL DEF WalletSafety

\* addUTXO loses no coin: utxoMtx keeps the appends of scans and of sends
\* apart, so that a coin that is saved is listed, or is about to be.
THEOREM WalletKeepsAppends == WalletSafety => []AppendsAreKept
BY ShownIsKept, WalletInitially, WalletStep, PTL DEF WalletSafety

-----------------------------------------------------------------------------
(* BalanceIsWhole. *)

\* Goroutine t is past place p: it has read the balance to credit it, or
\* skipped it.
Past(t, p) ==
  \/ /\ scan[t].block = p[1]
     /\ \/ p[2] < scan[t].pos
        \/ p[2] = scan[t].pos /\ scan[t].pc \in {"saveBalance", "setBalance"}
  \/ t = Sync /\ p[1] < scan[Sync].block

\* The payments received that may be in a balance, and those made.
Taken   == {p \in PaidPlaces(height) : \E t \in Threads : Past(t, p)}
Debited == {i \in Sends : send[i].pc = "over" /\ ChangeKey(i) \in DOMAIN nodeCoins}

\* What some of these are worth.
Wholes == {Worth(C, D) : C \in SUBSET Taken, D \in SUBSET Debited}

\* While nothing fails: Sync takes the blocks in their order and then
\* subscribes, and each later block is scanned by the goroutine it started.
InOrder ==
  /\ scan[Sync].block <= height
  /\ scan[Sync].pc \in {"count", "loop"} => memScanned = scan[Sync].block
  /\ scan[Sync].pc \in BlockPCs => scan[Sync].block = memScanned + 1
  /\ scan[Sync].pc \in {"saveScanned", "setScanned"} => scan[Sync].local = memScanned + 1
  /\ scan[Sync].pc # "idle" => ~subscribed
  /\ \A t \in Threads \ {Sync} :
       /\ scan[t].block # 0 =>
            subscribed /\ scan[t].block = t[1] /\ scan[Sync].block < t[1] /\ t[1] <= height
       /\ scan[t].pc # "idle" => scan[t].pc \in BlockPCs /\ scan[t].block # 0

\* What is credited pays the wallet.
ReadsPaid == \A t \in Threads : scan[t].pc \in {"append", "read"} => Current(t).addr \in addresses

\* Every balance that is or will be written is whole.
WholeBalances ==
  /\ memBalance \in Wholes
  /\ \A t \in Threads : scan[t].pc \in {"saveBalance", "setBalance"} => scan[t].local \in Wholes
  /\ \A i \in Sends : balancer[i].pc # "idle" => balancer[i].value \in Wholes
  /\ \A i \in Sends : send[i].pc = "update" => ChangeKey(i) \in DOMAIN nodeCoins

WholeInv == NoFailure => InOrder /\ ReadsPaid /\ WholeBalances

\* The places of the blocks up to height h.
LEMMA PlacesMined ==
  ASSUME NEW h \in 0 .. Len(Chain)
  PROVE  /\ PaidPlaces(h) \subseteq PaidPlaces(Len(Chain))
         /\ \A p \in PaidPlaces(h) : p[1] \in 1 .. h /\ p[2] \in OwnPositions(p[1])
         /\ \A b \in 1 .. h : \A i \in OwnPositions(b) : <<b, i>> \in PaidPlaces(h)
<1>1. PaidPlaces(h) \subseteq PaidPlaces(Len(Chain))
  BY PlacesUpTo
<1> QED BY <1>1 DEF PaidPlaces

\* The worth of some payments, as sums over all of them.
LEMMA WorthOf ==
  ASSUME NEW C \in SUBSET PaidPlaces(Len(Chain)), NEW D \in SUBSET Sends
  PROVE  Worth(C, D) = SumFunctionOnSet(Amount, C)
                       - SumFunctionOnSet([i \in Sends |-> Cost(i)], D)
<1> DEFINE f == [p \in C |-> Chain[p[1]][p[2]].value]
           g == [i \in D |-> send[i].amount + Fee(i)]
           c == [i \in Sends |-> Cost(i)]
<1>1. Worth(C, D) = SumFunctionOnSet(f, C) - SumFunctionOnSet(g, D)
  BY DEF Worth, SumFunction
<1>2. IsFiniteSet(C) /\ IsFiniteSet(D)
  <2>1. IsFiniteSet(PaidPlaces(Len(Chain))) /\ IsFiniteSet(Sends)
    BY PlacesFinite, FS_Interval, SendAssumption DEF Sends
  <2> QED BY <2>1, FS_Subset
<1>3. \A p \in C : f[p] = Amount[p]
  BY DEF Amount
<1>4. \A i \in D : g[i] = c[i]
  BY DEF Cost
<1> HIDE DEF f, g, c
<1>5. SumFunctionOnSet(f, C) = SumFunctionOnSet(Amount, C)
  BY <1>2, <1>3, SumSame
<1>6. SumFunctionOnSet(g, D) = SumFunctionOnSet(c, D)
  BY <1>2, <1>4, SumSame
<1> QED BY <1>1, <1>5, <1>6 DEF c

\* What is whole stays whole.
LEMMA WholeKept ==
  ASSUME Taken \subseteq Taken', Debited \subseteq Debited',
         \A i \in Debited : send'[i].amount = send[i].amount /\ send'[i].inputs = send[i].inputs,
         NEW v, v \in Wholes
  PROVE  v \in Wholes'
<1>1. PICK C \in SUBSET Taken, D \in SUBSET Debited : v = Worth(C, D)
  BY DEF Wholes
<1>2. [i \in D |-> send[i].amount + Fee(i)]' = [i \in D |-> send[i].amount + Fee(i)]
  BY DEF Fee
<1>3. Worth(C, D)' = Worth(C, D)
  BY <1>2 DEF Worth
<1> QED BY <1>1, <1>3 DEF Wholes

\* Payments, and what they add up to, are numbers.
LEMMA CostsTyped ==
  ASSUME WalletInv
  PROVE  /\ \A i \in Sends : Cost(i) \in Int
         /\ \A C \in SUBSET PaidPlaces(Len(Chain)) :
              /\ IsFiniteSet(C) /\ SumFunctionOnSet(Amount, C) \in Int
              /\ \A p \in C : Amount[p] \in Int
         /\ \A D \in SUBSET Sends :
              IsFiniteSet(D) /\ SumFunctionOnSet([i \in Sends |-> Cost(i)], D) \in Int
<1> DEFINE c == [i \in Sends |-> Cost(i)]
<1>1. \A i \in Sends : Cost(i) \in Int
  BY ChangeTyped DEF WalletInv, WalletTypeOK, FiniteInputs
<1>2. \A i \in Sends : c[i] \in Int
  BY <1>1
<1>3. IsFiniteSet(PaidPlaces(Len(Chain))) /\ IsFiniteSet(Sends)
  BY PlacesFinite, FS_Interval, SendAssumption DEF Sends
<1> HIDE DEF c
<1>4. ASSUME NEW C \in SUBSET PaidPlaces(Len(Chain))
      PROVE  IsFiniteSet(C) /\ SumFunctionOnSet(Amount, C) \in Int
  <2>1. IsFiniteSet(C)
    BY <1>3, FS_Subset
  <2> QED BY <2>1, AmountsTyped, SumTyped
<1>5. ASSUME NEW D \in SUBSET Sends
      PROVE  IsFiniteSet(D) /\ SumFunctionOnSet(c, D) \in Int
  <2>1. IsFiniteSet(D)
    BY <1>3, FS_Subset
  <2> QED BY <1>2, <2>1, SumTyped
<1> QED BY <1>1, <1>4, <1>5, AmountsTyped DEF c

\* The payments of whole balances are payments of the chain and of the calls.
LEMMA TakenPlaces ==
  ASSUME WalletInv
  PROVE  Taken \subseteq PaidPlaces(Len(Chain)) /\ Debited \subseteq Sends
<1>1. height \in 0 .. Len(Chain)
  BY DEF WalletInv, WalletTypeOK, ScanTypeOK
<1> QED BY <1>1, PlacesMined DEF Taken, Debited

\* One more payment received.
LEMMA WholeCredit ==
  ASSUME WalletInv, Taken' \subseteq PaidPlaces(Len(Chain)), UNCHANGED send,
         Taken \subseteq Taken', Debited \subseteq Debited',
         NEW p \in Taken', p \notin Taken, NEW v, v \in Wholes
  PROVE  v + Chain[p[1]][p[2]].value \in Wholes'
<1> DEFINE c == [i \in Sends |-> Cost(i)]
<1>1. PICK C \in SUBSET Taken, D \in SUBSET Debited : v = Worth(C, D)
  BY DEF Wholes
<1>2. C \cup {p} \in SUBSET PaidPlaces(Len(Chain)) /\ p \notin C /\ D \in SUBSET Sends
  BY <1>1 DEF Debited
<1>3. v = SumFunctionOnSet(Amount, C) - SumFunctionOnSet(c, D)
  BY <1>1, <1>2, WorthOf
<1>4. Worth(C \cup {p}, D) = SumFunctionOnSet(Amount, C \cup {p}) - SumFunctionOnSet(c, D)
  BY <1>2, WorthOf
<1>5. /\ IsFiniteSet(C) /\ SumFunctionOnSet(Amount, C) \in Int /\ \A x \in C : Amount[x] \in Int
      /\ SumFunctionOnSet(c, D) \in Int /\ Amount[p] \in Int
  BY <1>2, CostsTyped
<1>6. Amount[p] = Chain[p[1]][p[2]].value
  BY <1>2 DEF Amount
<1>7. SumFunctionOnSet(Amount, C \cup {p}) = SumFunctionOnSet(Amount, C) + Amount[p]
  BY <1>2, <1>5, SumAdd
<1>8. Worth(C \cup {p}, D)' = Worth(C \cup {p}, D)
  BY DEF Worth, Fee
<1> HIDE DEF c
<1>9. Worth(C \cup {p}, D) = v + Chain[p[1]][p[2]].value
  BY <1>3, <1>4, <1>5, <1>6, <1>7
<1>10. C \cup {p} \in SUBSET Taken' /\ D \in SUBSET Debited'
  BY <1>1
<1> QED BY <1>8, <1>9, <1>10 DEF Wholes

\* One more payment made.
LEMMA WholeDebit ==
  ASSUME WalletInv, Taken \subseteq Taken', Debited \subseteq Debited',
         \A i \in Sends : send'[i].amount = send[i].amount /\ send'[i].inputs = send[i].inputs,
         NEW i \in Sends, i \in Debited', i \notin Debited, NEW v, v \in Wholes
  PROVE  v - send[i].amount - Fee(i) \in Wholes'
<1> DEFINE c == [k \in Sends |-> Cost(k)]
<1>1. PICK C \in SUBSET Taken, D \in SUBSET Debited : v = Worth(C, D)
  BY DEF Wholes
<1>2. /\ C \in SUBSET PaidPlaces(Len(Chain)) /\ i \notin D
      /\ D \in SUBSET Sends /\ D \cup {i} \in SUBSET Sends
  BY <1>1, TakenPlaces
<1>3. v = SumFunctionOnSet(Amount, C) - SumFunctionOnSet(c, D)
  BY <1>1, <1>2, WorthOf
<1>4. Worth(C, D \cup {i}) = SumFunctionOnSet(Amount, C) - SumFunctionOnSet(c, D \cup {i})
  BY <1>2, WorthOf
<1>5. /\ IsFiniteSet(D) /\ SumFunctionOnSet(Amount, C) \in Int
      /\ SumFunctionOnSet(c, D) \in Int
  BY <1>2, CostsTyped
<1>6. \A k \in Sends : c[k] = Cost(k) /\ Cost(k) \in Int
  BY CostsTyped
<1>7. send[i].amount \in Int /\ Fee(i) \in Int /\ Cost(i) = send[i].amount + Fee(i)
  BY ChangeTyped DEF WalletInv, WalletTypeOK, FiniteInputs, Cost
<1> HIDE DEF c
<1>8. SumFunctionOnSet(c, D \cup {i}) = SumFunctionOnSet(c, D) + c[i]
  BY <1>2, <1>5, <1>6, SumAdd
<1>9. Worth(C, D \cup {i}) = v - send[i].amount - Fee(i)
  BY <1>3, <1>4, <1>5, <1>6, <1>7, <1>8
<1>10. Worth(C, D \cup {i})' = Worth(C, D \cup {i})
  <2>1. [k \in D \cup {i} |-> send[k].amount + Fee(k)]' = [k \in D \cup {i} |-> send[k].amount + Fee(k)]
    BY <1>2 DEF Fee
  <2> QED BY <2>1 DEF Worth
<1>11. send'[i].amount = send[i].amount /\ Fee(i)' = Fee(i)
  BY DEF Fee
<1>12. C \in SUBSET Taken' /\ D \cup {i} \in SUBSET Debited'
  BY <1>1
<1> QED BY <1>9, <1>10, <1>11, <1>12 DEF Wholes

\* Failures are counted, and so are restarts.
LEMMA NothingFailed ==
  ASSUME WalletTypeOK, [WalletNext]_walletVars, NoFailure'
  PROVE  NoFailure /\ UNCHANGED <<faults, sendFaults, crashes>> /\ ~AllRestart
<1>0. faults \in Nat /\ crashes \in Nat /\ sendFaults \in Nat /\ sendCrashes \in Nat
  BY DEF WalletTypeOK, ScanTypeOK, SpendTypeOK
<1> DEFINE More == faults <= faults' /\ sendFaults <= sendFaults' /\ crashes <= crashes'
<1>1. ASSUME CatchUpStep PROVE More
  BY <1>0, <1>1 DEF CatchUpStep, SyncStep, GetBlockCount, GetBlockCountFails, FetchMissingBlock,
                    Subscribe, Fault, spendVars
<1>2. ASSUME Mine PROVE More
  BY <1>0, <1>2 DEF Mine, MineBlock
<1>3. ASSUME NEW t \in Threads, ReceiveStep(t) PROVE More
  <2>1. CASE ScanAppend(t) \/ ScanCopy(t) \/ ScanStore(t)
    BY <1>0, <1>3, <2>1 DEF ReceiveStep, spendVars, ScanAppend, AppendReceived, ScanCopy,
            allScanVars, scanVars, ScanStore
  <2>2. CASE ScanElse(t)
    BY <1>0, <1>3, <2>2 DEF ReceiveStep, spendVars, ScanElse, FetchBlockFails, SkipOutput,
            SaveReceived, SaveReceivedFails, ReadBalance, SaveCredit, SaveCreditFails, SetCredit,
            ReadScanned, SaveAdvance, SaveAdvanceFails, SetAdvance, Fault
  <2> QED BY <1>3, <2>1, <2>2 DEF ReceiveStep
<1>4. ASSUME NEW a \in NewAddrs, Issue(a) PROVE More
  BY <1>0, <1>4 DEF Issue, GetNewAddress, spendVars
<1>5. ASSUME NEW i \in Sends, NEW amount \in Amounts, Call(i, amount) PROVE More
  BY <1>0, <1>5 DEF Call, CheckFunds, scanVars
<1>6. ASSUME NEW i \in Sends, SendStep(i) PROVE More
  <2>1. UNCHANGED <<faults, crashes>>
    BY <1>6 DEF SendStep, scanVars
  <2>2. CASE HandlerStep(i)
    BY <1>0, <2>1, <2>2 DEF HandlerStep, Select, SelectFails, Broadcast, ReplyLost, Rejected,
            SendFails, UpdateWallet, SendFault
  <2>3. CASE MarkerStep(i) \/ BalancerStep(i)
    BY <1>0, <2>1, <2>3 DEF MarkerStep, MarkInDb, MarkSkips, MarkInMemory, MarkEnds,
            BalancerStep, BalanceSave, BalanceSaveFails, BalanceSet, SendFault
  <2>4. CASE ChangeStep(i)
    BY <1>0, <2>1, <2>4 DEF ChangeStep, ChangeSave, ChangeSaveFails, ChangeAppend, ChangeCopy,
            ChangeStore, SendFault
  <2> QED BY <1>6, <2>2, <2>3, <2>4 DEF SendStep
<1>7. ASSUME AllRestart PROVE FALSE
  BY <1>0, <1>7 DEF AllRestart, Restart, NoFailure
<1>8. ASSUME UNCHANGED walletVars PROVE More
  BY <1>0, <1>8 DEF walletVars, allScanVars, scanVars, spendVars
<1>9. More
  BY <1>1, <1>2, <1>3, <1>4, <1>5, <1>6, <1>7, <1>8 DEF WalletNext, ScanPanic, ChangePanic, Die
<1>10. faults' = 0 /\ sendFaults' = 0 /\ crashes' = 0
  BY DEF NoFailure
<1> QED BY <1>0, <1>7, <1>9, <1>10 DEF NoFailure

\* Goroutines go forward in their blocks, and Sync from block to block.
LEMMA TakenGrows ==
  ASSUME ScanTypeOK, height' \in Nat, height <= height', scan' \in [Threads -> ScanRecords],
         \A t \in Threads :
           \/ scan[t].block = 0
           \/ /\ scan'[t].block = scan[t].block
              /\ \/ scan[t].pos < scan'[t].pos
                 \/ /\ scan'[t].pos = scan[t].pos
                    /\ scan[t].pc \in {"saveBalance", "setBalance"} =>
                          scan'[t].pc \in {"saveBalance", "setBalance"}
           \/ t = Sync /\ scan[Sync].block < scan'[Sync].block
  PROVE  Taken \subseteq Taken'
<1>1. /\ height \in Nat /\ scan \in [Threads -> ScanRecords] /\ Len(Chain) \in Nat
      /\ \A t \in Threads : scan[t].block \in Int /\ scan'[t].block \in Int
                           /\ scan[t].pos \in Int /\ scan'[t].pos \in Int
  BY ChainAssumption DEF ScanTypeOK, ScanRecords
<1>2. ASSUME NEW p \in PaidPlaces(height), NEW t \in Threads, Past(t, p) PROVE Past(t, p)'
  <2>1. p[1] \in Nat \ {0} /\ p[2] \in Int
    <3>1. p[1] \in 1 .. height /\ p[2] \in DOMAIN Chain[p[1]]
      BY DEF PaidPlaces, OwnPositions
    <3>2. Chain[p[1]] \in Seq(OutputRecords)
      BY <1>1, <3>1, ChainAssumption DEF ScanTypeOK
    <3> QED BY <1>1, <3>1, <3>2
  <2>2. scan[t].block # 0
    BY <1>1, <1>2, <2>1, SyncIsThread DEF Past
  <2>3. CASE t = Sync /\ scan[Sync].block < scan'[Sync].block
    BY <1>1, <1>2, <2>1, <2>3, SyncIsThread DEF Past
  <2>4. CASE scan'[t].block = scan[t].block /\ scan[t].pos < scan'[t].pos
    BY <1>1, <1>2, <2>1, <2>4 DEF Past
  <2>5. CASE /\ scan'[t].block = scan[t].block /\ scan'[t].pos = scan[t].pos
             /\ scan[t].pc \in {"saveBalance", "setBalance"} =>
                   scan'[t].pc \in {"saveBalance", "setBalance"}
    BY <1>1, <1>2, <2>1, <2>5 DEF Past
  <2> QED BY <2>2, <2>3, <2>4, <2>5
<1>3. PaidPlaces(height) \subseteq PaidPlaces(height')
  BY <1>1 DEF PaidPlaces
<1> QED BY <1>2, <1>3 DEF Taken

\* The whole balances stay whole while none is written and no call ends.
LEMMA BalancesKept ==
  ASSUME WholeBalances, Taken \subseteq Taken', Debited \subseteq Debited',
         UNCHANGED <<memBalance, send, balancer>>, DOMAIN nodeCoins \subseteq DOMAIN nodeCoins',
         \A t \in Threads : scan'[t].pc \in {"saveBalance", "setBalance"} =>
            scan[t].pc \in {"saveBalance", "setBalance"} /\ scan'[t].local = scan[t].local
  PROVE  WholeBalances'
<1>1. \A v \in Wholes : v \in Wholes'
  BY WholeKept
<1> QED BY <1>1 DEF WholeBalances

\* What the types say of the goroutines that scan.
LEMMA ScansTyped ==
  ASSUME WalletInv
  PROVE  /\ ScanTypeOK /\ SpendTypeOK
         /\ scan \in [Threads -> ScanRecords] /\ send \in [Sends -> SendStates]
         /\ changer \in [Sends -> ChangerStates] /\ balancer \in [Sends -> BalancerStates]
         /\ height \in Nat /\ memScanned \in Int /\ memBalance \in Int /\ faults \in Nat
         /\ Sync \in Threads /\ Sync[1] = 0 /\ subscribed \in BOOLEAN
         /\ \A t \in Threads : scan[t].block \in Int /\ scan[t].pos \in Int /\ t[1] \in Int
<1>1. ScanTypeOK /\ SpendTypeOK
  BY DEF WalletInv, WalletTypeOK
<1>2. scan \in [Threads -> ScanRecords]
  BY <1>1 DEF ScanTypeOK, ScanRecords
<1>3. Len(Chain) \in Nat
  BY ChainAssumption
<1>4. height \in Nat /\ memScanned \in Int /\ memBalance \in Int /\ faults \in Nat /\ subscribed \in BOOLEAN
  BY <1>1, <1>3 DEF ScanTypeOK, StoreTypeOK
<1>5. \A t \in Threads : scan[t].block \in Int /\ scan[t].pos \in Int
  BY <1>2, <1>3 DEF ScanRecords
<1>6. \A t \in Threads : t[1] \in Int
  BY <1>3 DEF Threads, Sync
<1> QED BY <1>1, <1>2, <1>4, <1>5, <1>6, SyncIsThread DEF SpendTypeOK, Sync

\* As it holds after a step.
LEMMA ScansMove == WalletInv' => scan' \in [Threads -> ScanRecords]
BY DEF WalletInv, WalletTypeOK, ScanTypeOK, ScanRecords

\* What the catch-up does outside of blocks.
LEMMA CatchUpWhole ==
  ASSUME WalletInv, WalletInv', InOrder, ReadsPaid, WholeBalances, CatchUpStep, UNCHANGED faults
  PROVE  InOrder' /\ ReadsPaid' /\ WholeBalances'
<1>0. /\ scan \in [Threads -> ScanRecords] /\ scan' \in [Threads -> ScanRecords]
      /\ height \in Nat /\ memScanned \in Int /\ Sync \in Threads /\ faults \in Nat
      /\ subscribed \in BOOLEAN /\ ScanTypeOK
  BY ScansTyped, ScansMove
<1>1. /\ UNCHANGED <<spendVars, memBalance, memScanned, height, addresses>>
      /\ \A t \in Threads \ {Sync} : scan'[t] = scan[t]
      /\ scan'[Sync].pc \notin OutputPCs
  <2>1. UNCHANGED <<spendVars, memBalance, memScanned, height, addresses>>
    BY DEF CatchUpStep, SyncStep, GetBlockCount, GetBlockCountFails, FetchMissingBlock,
              Subscribe, storeVars
  <2>2. \/ \E pc \in {"loop", "idle"} : Go(Sync, pc)
        \/ scan' = [scan EXCEPT ![Sync] = ThreadAt("outputs", memScanned + 1)]
    BY DEF CatchUpStep, SyncStep, GetBlockCount, GetBlockCountFails, FetchMissingBlock, Subscribe
  <2>3. \A t \in Threads \ {Sync} : scan'[t] = scan[t]
    BY <1>0, <2>2 DEF Go
  <2>4. scan'[Sync].pc \in {"loop", "idle", "outputs"}
    BY <1>0, <2>2 DEF Go, ThreadAt, ScanRecords
  <2> QED BY <2>1, <2>3, <2>4 DEF OutputPCs
<1>2. \A t \in Threads : scan[t].block \in Int
  BY <1>0, ChainAssumption DEF ScanRecords
<1>3. \/ /\ scan[Sync].pc = "count" /\ scan'[Sync].pc = "loop" /\ subscribed' = subscribed
         /\ scan'[Sync].block = scan[Sync].block /\ scan'[Sync].pos = scan[Sync].pos
      \/ /\ scan[Sync].pc = "loop" /\ scan'[Sync].pc = "outputs" /\ subscribed' = subscribed
         /\ scan'[Sync].block = memScanned + 1 /\ memScanned + 1 \in 1 .. height
      \/ /\ scan[Sync].pc = "loop" /\ scan'[Sync].pc = "idle" /\ subscribed' = TRUE
         /\ scan'[Sync].block = scan[Sync].block /\ scan'[Sync].pos = scan[Sync].pos
  <2>1. ~GetBlockCountFails
    BY <1>0 DEF GetBlockCountFails, Fault
  <2>2. CASE GetBlockCount
    BY <1>0, <2>2 DEF GetBlockCount, Go, ScanRecords
  <2>3. CASE FetchMissingBlock
    BY <1>0, <2>3 DEF FetchMissingBlock, ThreadAt
  <2>4. CASE Subscribe
    BY <1>0, <2>4 DEF Subscribe, Go, ScanRecords
  <2> QED BY <2>1, <2>2, <2>3, <2>4 DEF CatchUpStep, SyncStep
<1>4. \A t \in Threads \ {Sync} : scan[t].block = 0 /\ scan[t].pc = "idle"
  BY <1>0, <1>3 DEF InOrder
<1>5. InOrder'
  BY <1>0, <1>1, <1>2, <1>3, <1>4 DEF InOrder, BlockPCs, OutputPCs
<1>6. ReadsPaid'
  <2>1. \A t \in Threads : scan'[t].pc \in {"append", "read"} => t # Sync /\ scan'[t] = scan[t]
    BY <1>1 DEF OutputPCs
  <2> QED BY <1>1, <2>1 DEF ReadsPaid, Current, Block
<1>7. Taken \subseteq Taken'
  <2>1. scan[Sync].pc = "loop" => scan[Sync].block = memScanned
    BY DEF InOrder
  <2>2. \A t \in Threads : t # Sync => scan[t].block = 0
    BY <1>4
  <2>3. \/ scan'[Sync].block = scan[Sync].block /\ scan'[Sync].pos = scan[Sync].pos
        \/ scan[Sync].block < scan'[Sync].block
    BY <1>0, <1>2, <1>3, <2>1
  <2>4. scan[Sync].pc \notin {"saveBalance", "setBalance"}
    BY <1>3
  <2>5. height' \in Nat /\ height <= height'
    BY <1>0, <1>1
  <2> QED BY <1>0, <2>2, <2>3, <2>4, <2>5, TakenGrows
<1>8. Debited \subseteq Debited'
  BY <1>1 DEF Debited, spendVars
<1>9. WholeBalances'
  <2>1. \A t \in Threads : scan'[t].pc \in {"saveBalance", "setBalance"} =>
            scan[t].pc \in {"saveBalance", "setBalance"} /\ scan'[t].local = scan[t].local
    BY <1>1 DEF OutputPCs
  <2> QED BY <1>1, <1>7, <1>8, <2>1, BalancesKept DEF spendVars
<1> QED BY <1>5, <1>6, <1>9

\* The next block is scanned by a goroutine of its own, once Sync is done.
LEMMA MineWhole ==
  ASSUME WalletInv, WalletInv', InOrder, ReadsPaid, WholeBalances, Mine
  PROVE  InOrder' /\ ReadsPaid' /\ WholeBalances'
<1>0. /\ scan \in [Threads -> ScanRecords] /\ scan' \in [Threads -> ScanRecords]
      /\ height \in Nat /\ Sync \in Threads /\ ScanTypeOK /\ Sync[1] = 0
      /\ \A t \in Threads : scan[t].block \in Int /\ t[1] \in Int
  BY ScansTyped, ScansMove
<1>1. /\ UNCHANGED <<memBalance, memScanned, subscribed, addresses, send, balancer>>
      /\ height' = height + 1
      /\ \A t \in Threads :
           \/ scan'[t] = scan[t]
           \/ t[1] = height + 1 /\ subscribed /\ scan'[t] = ThreadAt("outputs", height + 1)
  BY DEF Mine, MineBlock, storeVars, workerVars
<1>2. scan'[Sync] = scan[Sync]
  BY <1>0, <1>1
<1>3. \A t \in Threads : scan'[t] = scan[t] \/ scan[t].block = 0
  BY <1>0, <1>1, <1>2 DEF InOrder
<1>4. InOrder'
  BY <1>0, <1>1, <1>2 DEF InOrder, ThreadAt, BlockPCs
<1>5. ReadsPaid'
  <2>1. \A t \in Threads : scan'[t].pc \in {"append", "read"} => scan'[t] = scan[t]
    BY <1>1 DEF ThreadAt
  <2> QED BY <1>1, <2>1 DEF ReadsPaid, Current, Block
<1>6. Taken \subseteq Taken'
  BY <1>0, <1>1, <1>3, TakenGrows
<1>7. DOMAIN nodeCoins \subseteq DOMAIN nodeCoins'
  BY DEF Mine
<1>8. Debited \subseteq Debited'
  BY <1>1, <1>7 DEF Debited
<1>9. WholeBalances'
  <2>1. \A t \in Threads : scan'[t].pc \in {"saveBalance", "setBalance"} =>
            scan[t].pc \in {"saveBalance", "setBalance"} /\ scan'[t].local = scan[t].local
    BY <1>1 DEF ThreadAt
  <2> QED BY <1>1, <1>6, <1>7, <1>8, <2>1, BalancesKept
<1> QED BY <1>4, <1>5, <1>9

\* A step of a goroutine within its block.
LEMMA BlockWhole ==
  ASSUME WalletInv, WalletInv', InOrder, ReadsPaid, NEW t \in Threads, scan[t].pc \in BlockPCs,
         \A u \in Threads : u # t => scan'[u] = scan[u],
         UNCHANGED <<memScanned, height, subscribed, addresses, send, nodeCoins>>,
         scan'[t].pc \in BlockPCs, scan'[t].block = scan[t].block,
         \/ scan[t].pos < scan'[t].pos
         \/ /\ scan'[t].pos = scan[t].pos
            /\ scan[t].pc \in {"saveBalance", "setBalance"} =>
                  scan'[t].pc \in {"saveBalance", "setBalance"},
         scan'[t].pc \in {"append", "read"} =>
           scan'[t].pos = scan[t].pos /\ Current(t).addr \in addresses,
         scan'[t].pc \in {"saveScanned", "setScanned"} =>
           \/ scan'[t].local = memScanned + 1
           \/ scan[t].pc \in {"saveScanned", "setScanned"} /\ scan'[t].local = scan[t].local
  PROVE  InOrder' /\ ReadsPaid' /\ Taken \subseteq Taken' /\ Debited \subseteq Debited'
<1>0. /\ scan \in [Threads -> ScanRecords] /\ scan' \in [Threads -> ScanRecords]
      /\ height \in Nat /\ Sync \in Threads /\ ScanTypeOK
  BY ScansTyped, ScansMove
<1>1. "idle" \notin BlockPCs /\ "count" \notin BlockPCs /\ "loop" \notin BlockPCs
  BY DEF BlockPCs, OutputPCs
<1>2. InOrder'
  BY <1>0, <1>1 DEF InOrder
<1>3. ReadsPaid'
  BY DEF ReadsPaid, Current, Block
<1>4. Taken \subseteq Taken'
  BY <1>0, TakenGrows
<1>5. Debited \subseteq Debited'
  BY DEF Debited
<1> QED BY <1>2, <1>3, <1>4, <1>5

\* With one publisher, nobody else has been at the output that a goroutine is
\* about to credit, and it pays the wallet.
LEMMA CreditIsNew ==
  ASSUME Cardinality(Publishers) = 1, WalletInv, InOrder, ReadsPaid,
         NEW t \in Threads, scan[t].pc = "read"
  PROVE  /\ <<scan[t].block, scan[t].pos>> \in PaidPlaces(height)
         /\ <<scan[t].block, scan[t].pos>> \notin Taken
<1> DEFINE b == scan[t].block
           i == scan[t].pos
<1>0. /\ ScanTypeOK /\ height \in 0 .. Len(Chain) /\ Len(Chain) \in Nat /\ Sync[1] = 0
      /\ \A u \in Threads : scan[u].block \in Int /\ scan[u].pos \in Int /\ u[1] \in Int
  <2>1. /\ ScanTypeOK /\ Sync[1] = 0
        /\ \A u \in Threads : scan[u].block \in Int /\ scan[u].pos \in Int /\ u[1] \in Int
    BY ScansTyped
  <2>2. Len(Chain) \in Nat
    BY ChainAssumption
  <2> QED BY <2>1, <2>2 DEF ScanTypeOK
<1>1. scan[t].pc \in OutputPCs /\ scan[t].pc \in BlockPCs
  BY DEF OutputPCs, BlockPCs
<1>2. /\ b \in 1 .. Len(Chain) /\ i \in 1 .. Len(Block(t)) /\ Current(t) = Chain[b][i]
      /\ b <= height
  BY <1>0, <1>1, CurrentTyped DEF WalletInv, InMined
<1>3. i \in OwnPositions(b)
  <2>1. Current(t).addr \in InitAddrs \cup NewAddrs
    BY <1>0 DEF ReadsPaid, ScanTypeOK
  <2>2. i \in DOMAIN Chain[b]
    <3>1. Chain[b] \in Seq(OutputRecords) /\ Block(t) = Chain[b]
      BY <1>2, ChainAssumption DEF Block
    <3> QED BY <1>2, <3>1
  <2> QED BY <1>2, <2>1, <2>2 DEF OwnPositions
<1>4. <<b, i>> \in PaidPlaces(height)
  BY <1>0, <1>2, <1>3, PlacesMined
<1>5. \A p, q \in Publishers : p = q
  <2>1. PICK p : Publishers = {p}
    BY FS_Singleton, NodeAssumption
  <2> QED BY <2>1
<1>6. ASSUME NEW u \in Threads, Past(u, <<b, i>>) PROVE FALSE
  <2>1. CASE u = t
    BY <1>0, <1>6, <2>1 DEF Past
  <2>2. CASE u # t /\ u # Sync /\ t # Sync
    <3>1. scan[u].block = b /\ u[1] = b /\ t[1] = b
      BY <1>1, <1>2, <1>6, <2>2 DEF Past, InOrder
    <3>2. u \in (1 .. Len(Chain)) \X Publishers /\ t \in (1 .. Len(Chain)) \X Publishers
      BY <2>2 DEF Threads
    <3> QED BY <1>5, <2>2, <3>1, <3>2
  <2>3. CASE u = Sync /\ t # Sync
    <3>1. scan[Sync].block < b
      BY <1>0, <1>2, <2>3 DEF InOrder
    <3> QED BY <1>0, <1>6, <2>3, <3>1, SyncIsThread DEF Past
  <2>4. CASE u # Sync /\ t = Sync
    <3>1. scan[u].block = b
      BY <1>6, <2>4 DEF Past
    <3>2. subscribed
      BY <1>2, <2>4, <3>1 DEF InOrder
    <3> QED BY <2>4, <3>2 DEF InOrder
  <2> QED BY <2>1, <2>2, <2>3, <2>4
<1> QED BY <1>4, <1>6 DEF Taken

\* The steps of a goroutine that scans, when nothing fails.
LEMMA ReceiveWhole ==
  ASSUME Cardinality(Publishers) = 1, WalletInv, WalletInv',
         InOrder, ReadsPaid, WholeBalances, NEW t \in Threads, ReceiveStep(t), UNCHANGED faults
  PROVE  InOrder' /\ ReadsPaid' /\ WholeBalances'
<1>0. /\ scan \in [Threads -> ScanRecords] /\ scan' \in [Threads -> ScanRecords]
      /\ height \in Nat /\ memScanned \in Int /\ faults \in Nat /\ Sync \in Threads
      /\ ScanTypeOK /\ scan[t].pos \in Int /\ scan[t].block \in Int
  BY ScansTyped, ScansMove
<1>1. UNCHANGED <<nodeCoins, send, balancer>>
  BY DEF ReceiveStep, spendVars
<1>2. Taken' \subseteq PaidPlaces(Len(Chain))
  <2>1. height' \in 0 .. Len(Chain)
    BY DEF WalletInv, WalletTypeOK, ScanTypeOK
  <2>2. PaidPlaces(height') \subseteq PaidPlaces(Len(Chain))
    BY <2>1, PlacesMined
  <2> QED BY <2>2 DEF Taken
<1> DEFINE Within == /\ scan[t].pc \in BlockPCs
                     /\ \A u \in Threads : u # t => scan'[u] = scan[u]
                     /\ UNCHANGED <<memScanned, height, subscribed, addresses>>
           Steady == UNCHANGED memBalance /\ scan'[t].pc \notin {"saveBalance", "setBalance"}
           Forward == InOrder' /\ ReadsPaid' /\ Taken \subseteq Taken' /\ Debited \subseteq Debited'
<1>3. ASSUME Within, Steady, Forward PROVE InOrder' /\ ReadsPaid' /\ WholeBalances'
  BY <1>1, <1>3, BalancesKept
<1>4. CASE ScanCopy(t)
  <2>1. UNCHANGED <<scan, memScanned, height, subscribed, addresses, memBalance>>
    BY <1>4 DEF ScanCopy, allScanVars, scanVars, storeVars
  <2>2. Within /\ Steady
    BY <1>4, <2>1 DEF ScanCopy, BlockPCs, OutputPCs
  <2>3. scan[t].pc = "append" /\ Current(t).addr \in addresses
    BY <1>4 DEF ScanCopy, ReadsPaid
  <2>4. Forward
    BY <1>1, <2>1, <2>2, <2>3, BlockWhole
  <2> QED BY <1>3, <2>2, <2>4
<1>5. CASE ScanAppend(t) \/ ScanStore(t)
  <2>1. scan[t].pc = "append" /\ Go(t, "read")
    BY <1>5 DEF ScanAppend, AppendReceived, ScanStore, WalletInv, MutexInv
  <2>2. UNCHANGED <<memScanned, height, subscribed, addresses, memBalance>>
    BY <1>5 DEF ScanAppend, AppendReceived, ScanStore
  <2>3. /\ scan'[t] = [scan[t] EXCEPT !.pc = "read"]
        /\ \A u \in Threads : u # t => scan'[u] = scan[u]
    BY <1>0, <2>1 DEF Go
  <2>4. /\ scan'[t].pc = "read" /\ scan'[t].block = scan[t].block /\ scan'[t].pos = scan[t].pos
    BY <1>0, <2>3 DEF ScanRecords
  <2>5. Current(t).addr \in addresses
    BY <2>1 DEF ReadsPaid
  <2>6. Within /\ Steady
    BY <2>1, <2>2, <2>3, <2>4 DEF BlockPCs, OutputPCs
  <2>7. Forward
    BY <1>1, <2>1, <2>4, <2>5, <2>6, BlockWhole DEF BlockPCs, OutputPCs
  <2> QED BY <1>3, <2>6, <2>7
<1>6. CASE SkipOutput(t)
  <2>1. /\ scan[t].pc = "outputs" /\ NextOutput(t)
        /\ UNCHANGED <<memScanned, height, subscribed, addresses, memBalance>>
    BY <1>6 DEF SkipOutput, AtOutput, storeVars
  <2>2. /\ scan'[t].pc = "outputs" /\ scan'[t].block = scan[t].block
        /\ scan'[t].pos = scan[t].pos + 1
        /\ \A u \in Threads : u # t => scan'[u] = scan[u]
    BY <1>0, <2>1 DEF NextOutput, ScanRecords
  <2>3. Within /\ Steady
    BY <2>1, <2>2 DEF BlockPCs, OutputPCs
  <2>4. Forward
    BY <1>0, <1>1, <2>2, <2>3, BlockWhole DEF BlockPCs, OutputPCs
  <2> QED BY <1>3, <2>3, <2>4
<1>7. CASE SaveReceived(t)
  <2>1. /\ scan[t].pc = "outputs" /\ Current(t).addr \in addresses /\ Go(t, "append")
        /\ UNCHANGED <<memScanned, height, subscribed, addresses, memBalance>>
    BY <1>7 DEF SaveReceived, Received, AtOutput, memVars
  <2>2. /\ scan'[t].pc = "append" /\ scan'[t].block = scan[t].block
        /\ scan'[t].pos = scan[t].pos
        /\ \A u \in Threads : u # t => scan'[u] = scan[u]
    BY <1>0, <2>1 DEF Go, ScanRecords
  <2>3. Within /\ Steady
    BY <2>1, <2>2 DEF BlockPCs, OutputPCs
  <2>4. Forward
    BY <1>1, <2>1, <2>2, <2>3, BlockWhole DEF BlockPCs, OutputPCs
  <2> QED BY <1>3, <2>3, <2>4
<1>8. CASE ReadBalance(t)
  <2> DEFINE p == <<scan[t].block, scan[t].pos>>
             v == Current(t).value
  <2>1. /\ scan[t].pc = "read" /\ GoWith(t, "saveBalance", memBalance + v)
        /\ UNCHANGED <<memScanned, height, subscribed, addresses, memBalance>>
    BY <1>8 DEF ReadBalance, storeVars
  <2>2. /\ scan'[t].pc = "saveBalance" /\ scan'[t].block = scan[t].block
        /\ scan'[t].pos = scan[t].pos /\ scan'[t].local = memBalance + v
        /\ \A u \in Threads : u # t => scan'[u] = scan[u]
    BY <1>0, <2>1 DEF GoWith, ScanRecords
  <2>3. Forward
    BY <1>1, <2>1, <2>2, BlockWhole DEF BlockPCs, OutputPCs
  <2>4. p \in PaidPlaces(height) /\ p \notin Taken
    BY <2>1, CreditIsNew
  <2>5. p \in Taken'
    <3>1. ASSUME NEW q, q = p PROVE Past(t, q)'
      BY <2>2, <3>1 DEF Past
    <3>2. p \in PaidPlaces(height')
      BY <2>1, <2>4
    <3> QED BY <3>1, <3>2 DEF Taken
  <2>6. memBalance \in Wholes /\ v = Chain[p[1]][p[2]].value
    BY DEF WholeBalances, Current, Block
  <2>7. memBalance + v \in Wholes'
    BY <1>1, <1>2, <2>3, <2>4, <2>5, <2>6, WholeCredit
  <2>8. \A w \in Wholes : w \in Wholes'
    BY <1>1, <2>3, WholeKept
  <2>9. WholeBalances'
    BY <1>1, <2>1, <2>2, <2>7, <2>8 DEF WholeBalances
  <2> QED BY <2>3, <2>9
<1>9. CASE SaveCredit(t)
  <2>1. /\ scan[t].pc = "saveBalance" /\ Go(t, "setBalance")
        /\ UNCHANGED <<memScanned, height, subscribed, addresses, memBalance>>
    BY <1>9 DEF SaveCredit, memVars
  <2>2. /\ scan'[t].pc = "setBalance" /\ scan'[t].block = scan[t].block
        /\ scan'[t].pos = scan[t].pos /\ scan'[t].local = scan[t].local
        /\ \A u \in Threads : u # t => scan'[u] = scan[u]
    BY <1>0, <2>1 DEF Go, ScanRecords
  <2>3. Forward
    BY <1>1, <2>1, <2>2, BlockWhole DEF BlockPCs, OutputPCs
  <2> QED BY <1>1, <2>1, <2>2, <2>3, BalancesKept
<1>10. CASE SetCredit(t)
  <2>1. /\ scan[t].pc = "setBalance" /\ NextOutput(t) /\ memBalance' = scan[t].local
        /\ UNCHANGED <<memScanned, height, subscribed, addresses>>
    BY <1>10 DEF SetCredit, SetBalance
  <2>2. /\ scan'[t].pc = "outputs" /\ scan'[t].block = scan[t].block
        /\ scan'[t].pos = scan[t].pos + 1
        /\ \A u \in Threads : u # t => scan'[u] = scan[u]
    BY <1>0, <2>1 DEF NextOutput, ScanRecords
  <2>3. Forward
    BY <1>0, <1>1, <2>1, <2>2, BlockWhole DEF BlockPCs, OutputPCs
  <2>4. \A w \in Wholes : w \in Wholes'
    BY <1>1, <2>3, WholeKept
  <2>5. WholeBalances'
    BY <1>1, <2>1, <2>2, <2>4 DEF WholeBalances
  <2> QED BY <2>3, <2>5
<1>11. CASE ReadScanned(t)
  <2>1. /\ scan[t].pc = "outputs" /\ GoWith(t, "saveScanned", memScanned + 1)
        /\ UNCHANGED <<memScanned, height, subscribed, addresses, memBalance>>
    BY <1>11 DEF ReadScanned, storeVars
  <2>2. /\ scan'[t].pc = "saveScanned" /\ scan'[t].block = scan[t].block
        /\ scan'[t].pos = scan[t].pos /\ scan'[t].local = memScanned + 1
        /\ \A u \in Threads : u # t => scan'[u] = scan[u]
    BY <1>0, <2>1 DEF GoWith, ScanRecords
  <2>3. Within /\ Steady
    BY <2>1, <2>2 DEF BlockPCs, OutputPCs
  <2>4. Forward
    BY <1>1, <2>1, <2>2, <2>3, BlockWhole DEF BlockPCs, OutputPCs
  <2> QED BY <1>3, <2>3, <2>4
<1>12. CASE SaveAdvance(t)
  <2>1. /\ scan[t].pc = "saveScanned" /\ Go(t, "setScanned")
        /\ UNCHANGED <<memScanned, height, subscribed, addresses, memBalance>>
    BY <1>12 DEF SaveAdvance, memVars
  <2>2. /\ scan'[t].pc = "setScanned" /\ scan'[t].block = scan[t].block
        /\ scan'[t].pos = scan[t].pos /\ scan'[t].local = scan[t].local
        /\ \A u \in Threads : u # t => scan'[u] = scan[u]
    BY <1>0, <2>1 DEF Go, ScanRecords
  <2>3. Within /\ Steady
    BY <2>1, <2>2 DEF BlockPCs, OutputPCs
  <2>4. Forward
    BY <1>1, <2>1, <2>2, <2>3, BlockWhole DEF BlockPCs, OutputPCs
  <2> QED BY <1>3, <2>3, <2>4
<1>13. CASE SetAdvance(t)
  <2>1. /\ scan[t].pc = "setScanned" /\ Return(t) /\ memScanned' = scan[t].local
        /\ UNCHANGED <<height, subscribed, addresses, memBalance>>
    BY <1>13 DEF SetAdvance, SetScanned
  <2>2. /\ scan'[t].pc = (IF t = Sync THEN "loop" ELSE "idle") /\ scan'[t].block = scan[t].block
        /\ scan'[t].pos = scan[t].pos
        /\ \A u \in Threads : u # t => scan'[u] = scan[u]
    BY <1>0, <2>1 DEF Return, Go, ScanRecords
  <2>3. InOrder'
    <3>1. CASE t = Sync
      <4>1. memScanned' = memScanned + 1 /\ scan[Sync].block = memScanned + 1
        BY <2>1, <3>1 DEF InOrder, BlockPCs
      <4> QED BY <1>0, <2>1, <2>2, <3>1, <4>1 DEF InOrder, BlockPCs, OutputPCs
    <3>2. CASE t # Sync
      <4>1. scan[t].block # 0 /\ subscribed
        BY <2>1, <3>2 DEF InOrder
      <4>2. scan[Sync].pc = "idle"
        BY <4>1 DEF InOrder
      <4> QED BY <1>0, <2>1, <2>2, <3>2, <4>1, <4>2 DEF InOrder, BlockPCs, OutputPCs
    <3> QED BY <3>1, <3>2
  <2>4. ReadsPaid'
    BY <2>1, <2>2 DEF ReadsPaid, Current, Block
  <2>5. Taken \subseteq Taken' /\ Debited \subseteq Debited'
    BY <1>0, <1>1, <2>1, <2>2, TakenGrows DEF Debited
  <2> QED BY <1>1, <2>1, <2>2, <2>3, <2>4, <2>5, BalancesKept
<1>14. ~FetchBlockFails(t) /\ ~SaveReceivedFails(t) /\ ~SaveCreditFails(t) /\ ~SaveAdvanceFails(t)
  BY <1>0 DEF FetchBlockFails, SaveReceivedFails, SaveCreditFails, SaveAdvanceFails, Fault
<1> QED BY <1>4, <1>5, <1>6, <1>7, <1>8, <1>9, <1>10, <1>11, <1>12, <1>13, <1>14
        DEF ReceiveStep, ScanElse

\* The steps of a call and of its goroutines, when nothing fails.
LEMMA SendWhole ==
  ASSUME WalletInv, InOrder, ReadsPaid, WholeBalances, NEW i \in Sends,
         SendStep(i) \/ \E amount \in Amounts : Call(i, amount), UNCHANGED sendFaults
  PROVE  InOrder' /\ ReadsPaid' /\ WholeBalances'
<1>0. /\ send \in [Sends -> SendStates] /\ balancer \in [Sends -> BalancerStates]
      /\ memBalance \in Int
  BY ScansTyped
<1>1. /\ UNCHANGED scanVars
      /\ UNCHANGED <<height, addresses, subscribed, scan>>
  BY DEF SendStep, Call, scanVars
<1>2. UNCHANGED memScanned
  BY DEF SendStep, Call, CheckFunds, HandlerStep, Select, SelectFails, Broadcast, ReplyLost,
         Rejected, SendFails, UpdateWallet, MarkerStep, MarkInDb, MarkSkips, MarkInMemory, MarkEnds,
         ChangeStep, ChangeSave, ChangeSaveFails, ChangeAppend, ChangeCopy, ChangeStore,
         BalancerStep, BalanceSave, BalanceSaveFails, BalanceSet, storeVars, memVars
<1>3. InOrder' /\ ReadsPaid'
  BY <1>1, <1>2 DEF InOrder, ReadsPaid, Current, Block
<1>4. Taken' = Taken
  BY <1>1 DEF Taken, Past
<1>5. ASSUME UNCHANGED <<memBalance, send, balancer>>, DOMAIN nodeCoins \subseteq DOMAIN nodeCoins'
      PROVE  WholeBalances'
  <2>1. Debited \subseteq Debited'
    BY <1>5 DEF Debited
  <2> QED BY <1>1, <1>4, <1>5, <2>1, BalancesKept
<1>6. ASSUME UNCHANGED <<memBalance, balancer>>, send[i].pc # "over",
             DOMAIN nodeCoins \subseteq DOMAIN nodeCoins',
             \A k \in Sends : k # i => send'[k] = send[k],
             send'[i].pc = "update" => ChangeKey(i) \in DOMAIN nodeCoins'
      PROVE  WholeBalances'
  <2>1. Debited \subseteq Debited' /\ \A k \in Debited : send'[k] = send[k]
    BY <1>6 DEF Debited
  <2>2. \A v \in Wholes : v \in Wholes'
    BY <1>4, <2>1, WholeKept
  <2> QED BY <1>1, <1>6, <2>2 DEF WholeBalances
<1>7. ASSUME NEW amount \in Amounts, Call(i, amount) PROVE WholeBalances'
  <2>1. CheckFunds(i, amount)
    BY <1>7 DEF Call
  <2>2. /\ send'[i].pc # "update" /\ \A k \in Sends : k # i => send'[k] = send[k]
    BY <1>0, <2>1 DEF CheckFunds, SendStates
  <2> QED BY <1>6, <2>1, <2>2 DEF CheckFunds, storeVars, nodeVars, workerVars
<1>8. CASE Select(i) \/ SelectFails(i) \/ Rejected(i)
  <2>1. /\ send[i].pc \in {"select", "broadcast"} /\ \A k \in Sends : k # i => send'[k] = send[k]
        /\ UNCHANGED <<memBalance, nodeCoins, balancer>>
    BY <1>0, <1>8 DEF Select, SelectFails, Rejected, End, SendStates, storeVars, nodeVars, workerVars
  <2>2. send'[i].pc # "update"
    BY <1>0, <1>8 DEF Select, SelectFails, Rejected, End, SendStates
  <2>3. send[i].pc # "over" /\ DOMAIN nodeCoins \subseteq DOMAIN nodeCoins'
    BY <2>1
  <2>4. UNCHANGED <<memBalance, balancer>>
    BY <2>1
  <2> QED BY <1>3, <1>6, <2>1, <2>2, <2>3, <2>4
<1>9. CASE Broadcast(i)
  <2>1. /\ send[i].pc = "broadcast" /\ \A k \in Sends : k # i => send'[k] = send[k]
        /\ UNCHANGED <<memBalance, balancer>>
    BY <1>0, <1>9 DEF Broadcast, NodeAccepts, SendStates, storeVars, workerVars
  <2>2. DOMAIN nodeCoins' = DOMAIN nodeCoins \cup {Outpoint(Change(i))}
    BY <1>9 DEF Broadcast, NodeAccepts
  <2>3. Outpoint(Change(i)) = ChangeKey(i)
    BY DEF Outpoint, Change, NewUtxo, ChangeKey
  <2>4. send[i].pc # "over" /\ DOMAIN nodeCoins \subseteq DOMAIN nodeCoins'
    BY <2>1, <2>2
  <2>5. UNCHANGED <<memBalance, balancer>> /\ ChangeKey(i) \in DOMAIN nodeCoins'
    BY <2>1, <2>2, <2>3
  <2> QED BY <1>3, <1>6, <2>1, <2>4, <2>5
<1>10. CASE UpdateWallet(i)
  <2>1. /\ send[i].pc = "update" /\ End(i) /\ UNCHANGED <<memBalance, nodeCoins>>
        /\ balancer' = [balancer EXCEPT ![i] =
                           [pc |-> "save", value |-> memBalance - send[i].amount - Fee(i)]]
    BY <1>10 DEF UpdateWallet, storeVars, nodeVars
  <2>2. /\ send'[i].pc = "over" /\ \A k \in Sends : k # i => send'[k] = send[k]
        /\ \A k \in Sends : send'[k].amount = send[k].amount /\ send'[k].inputs = send[k].inputs
    BY <1>0, <2>1 DEF End, SendStates
  <2>3. /\ balancer'[i].value = memBalance - send[i].amount - Fee(i)
        /\ \A k \in Sends : k # i => balancer'[k] = balancer[k]
    BY <1>0, <2>1 DEF BalancerStates
  <2>4. Debited \subseteq Debited' /\ i \in Debited' /\ i \notin Debited
    BY <2>1, <2>2 DEF Debited, WholeBalances
  <2>5. \A v \in Wholes : v \in Wholes'
    BY <1>4, <2>2, <2>4, WholeKept DEF Debited
  <2>6. memBalance - send[i].amount - Fee(i) \in Wholes'
    BY <1>4, <2>2, <2>4, WholeDebit DEF WholeBalances
  <2>7. \A k \in Sends : balancer'[k].pc # "idle" => balancer'[k].value \in Wholes'
    BY <2>3, <2>5, <2>6 DEF WholeBalances
  <2>8. memBalance' \in Wholes' /\ \A k \in Sends : send'[k].pc = "update" =>
                                      ChangeKey(k) \in DOMAIN nodeCoins'
    BY <2>1, <2>2, <2>5 DEF WholeBalances
  <2>9. \A t \in Threads : scan'[t].pc \in {"saveBalance", "setBalance"} => scan'[t].local \in Wholes'
    BY <1>1, <2>5 DEF WholeBalances
  <2> QED BY <1>3, <2>7, <2>8, <2>9 DEF WholeBalances
<1>11. CASE MarkerStep(i)
  <2>1. UNCHANGED <<memBalance, send, balancer, nodeCoins>>
    BY <1>11 DEF MarkerStep, MarkInDb, MarkSkips, MarkInMemory, MarkEnds, memVars, storeVars, nodeVars
  <2>2. UNCHANGED <<memBalance, send, balancer>> /\ DOMAIN nodeCoins \subseteq DOMAIN nodeCoins'
    BY <2>1
  <2> QED BY <1>3, <1>5, <2>2
<1>12. CASE ChangeStep(i)
  <2>1. UNCHANGED <<memBalance, send, balancer, nodeCoins>>
    BY <1>12 DEF ChangeStep, ChangeSave, ChangeSaveFails, ChangeAppend, ChangeCopy, ChangeStore,
                 memVars, storeVars, nodeVars
  <2>2. UNCHANGED <<memBalance, send, balancer>> /\ DOMAIN nodeCoins \subseteq DOMAIN nodeCoins'
    BY <2>1
  <2> QED BY <1>3, <1>5, <2>2
<1>13. CASE BalanceSave(i) \/ BalanceSet(i)
  <2>1. /\ UNCHANGED <<send, nodeCoins>> /\ balancer[i].pc # "idle"
        /\ memBalance' \in {memBalance, balancer[i].value}
        /\ \A k \in Sends : balancer'[k].value = balancer[k].value
        /\ \A k \in Sends : balancer'[k].pc # "idle" => balancer[k].pc # "idle"
    BY <1>0, <1>13 DEF BalanceSave, BalanceSet, SetBalance, BalancerStates, memVars, nodeVars
  <2>2. Wholes' = Wholes
    BY <1>4, <2>1 DEF Wholes, Worth, Debited, Fee
  <2>3. memBalance' \in Wholes' /\ \A k \in Sends : send'[k].pc = "update" =>
                                      ChangeKey(k) \in DOMAIN nodeCoins'
    BY <2>1, <2>2 DEF WholeBalances
  <2>4. \A k \in Sends : balancer'[k].pc # "idle" => balancer'[k].value \in Wholes'
    BY <2>1, <2>2 DEF WholeBalances
  <2>5. \A t \in Threads : scan'[t].pc \in {"saveBalance", "setBalance"} => scan'[t].local \in Wholes'
    BY <1>1, <2>2 DEF WholeBalances
  <2> QED BY <1>3, <2>3, <2>4, <2>5 DEF WholeBalances
<1>14. ~ReplyLost(i) /\ ~SendFails(i) /\ ~BalanceSaveFails(i)
  <2>1. sendFaults \in Nat
    BY ScansTyped DEF SpendTypeOK
  <2> QED BY <2>1 DEF ReplyLost, SendFails, BalanceSaveFails, SendFault
<1> QED BY <1>3, <1>7, <1>8, <1>9, <1>10, <1>11, <1>12, <1>13, <1>14
        DEF SendStep, HandlerStep, BalancerStep

\* All balances stay whole.
LEMMA WholeStep ==
  ASSUME Cardinality(Publishers) = 1, WalletInv, WalletInv', WholeInv, [WalletNext]_walletVars
  PROVE  WholeInv'
<1> SUFFICES ASSUME NoFailure' PROVE InOrder' /\ ReadsPaid' /\ WholeBalances'
  BY DEF WholeInv
<1>1. NoFailure /\ UNCHANGED <<faults, sendFaults, crashes>> /\ ~AllRestart
  BY NothingFailed DEF WalletInv
<1>2. InOrder /\ ReadsPaid /\ WholeBalances
  BY <1>1 DEF WholeInv
<1>3. ASSUME CatchUpStep PROVE InOrder' /\ ReadsPaid' /\ WholeBalances'
  BY <1>1, <1>2, <1>3, CatchUpWhole
<1>4. ASSUME Mine PROVE InOrder' /\ ReadsPaid' /\ WholeBalances'
  BY <1>2, <1>4, MineWhole
<1>5. ASSUME NEW t \in Threads, ReceiveStep(t) PROVE InOrder' /\ ReadsPaid' /\ WholeBalances'
  BY <1>1, <1>2, <1>5, ReceiveWhole
<1>6. ASSUME NEW i \in Sends, SendStep(i) \/ \E amount \in Amounts : Call(i, amount)
      PROVE  InOrder' /\ ReadsPaid' /\ WholeBalances'
  BY <1>1, <1>2, <1>6, SendWhole
<1>7. ASSUME UNCHANGED <<storeVars, spendVars, scan, height, subscribed>>,
             addresses \subseteq addresses'
      PROVE  InOrder' /\ ReadsPaid' /\ WholeBalances'
  <2>1. UNCHANGED <<memBalance, memScanned, send, balancer, nodeCoins>>
    BY <1>7 DEF storeVars, spendVars
  <2>2. InOrder' /\ ReadsPaid'
    BY <1>2, <1>7, <2>1 DEF InOrder, ReadsPaid, Current, Block
  <2>3. Taken' = Taken /\ Debited' = Debited
    BY <1>7, <2>1 DEF Taken, Past, Debited
  <2> QED BY <1>2, <1>7, <2>1, <2>2, <2>3, BalancesKept
<1>8. ASSUME NEW a \in NewAddrs, Issue(a) PROVE InOrder' /\ ReadsPaid' /\ WholeBalances'
  BY <1>7, <1>8 DEF Issue, GetNewAddress
<1>9. ASSUME UNCHANGED walletVars PROVE InOrder' /\ ReadsPaid' /\ WholeBalances'
  BY <1>7, <1>9 DEF walletVars, allScanVars, scanVars
<1> QED BY <1>1, <1>3, <1>4, <1>5, <1>6, <1>8, <1>9
        DEF WalletNext, ScanPanic, ChangePanic, Die

\* The empty wallet's balance is the worth of nothing.
LEMMA WholeInitially == WalletInit => WholeInv
<1> SUFFICES ASSUME WalletInit PROVE InOrder /\ ReadsPaid /\ WholeBalances
  BY DEF WholeInv
<1>1. /\ scan = [t \in Threads |-> ThreadAt(IF t = Sync THEN "count" ELSE "idle", 0)]
      /\ memScanned = 0 /\ memBalance = 0 /\ height = 0 /\ subscribed = FALSE
      /\ \A i \in Sends : balancer[i].pc = "idle" /\ send[i].pc = "idle"
  BY WalletAssumption DEF WalletInit, ScanInit, SpendInit, NoWrite
<1>2. InOrder /\ ReadsPaid
  BY <1>1, SyncIsThread DEF InOrder, ReadsPaid, ThreadAt, BlockPCs, OutputPCs
<1>3. 0 \in Wholes
  <2>1. Worth({}, {}) = SumFunctionOnSet(Amount, {})
                       - SumFunctionOnSet([i \in Sends |-> Cost(i)], {})
    BY WorthOf
  <2>2. Worth({}, {}) = 0
    BY <2>1, SumEmpty
  <2> QED BY <2>2 DEF Wholes
<1>4. WholeBalances
  BY <1>1, <1>3 DEF WholeBalances, ThreadAt
<1> QED BY <1>2, <1>4

\* Overlapping scans and sends lose credits and debits, but with one publisher,
\* and while nothing fails, none counts twice.
THEOREM WalletBalanceIsWhole ==
  ASSUME Cardinality(Publishers) = 1
  PROVE  WalletSafety => []BalanceIsWhole
<1> DEFINE Inv == WalletInv /\ AllShown /\ WholeInv
<1>1. WalletInit => Inv
  BY WalletInitially, WholeInitially
<1>2. Inv /\ [WalletNext]_walletVars => Inv'
  BY WalletStep, WholeStep
<1>3. Inv => BalanceIsWhole
  <2> SUFFICES ASSUME Inv, NoFailure
               PROVE  \E C \in SUBSET PaidPlaces(height), D \in SUBSET Debits :
                        memBalance = Worth(C, D)
    BY DEF BalanceIsWhole
  <2>1. memBalance \in Wholes
    BY DEF WholeInv, WholeBalances
  <2>2. Taken \subseteq PaidPlaces(height)
    BY DEF Taken
  <2>3. Debited \subseteq Debits
    BY DEF Debited, Debits, Outpoint, Change, NewUtxo, ChangeKey
  <2> QED BY <2>1, <2>2, <2>3 DEF Wholes
<1> QED BY <1>1, <1>2, <1>3, PTL DEF WalletSafety

-----------------------------------------------------------------------------
(* WalletExact. *)

\* The payments of the chain are outputs of different transactions, none of
\* them a transaction of the wallet.
DistinctPayments ==
  /\ \A b, c \in 1 .. Len(Chain) : \A i \in OwnPositions(b), j \in OwnPositions(c) :
       Chain[b][i].txid = Chain[c][j].txid => b = c /\ i = j
  /\ \A b \in 1 .. Len(Chain) : \A i \in OwnPositions(b), k \in Sends :
       Chain[b][i].txid # TxId(k)

\* One reliable publisher that tells of every payment: btcd tells only of those
\* to the addresses in its filter.
EachIsTold == Cardinality(Publishers) = 1 /\ ~Lossy /\ (Node = "core" \/ NewAddrs = {})

PaidKey(b, i) == Outpoint(Chain[b][i])
Keys(S)       == {Outpoint(u) : u \in S}

\* The outpoints that list s shows as spent.
Marked(s) == {Outpoint(s[j]) : j \in {k \in DOMAIN s : s[k].spent}}

\* List s has the coins but for those yet to be added, all of them saved, and
\* marks those that are spent but for those yet to be marked.
Agrees(s, coins, spent, saved, toAdd, toMark) ==
  /\ NoneTwice(s) /\ Listed(s) \subseteq saved
  /\ \A j \in DOMAIN s : Outpoint(s[j]) \in DOMAIN coins /\ s[j].value = coins[Outpoint(s[j])]
  /\ Listed(s) = DOMAIN coins \ toAdd
  /\ Marked(s) = spent \ toMark

\* One coin more is listed.
LEMMA AgreesAppend ==
  ASSUME NEW s \in Seq(UtxoRecords), NEW C, NEW S, NEW D, NEW A, NEW M,
         Agrees(s, C, S, D, A, M), NEW u \in UtxoRecords, ~u.spent,
         Outpoint(u) \in DOMAIN C, u.value = C[Outpoint(u)], Outpoint(u) \in D, Outpoint(u) \in A
  PROVE  Agrees(Append(s, u), C, S, D, A \ {Outpoint(u)}, M)
<1> DEFINE r == Append(s, u)
           n == Len(s) + 1
<1>1. /\ DOMAIN r = DOMAIN s \cup {n} /\ n \notin DOMAIN s /\ r[n] = u
      /\ \A j \in DOMAIN s : r[j] = s[j]
  OBVIOUS
<1>2. Listed(r) = Listed(s) \cup {Outpoint(u)}
  BY AppendLists
<1>3. Outpoint(u) \notin Listed(s)
  BY DEF Agrees
<1>4. \A j \in DOMAIN s : Outpoint(s[j]) # Outpoint(u)
  BY <1>3 DEF Listed
<1> HIDE DEF r, n
<1>5. NoneTwice(r)
  BY <1>1, <1>4 DEF NoneTwice, Agrees
<1>6. \A j \in DOMAIN r : Outpoint(r[j]) \in DOMAIN C /\ r[j].value = C[Outpoint(r[j])]
  BY <1>1 DEF Agrees
<1>7. Marked(r) = Marked(s)
  <2>1. {k \in DOMAIN r : r[k].spent} = {k \in DOMAIN s : s[k].spent}
    BY <1>1
  <2>2. {k \in DOMAIN s : s[k].spent} \subseteq DOMAIN s
    OBVIOUS
  <2> QED BY <1>1, <2>1, <2>2 DEF Marked
<1>8. Listed(r) = DOMAIN C \ (A \ {Outpoint(u)}) /\ Listed(r) \subseteq D
  BY <1>2 DEF Agrees
<1> QED BY <1>5, <1>6, <1>7, <1>8 DEF Agrees, r

\* One mark more is set.
LEMMA AgreesMark ==
  ASSUME NEW s \in Seq(UtxoRecords), NEW C, NEW S, NEW D, NEW A, NEW M,
         Agrees(s, C, S, D, A, M), NEW p \in DOMAIN s, Outpoint(s[p]) \in S
  PROVE  Agrees([s EXCEPT ![p].spent = TRUE], C, S, D, A, M \ {Outpoint(s[p])})
<1> DEFINE r == [s EXCEPT ![p].spent = TRUE]
<1>1. DOMAIN r = DOMAIN s /\ \A j \in DOMAIN s : s[j] \in UtxoRecords
  OBVIOUS
<1>2. \A v \in UtxoRecords : /\ Outpoint([v EXCEPT !.spent = TRUE]) = Outpoint(v)
                             /\ [v EXCEPT !.spent = TRUE].value = v.value
                             /\ [v EXCEPT !.spent = TRUE].spent = TRUE
  BY DEF UtxoRecords, Outpoint
<1>3. \A j \in DOMAIN s : j # p => r[j] = s[j]
  OBVIOUS
<1>4. r[p] = [s[p] EXCEPT !.spent = TRUE]
  OBVIOUS
<1> HIDE DEF r
<1>5. /\ \A j \in DOMAIN s : Outpoint(r[j]) = Outpoint(s[j]) /\ r[j].value = s[j].value
      /\ r[p].spent
  <2>1. s[p] \in UtxoRecords
    BY <1>1
  <2>2. Outpoint(r[p]) = Outpoint(s[p]) /\ r[p].value = s[p].value /\ r[p].spent
    BY <1>2, <1>4, <2>1
  <2> QED BY <1>3, <2>2
<1>6. NoneTwice(r) /\ Listed(r) = Listed(s)
  BY <1>1, <1>5 DEF NoneTwice, Listed, Agrees
<1>7. Marked(r) = Marked(s) \cup {Outpoint(s[p])}
  <2>1. {k \in DOMAIN r : r[k].spent} = {k \in DOMAIN s : s[k].spent} \cup {p}
    BY <1>1, <1>3, <1>5
  <2>2. Marked(r) = {Outpoint(s[j]) : j \in {k \in DOMAIN s : s[k].spent} \cup {p}}
    BY <1>5, <2>1 DEF Marked
  <2> QED BY <2>2 DEF Marked
<1>8. Marked(r) = S \ (M \ {Outpoint(s[p])})
  BY <1>7 DEF Agrees
<1> QED BY <1>1, <1>5, <1>6, <1>8 DEF Agrees, r

\* More coins exist, or are spent, or are saved.
LEMMA AgreesMore ==
  ASSUME NEW s \in Seq(UtxoRecords), NEW C, NEW S, NEW D, NEW A, NEW M,
         Agrees(s, C, S, D, A, M), NEW C2, NEW S2, NEW D2, NEW A2, NEW M2,
         DOMAIN C \subseteq DOMAIN C2, \A o \in DOMAIN C : C2[o] = C[o],
         A2 \cap DOMAIN C2 = (A \cap DOMAIN C) \cup (DOMAIN C2 \ DOMAIN C),
         S2 \ M2 = S \ M, D \subseteq D2
  PROVE  Agrees(s, C2, S2, D2, A2, M2)
BY DEF Agrees

-----------------------------------------------------------------------------
(* The coins of the node, and their keys. *)

\* What the node knows of: payments, with their value, and change.
NodeInv ==
  /\ \A o \in DOMAIN nodeCoins :
       \/ \E b \in 1 .. height : \E i \in OwnPositions(b) : o = PaidKey(b, i)
       \/ \E i \in Sends : ~Early(i) /\ o = ChangeKey(i)
  /\ \A b \in 1 .. height : \A i \in OwnPositions(b) :
       PaidKey(b, i) \in DOMAIN nodeCoins /\ nodeCoins[PaidKey(b, i)] = Chain[b][i].value

\* The wallet looks at all addresses that payments of the node go to.
LookedAt ==
  /\ InitAddrs \subseteq addresses /\ (NewAddrs = {} => filter = InitAddrs)
  /\ \A b \in 1 .. height : \A i \in OwnPositions(b) : Chain[b][i].addr \in addresses

\* Payments have keys of their own.
LEMMA PaidKeysDiffer ==
  ASSUME DistinctPayments, NEW b \in 1 .. Len(Chain), NEW c \in 1 .. Len(Chain),
         NEW i \in OwnPositions(b), NEW j \in OwnPositions(c), PaidKey(b, i) = PaidKey(c, j)
  PROVE  b = c /\ i = j
<1>1. Chain[b][i].txid = Chain[c][j].txid
  BY DEF PaidKey, Outpoint
<1> QED BY <1>1 DEF DistinctPayments

\* The outputs of a block that pay the wallet, and their keys.
LEMMA PaidTyped ==
  ASSUME NEW b \in 1 .. Len(Chain)
  PROVE  /\ OwnPositions(b) \subseteq DOMAIN Chain[b] /\ Chain[b] \in Seq(OutputRecords)
         /\ OwnPositions(b) \subseteq Nat /\ DOMAIN Chain[b] = 1 .. Len(Chain[b])
         /\ Len(Chain[b]) \in Nat
         /\ OwnOutpoints(b) = {PaidKey(b, i) : i \in OwnPositions(b)}
         /\ \A i \in DOMAIN Chain[b] :
              /\ Chain[b][i] \in OutputRecords /\ Chain[b][i].value \in Int
              /\ NewUtxo(Chain[b][i]) \in UtxoRecords /\ ~NewUtxo(Chain[b][i]).spent
              /\ NewUtxo(Chain[b][i]).value = Chain[b][i].value
<1>1. Chain[b] \in Seq(OutputRecords)
  BY ChainAssumption
<1>2. \A i \in DOMAIN Chain[b] : Chain[b][i] \in OutputRecords
  BY <1>1
<1>3. \A r \in OutputRecords : /\ r.value \in Int /\ NewUtxo(r) \in UtxoRecords
                               /\ NewUtxo(r).value = r.value /\ ~NewUtxo(r).spent
  BY DEF OutputRecords, NewUtxo, UtxoRecords
<1>4. OwnPositions(b) \subseteq DOMAIN Chain[b] /\ DOMAIN Chain[b] \subseteq Nat
  BY <1>1 DEF OwnPositions
<1> QED BY <1>1, <1>2, <1>3, <1>4 DEF OwnOutpoints, PaidKey

\* The value that a new block brings for an outpoint is that of its payment.
LEMMA NewCoinsAre ==
  ASSUME DistinctPayments, NEW b \in 1 .. Len(Chain), NEW i \in OwnPositions(b)
  PROVE  PaidKey(b, i) \in OwnOutpoints(b) /\ NewCoins(b)[PaidKey(b, i)] = Chain[b][i].value
<1> DEFINE o == PaidKey(b, i)
           Us == {Chain[b][j] : j \in OwnPositions(b)}
           u == CHOOSE v \in Us : Outpoint(v) = o
<1>1. Chain[b][i] \in Us /\ Outpoint(Chain[b][i]) = o
  BY DEF PaidKey
<1>2. u \in Us /\ Outpoint(u) = o
  BY <1>1
<1>3. PICK j \in OwnPositions(b) : u = Chain[b][j]
  BY <1>2
<1>4. i = j
  BY <1>2, <1>3, PaidKeysDiffer DEF PaidKey
<1>5. o \in OwnOutpoints(b)
  BY DEF OwnOutpoints, PaidKey
<1>6. NewCoins(b)[o] = u.value
  BY <1>5 DEF NewCoins
<1> QED BY <1>3, <1>4, <1>5, <1>6

\* Coins of one transaction are one coin; the coins of the next block and the
\* change of a call that has not paid are yet unknown to the node.
LEMMA KeysApart ==
  ASSUME DistinctPayments, WalletTypeOK, NodeInv
  PROVE  /\ \A o, p \in DOMAIN nodeCoins : o[1] = p[1] => o = p
         /\ height < Len(Chain) => OwnOutpoints(height + 1) \cap DOMAIN nodeCoins = {}
         /\ \A i \in Sends : Early(i) => ChangeKey(i) \notin DOMAIN nodeCoins
<1>0. height \in 0 .. Len(Chain) /\ Len(Chain) \in Nat
  BY ChainAssumption DEF WalletTypeOK, ScanTypeOK
<1>1. /\ \A b \in 1 .. Len(Chain) : \A i \in OwnPositions(b) :
           /\ PaidKey(b, i)[1] = Chain[b][i].txid
           /\ \A k \in Sends : PaidKey(b, i)[1] # TxId(k)
      /\ \A k \in Sends : ChangeKey(k)[1] = TxId(k)
  BY DEF DistinctPayments, PaidKey, Outpoint, ChangeKey
<1>2. \A i, k \in Sends : TxId(i) = TxId(k) => i = k
  BY SendAssumption DEF Sends, TxId
<1>3. ASSUME NEW o \in DOMAIN nodeCoins, NEW p \in DOMAIN nodeCoins, o[1] = p[1] PROVE o = p
  <2>1. CASE \E i \in Sends : o = ChangeKey(i)
    BY <1>0, <1>1, <1>2, <1>3, <2>1 DEF NodeInv
  <2>2. ASSUME NEW b \in 1 .. height, NEW i \in OwnPositions(b), o = PaidKey(b, i) PROVE o = p
    <3>1. b \in 1 .. Len(Chain) /\ \A k \in Sends : p # ChangeKey(k)
      BY <1>0, <1>1, <1>3, <2>2
    <3>2. PICK c \in 1 .. height : \E j \in OwnPositions(c) : p = PaidKey(c, j)
      BY <3>1 DEF NodeInv
    <3>3. PICK j \in OwnPositions(c) : p = PaidKey(c, j)
      BY <3>2
    <3>4. c \in 1 .. Len(Chain) /\ Chain[b][i].txid = Chain[c][j].txid
      BY <1>0, <1>1, <1>3, <2>2, <3>1, <3>3
    <3>5. b = c /\ i = j
      BY <3>1, <3>4 DEF DistinctPayments
    <3> QED BY <2>2, <3>3, <3>5
  <2> QED BY <2>1, <2>2 DEF NodeInv
<1>4. ASSUME height < Len(Chain), NEW o \in OwnOutpoints(height + 1), o \in DOMAIN nodeCoins
      PROVE  FALSE
  <2>1. height + 1 \in 1 .. Len(Chain)
    BY <1>0, <1>4
  <2>2. PICK i \in OwnPositions(height + 1) : o = PaidKey(height + 1, i)
    BY <1>4 DEF OwnOutpoints, PaidKey
  <2>3. \A k \in Sends : o # ChangeKey(k)
    BY <1>1, <2>1, <2>2
  <2>4. PICK c \in 1 .. height : \E j \in OwnPositions(c) : o = PaidKey(c, j)
    BY <1>4, <2>3 DEF NodeInv
  <2>5. PICK j \in OwnPositions(c) : o = PaidKey(c, j)
    BY <2>4
  <2>6. c \in 1 .. Len(Chain)
    BY <1>0
  <2>7. height + 1 = c
    BY <2>1, <2>2, <2>5, <2>6, PaidKeysDiffer
  <2> QED BY <1>0, <2>7
<1>5. ASSUME NEW i \in Sends, Early(i), ChangeKey(i) \in DOMAIN nodeCoins PROVE FALSE
  <2>1. \A k \in Sends : ~Early(k) => ChangeKey(i) # ChangeKey(k)
    BY <1>1, <1>2, <1>5
  <2>2. PICK c \in 1 .. height : \E j \in OwnPositions(c) : ChangeKey(i) = PaidKey(c, j)
    BY <1>5, <2>1 DEF NodeInv
  <2>3. c \in 1 .. Len(Chain)
    BY <1>0
  <2> QED BY <1>1, <2>2, <2>3
<1> QED BY <1>3, <1>4, <1>5

-----------------------------------------------------------------------------
(* The inductive invariant: while no block, call or moved slice has met      *)
(* something unfinished, and nothing has failed, at most one thing is under  *)
(* way, and the wallet differs from the node by what that has yet to do.     *)

Calm == ~overlapped /\ NoFailure

Counted(h)  == memScanned = h /\ dbScanned = h
Balanced(v) == memBalance = v /\ dbBalance = v

\* What the unspent coins are worth without those in K.
ValueBut(coins, spent, K) == SumFunctionOnSet(coins, (DOMAIN coins \ spent) \ K)

\* Nothing is under way, but for a catch-up that has no block to scan.
Resting ==
  /\ AllFinished /\ \A t \in Threads \ {Sync} : scan[t].pc = "idle"
  /\ IF scan[Sync].pc = "idle" THEN subscribed
     ELSE scan[Sync].pc \in {"count", "loop"} /\ height = 0 /\ target = 0
  /\ Counted(height) /\ Balanced(NodeValue)
  /\ Agrees(memUtxos, nodeCoins, nodeSpent, DOMAIN dbUtxos, {}, {})

\* The payments of block b that a goroutine at position p has yet to credit,
\* and those that it has yet to list.
ToCredit(b, p) == {i \in OwnPositions(b) : i >= p}
ToList(b, p, pc) ==
  IF pc \in {"outputs", "append"} THEN ToCredit(b, p) ELSE ToCredit(b, p) \ {p}
KeysAt(b, P) == {PaidKey(b, i) : i \in P}

\* Goroutine t scans the last block.
ScansLast(t) ==
  /\ AllFinished /\ subscribed /\ \A u \in Threads \ {t} : scan[u].pc = "idle"
  /\ height # 0 /\ scan[t].pc \in BlockPCs /\ scan[t].block = height
  /\ scan[t].pc \in OutputPCs => scan[t].pos \in OwnPositions(height)
  /\ scan[t].pc = "append" =>
       /\ PaidKey(height, scan[t].pos) \in DOMAIN dbUtxos
       /\ moving # <<>> =>
            moving = <<t, Append(memUtxos, NewUtxo(Chain[height][scan[t].pos]))>>

\* It counts the block when it has seen it all.
CountsLast(t) ==
  /\ memScanned = height - 1
  /\ dbScanned = IF scan[t].pc = "setScanned" THEN height ELSE height - 1
  /\ scan[t].pc \in {"saveScanned", "setScanned"} =>
       scan[t].pos > Len(Chain[height]) /\ scan[t].local = height

\* It lists the payments up to its place, and credits them.
ListsLast(t) ==
  Agrees(memUtxos, nodeCoins, nodeSpent, DOMAIN dbUtxos,
         KeysAt(height, ToList(height, scan[t].pos, scan[t].pc)), {})
CreditsLast(t) ==
  /\ KeysAt(height, ToCredit(height, scan[t].pos)) \cap nodeSpent = {}
  /\ memBalance = ValueBut(nodeCoins, nodeSpent, KeysAt(height, ToCredit(height, scan[t].pos)))
  /\ scan[t].pc \in {"saveBalance", "setBalance"} =>
       scan[t].local = memBalance + Chain[height][scan[t].pos].value
  /\ dbBalance = IF scan[t].pc = "setBalance" THEN scan[t].local ELSE memBalance

Receiving(t) == ScansLast(t) /\ CountsLast(t) /\ ListsLast(t) /\ CreditsLast(t)

\* The inputs of call i that are spent and have no mark yet.
ToMark(i) ==
  IF send[i].pc = "update" THEN Keys(send[i].inputs)
  ELSE IF marker[i].pc = "find" THEN Keys(marker[i].todo)
  ELSE IF marker[i].pc = "set"
       THEN Keys(marker[i].todo) \cup {Outpoint(memUtxos[marker[i].at])}
  ELSE {}
ToAdd(i) == IF Unlisted(i) THEN {ChangeKey(i)} ELSE {}

\* Call i or its goroutines are under way.
SendsAlone(i) ==
  /\ Idle /\ subscribed /\ \A k \in Sends \ {i} : Finished(k)
  /\ Counted(height)
  /\ send[i].pc # "idle" /\ changer[i].pc # "store"
  /\ send[i].pc # "over" =>
       marker[i].pc = "idle" /\ changer[i].pc = "idle" /\ balancer[i].pc = "idle"

\* Its inputs are coins that are listed, each taken once.
HasInputs(i) ==
  send[i].pc \in {"broadcast", "update"} \/ marker[i].pc # "idle" =>
    /\ \A u \in send[i].inputs : Exists(u) /\ Outpoint(u) \in Listed(memUtxos)
    /\ \A u, v \in send[i].inputs : Outpoint(u) = Outpoint(v) => u = v
HasMarks(i) ==
  /\ marker[i].pc # "idle" => marker[i].todo \subseteq send[i].inputs
  /\ marker[i].pc = "set" => Outpoint(memUtxos[marker[i].at]) \notin Keys(marker[i].todo)
  /\ ToMark(i) \subseteq nodeSpent

\* Its change is listed once it is saved.
HasChange(i) ==
  /\ Unlisted(i) => Exists(Change(i))
  /\ changer[i].pc = "append" => ChangeKey(i) \in DOMAIN dbUtxos
ListsCall(i) == Agrees(memUtxos, nodeCoins, nodeSpent, DOMAIN dbUtxos, ToAdd(i), ToMark(i))

\* What it costs is taken off by one of its goroutines.
TakesCost(i) ==
  /\ send[i].pc \in {"select", "broadcast"} => Balanced(NodeValue)
  /\ send[i].pc = "update" => Balanced(NodeValue + Cost(i))
  /\ send[i].pc = "over" =>
       /\ balancer[i].pc = "idle" => Balanced(NodeValue)
       /\ balancer[i].pc # "idle" => balancer[i].value = NodeValue
       /\ balancer[i].pc = "set"  => dbBalance = NodeValue

Sending(i) ==
  SendsAlone(i) /\ HasInputs(i) /\ HasMarks(i) /\ HasChange(i) /\ ListsCall(i) /\ TakesCost(i)

UnderWay ==
  \/ Resting
  \/ \E t \in Threads \ {Sync} : Receiving(t)
  \/ \E i \in Sends : Sending(i)

CalmInv == Calm => NodeInv /\ LookedAt /\ UnderWay

\* The coins of the node, as numbers.
LEMMA CoinsTyped ==
  ASSUME WalletTypeOK
  PROVE  /\ IsFiniteSet(DOMAIN nodeCoins) /\ nodeSpent \subseteq DOMAIN nodeCoins
         /\ \A o \in DOMAIN nodeCoins : nodeCoins[o] \in Int
         /\ NodeValue = ValueBut(nodeCoins, nodeSpent, {}) /\ NodeValue \in Int
<1>1. /\ IsFiniteSet(DOMAIN nodeCoins) /\ nodeSpent \subseteq DOMAIN nodeCoins
      /\ \A o \in DOMAIN nodeCoins : nodeCoins[o] \in Int
  BY DEF WalletTypeOK, SpendTypeOK
<1>2. IsFiniteSet(DOMAIN nodeCoins \ nodeSpent)
  BY <1>1, FS_Subset
<1>3. NodeValue \in Int
  BY <1>1, <1>2, SumTyped DEF NodeValue
<1>4. (DOMAIN nodeCoins \ nodeSpent) \ {} = DOMAIN nodeCoins \ nodeSpent
  OBVIOUS
<1> QED BY <1>1, <1>3, <1>4 DEF NodeValue, ValueBut

\* One coin more counts.
LEMMA ValueWithOne ==
  ASSUME NEW C, NEW S, NEW K, NEW o \in K, o \in DOMAIN C, o \notin S,
         IsFiniteSet(DOMAIN C), \A q \in DOMAIN C : C[q] \in Int
  PROVE  /\ ValueBut(C, S, K \ {o}) = ValueBut(C, S, K) + C[o]
         /\ ValueBut(C, S, K) \in Int
<1> DEFINE T == (DOMAIN C \ S) \ K
<1>1. (DOMAIN C \ S) \ (K \ {o}) = T \cup {o} /\ o \notin T
  OBVIOUS
<1>2. IsFiniteSet(T) /\ \A q \in T : C[q] \in Int
  BY FS_Subset
<1>3. ValueBut(C, S, K) = SumFunctionOnSet(C, T)
  BY DEF ValueBut
<1>4. ValueBut(C, S, K \ {o}) = SumFunctionOnSet(C, T \cup {o})
  BY <1>1 DEF ValueBut
<1> HIDE DEF T
<1> QED BY <1>1, <1>2, <1>3, <1>4, SumAdd, SumTyped

\* Coins that do not count leave the value what it is.
LEMMA ValueOfOld ==
  ASSUME NEW C, NEW S, NEW C2, NEW K, DOMAIN C2 = DOMAIN C \cup K, K \cap DOMAIN C = {},
         \A o \in DOMAIN C : C2[o] = C[o], IsFiniteSet(DOMAIN C)
  PROVE  ValueBut(C2, S, K) = ValueBut(C, S, {})
<1> DEFINE T == DOMAIN C \ S
<1>1. (DOMAIN C2 \ S) \ K = T /\ (DOMAIN C \ S) \ {} = T
  OBVIOUS
<1>2. IsFiniteSet(T)
  BY FS_Subset
<1>3. \A o \in T : C2[o] = C[o]
  OBVIOUS
<1>4. ValueBut(C2, S, K) = SumFunctionOnSet(C2, T) /\ ValueBut(C, S, {}) = SumFunctionOnSet(C, T)
  BY <1>1 DEF ValueBut
<1> HIDE DEF T
<1> QED BY <1>2, <1>3, <1>4, SumSame

\* What is left to do in a block when one of its payments is done.
LEMMA LeftToDo ==
  ASSUME DistinctPayments, NEW b \in 1 .. Len(Chain), NEW p \in Nat
  PROVE  /\ ToCredit(b, p + 1) = ToCredit(b, p) \ {p}
         /\ p > Len(Chain[b]) => ToCredit(b, p) = {}
         /\ ToCredit(b, 1) = OwnPositions(b)
         /\ p \in OwnPositions(b) =>
              /\ p \in ToCredit(b, p)
              /\ KeysAt(b, ToCredit(b, p) \ {p})
                   = KeysAt(b, ToCredit(b, p)) \ {PaidKey(b, p)}
         /\ KeysAt(b, {}) = {} /\ KeysAt(b, OwnPositions(b)) = OwnOutpoints(b)
<1>1. OwnPositions(b) \subseteq 1 .. Len(Chain[b]) /\ Len(Chain[b]) \in Nat
  BY PaidTyped
<1>2. /\ ToCredit(b, p + 1) = ToCredit(b, p) \ {p}
      /\ p > Len(Chain[b]) => ToCredit(b, p) = {}
      /\ ToCredit(b, 1) = OwnPositions(b)
      /\ p \in OwnPositions(b) => p \in ToCredit(b, p)
  BY <1>1 DEF ToCredit
<1>3. ASSUME p \in OwnPositions(b)
      PROVE  KeysAt(b, ToCredit(b, p) \ {p}) = KeysAt(b, ToCredit(b, p)) \ {PaidKey(b, p)}
  <2>1. \A i, j \in OwnPositions(b) : PaidKey(b, i) = PaidKey(b, j) => i = j
    BY PaidKeysDiffer
  <2>2. ToCredit(b, p) \subseteq OwnPositions(b)
    BY DEF ToCredit
  <2> QED BY <1>3, <2>1, <2>2 DEF KeysAt
<1>4. KeysAt(b, {}) = {} /\ KeysAt(b, OwnPositions(b)) = OwnOutpoints(b)
  BY PaidTyped DEF KeysAt
<1> QED BY <1>2, <1>3, <1>4

\* When all is quiet the wallet rests.
LEMMA QuietRests ==
  ASSUME WalletInv, UnderWay, Quiet
  PROVE  Resting /\ subscribed
<1>0. Sync \in Threads
  BY SyncIsThread
<1>1. CASE Resting
  BY <1>0, <1>1 DEF Resting, Quiet, Idle
<1>2. ASSUME NEW t \in Threads \ {Sync}, Receiving(t) PROVE FALSE
  BY <1>2 DEF Receiving, ScansLast, Quiet, Idle, BlockPCs, OutputPCs
<1>3. ASSUME NEW i \in Sends, Sending(i) PROVE Resting /\ subscribed
  <2>1. /\ subscribed /\ Counted(height) /\ Idle /\ AllFinished /\ Finished(i)
        /\ send[i].pc # "idle"
    BY <1>3 DEF Sending, SendsAlone, Quiet, AllFinished
  <2>2. send[i].pc = "over" /\ marker[i].pc = "idle" /\ changer[i].pc = "idle"
        /\ balancer[i].pc = "idle"
    BY <2>1 DEF Finished
  <2>3. Balanced(NodeValue)
    BY <1>3, <2>2 DEF Sending, TakesCost
  <2>4. ToAdd(i) = {} /\ ToMark(i) = {}
    BY <2>2 DEF ToAdd, ToMark, Unlisted
  <2>5. Agrees(memUtxos, nodeCoins, nodeSpent, DOMAIN dbUtxos, {}, {})
    BY <1>3, <2>4 DEF Sending, ListsCall
  <2> QED BY <1>0, <2>1, <2>3, <2>5 DEF Resting, Idle
<1> QED BY <1>1, <1>2, <1>3 DEF UnderWay

\* A list without repetitions is as long as the set of what it lists.
LEMMA ListedCount ==
  ASSUME NEW s \in Seq(UtxoRecords), NoneTwice(s)
  PROVE  Len(s) = Cardinality(Listed(s))
<1> DEFINE f == [j \in 1 .. Len(s) |-> Outpoint(s[j])]
<1>1. f \in Bijection(1 .. Len(s), Listed(s))
  <2>0. DOMAIN s = 1 .. Len(s)
    OBVIOUS
  <2>1. f \in Surjection(1 .. Len(s), Listed(s))
    BY <2>0 DEF Surjection, Listed
  <2>2. f \in Injection(1 .. Len(s), Listed(s))
    BY <2>0 DEF Injection, IsInjective, Listed, NoneTwice
  <2> QED BY <2>1, <2>2 DEF Bijection
<1> HIDE DEF f
<1>2. IsFiniteSet(1 .. Len(s)) /\ Cardinality(1 .. Len(s)) = Len(s)
  <2>1. Len(s) \in Nat
    OBVIOUS
  <2> QED BY <2>1, FS_Interval
<1>3. Cardinality(1 .. Len(s)) = Cardinality(Listed(s))
  BY <1>1, <1>2, FS_Bijection DEF ExistsBijection
<1> QED BY <1>2, <1>3

\* At rest the wallet agrees with the node.
LEMMA CalmIsExact == WalletInv /\ CalmInv => WalletExact
<1> SUFFICES ASSUME WalletInv, CalmInv, Quiet, ~overlapped, NoFailure
             PROVE  /\ memScanned = height /\ dbScanned = height
                    /\ memBalance = NodeValue /\ dbBalance = NodeValue
                    /\ {Outpoint(u) : u \in Range(memUtxos)} = DOMAIN nodeCoins
                    /\ {Outpoint(u) : u \in {v \in Range(memUtxos) : v.spent}} = nodeSpent
                    /\ Len(memUtxos) = Cardinality(DOMAIN nodeCoins)
  BY DEF WalletExact
<1>1. Resting
  BY QuietRests DEF CalmInv, Calm
<1>2. Agrees(memUtxos, nodeCoins, nodeSpent, DOMAIN dbUtxos, {}, {})
  BY <1>1 DEF Resting
<1>3. memUtxos \in Seq(UtxoRecords)
  BY DEF WalletInv, WalletTypeOK, ScanTypeOK, StoreTypeOK
<1>4. /\ {Outpoint(u) : u \in Range(memUtxos)} = Listed(memUtxos)
      /\ {Outpoint(u) : u \in {v \in Range(memUtxos) : v.spent}} = Marked(memUtxos)
  BY DEF Listed, Marked, Range
<1>5. Listed(memUtxos) = DOMAIN nodeCoins /\ Marked(memUtxos) = nodeSpent /\ NoneTwice(memUtxos)
  BY <1>2 DEF Agrees
<1>6. Len(memUtxos) = Cardinality(Listed(memUtxos))
  BY <1>3, <1>5, ListedCount
<1> QED BY <1>1, <1>4, <1>5, <1>6 DEF Resting, Counted, Balanced

\* The steps of sending are those of a call that is not finished.
LEMMA SendsUnfinished ==
  ASSUME WalletInv, NEW i \in Sends, SendStep(i)
  PROVE  ~Finished(i)
<1>1. CASE HandlerStep(i)
  BY <1>1 DEF HandlerStep, Select, SelectFails, Broadcast, ReplyLost, NodeAccepts, Rejected,
              SendFails, UpdateWallet, Finished
<1>2. CASE MarkerStep(i)
  BY <1>2 DEF MarkerStep, MarkInDb, MarkSkips, MarkInMemory, MarkEnds, Finished
<1>3. CASE ChangeStep(i)
  BY <1>3 DEF ChangeStep, ChangeSave, ChangeSaveFails, ChangeAppend, ChangeCopy, ChangeStore,
              Finished
<1>4. CASE BalancerStep(i)
  BY <1>4 DEF BalancerStep, BalanceSave, BalanceSaveFails, BalanceSet, Finished
<1> QED BY <1>1, <1>2, <1>3, <1>4 DEF SendStep

\* Those of scanning a block are steps of a goroutine that is in it.
LEMMA ReceivesInBlock ==
  ASSUME WalletInv, NEW t \in Threads, ReceiveStep(t)
  PROVE  scan[t].pc \in BlockPCs
<1>1. CASE ScanAppend(t) \/ ScanCopy(t) \/ ScanStore(t)
  BY <1>1 DEF ScanAppend, AppendReceived, ScanCopy, ScanStore, WalletInv, MutexInv, BlockPCs,
              OutputPCs
<1>2. CASE ScanElse(t)
  BY <1>2 DEF ScanElse, FetchBlockFails, SkipOutput, SaveReceived, SaveReceivedFails, Received,
              AtOutput, ReadBalance, SaveCredit, SaveCreditFails, SetCredit, ReadScanned,
              SaveAdvance, SaveAdvanceFails, SetAdvance, BlockPCs, OutputPCs
<1> QED BY <1>1, <1>2 DEF ReceiveStep

-----------------------------------------------------------------------------
(* Steps of a wallet that rests. *)

\* The catch-up finds no block missing.
LEMMA CatchUpRests ==
  ASSUME WalletInv, UnderWay, CatchUpStep, UNCHANGED faults
  PROVE  Resting'
<1>0. /\ faults \in Nat /\ scan \in [Threads -> ScanRecords] /\ Sync \in Threads
  BY ScansTyped
<1>1. /\ UNCHANGED <<spendVars, storeVars, height>>
      /\ scan[Sync].pc \in {"count", "loop"}
  BY DEF CatchUpStep, SyncStep, GetBlockCount, GetBlockCountFails, FetchMissingBlock, Subscribe
<1>2. ~Idle
  BY <1>0, <1>1 DEF Idle
<1>3. \A t \in Threads \ {Sync} : ~Receiving(t)
  BY <1>0, <1>1 DEF Receiving, ScansLast
<1>4. Resting
  BY <1>2, <1>3 DEF UnderWay, Sending, SendsAlone
<1>5. height = 0 /\ target = 0 /\ memScanned = 0
  BY <1>1, <1>4 DEF Resting, Counted
<1>6. \A t \in Threads \ {Sync} : scan'[t] = scan[t]
  BY <1>0 DEF CatchUpStep, SyncStep, GetBlockCount, GetBlockCountFails, FetchMissingBlock,
              Subscribe, Go
<1>7. IF scan'[Sync].pc = "idle" THEN subscribed'
      ELSE scan'[Sync].pc \in {"count", "loop"} /\ height' = 0 /\ target' = 0
  <2>1. CASE GetBlockCount
    BY <1>0, <1>1, <1>5, <2>1 DEF GetBlockCount, Go, ScanRecords
  <2>2. CASE GetBlockCountFails
    BY <1>0, <2>2 DEF GetBlockCountFails, Fault
  <2>3. CASE FetchMissingBlock
    BY <1>5, <2>3 DEF FetchMissingBlock
  <2>4. CASE Subscribe
    BY <1>0, <2>4 DEF Subscribe, Go, ScanRecords
  <2> QED BY <2>1, <2>2, <2>3, <2>4 DEF CatchUpStep, SyncStep
<1>8. NodeValue' = NodeValue
  BY <1>1 DEF NodeValue, spendVars
<1>9. AllFinished'
  BY <1>1, <1>4 DEF Resting, AllFinished, Finished, spendVars
<1>10. Counted(height)' /\ Balanced(NodeValue)'
  BY <1>1, <1>4, <1>8 DEF Resting, Counted, Balanced, storeVars
<1>11. Agrees(memUtxos', nodeCoins', nodeSpent', DOMAIN dbUtxos', {}, {})
  BY <1>1, <1>4 DEF Resting, storeVars, spendVars
<1> QED BY <1>4, <1>6, <1>7, <1>9, <1>10, <1>11 DEF Resting

\* What the node knows of, and where the wallet looks, when no block comes and
\* nothing is paid.
LEMMA NodeKept ==
  ASSUME NodeInv, UNCHANGED <<nodeCoins, height>>, \A i \in Sends : Early(i)' => Early(i)
  PROVE  NodeInv'
BY DEF NodeInv

LEMMA LooksOn ==
  ASSUME LookedAt, UNCHANGED <<height, filter>>, addresses \subseteq addresses'
  PROVE  LookedAt'
BY DEF LookedAt

\* A block comes: the wallet looks at all addresses that it pays, and one
\* goroutine scans it.
LEMMA MineCalm ==
  ASSUME DistinctPayments, EachIsTold, WalletInv, WalletInv', NodeInv, LookedAt,
         Resting, Idle, subscribed, Mine
  PROVE  NodeInv' /\ LookedAt' /\ UnderWay'
<1>a. PICK h : h = height + 1
  OBVIOUS
<1>0. /\ scan \in [Threads -> ScanRecords] /\ Sync \in Threads /\ Sync[1] = 0
      /\ WalletTypeOK /\ height \in 0 .. Len(Chain) /\ Len(Chain) \in Nat
      /\ memUtxos \in Seq(UtxoRecords) /\ addresses \in SUBSET (InitAddrs \cup NewAddrs)
  <2>1. WalletTypeOK
    BY DEF WalletInv
  <2>2. Len(Chain) \in Nat
    BY ChainAssumption
  <2> QED BY <2>1, <2>2, ScansTyped DEF WalletTypeOK, ScanTypeOK, StoreTypeOK
<1>1. /\ height < Len(Chain) /\ height' = h
      /\ \A i \in DOMAIN Chain[h] : Chain[h][i].addr \in NewAddrs => Chain[h][i].addr \in addresses
      /\ UNCHANGED <<storeVars, addresses, filter, subscribed, target, faults, crashes>>
      /\ nodeCoins' = [o \in DOMAIN nodeCoins \cup OwnOutpoints(h) |->
                         IF o \in DOMAIN nodeCoins THEN nodeCoins[o] ELSE NewCoins(h)[o]]
      /\ UNCHANGED <<nodeSpent, send, marker, changer, balancer, moving>>
  BY <1>a DEF Mine, MineBlock, workerVars
<1>2. h \in 1 .. Len(Chain) /\ h \in Nat /\ h > height
  BY <1>0, <1>1, <1>a
<1>3. PICK p : Publishers = {p}
  <2>1. Cardinality(Publishers) = 1 /\ IsFiniteSet(Publishers)
    BY NodeAssumption DEF EachIsTold
  <2> QED BY <2>1, FS_Singleton
<1>b. PICK t : t = <<h, p>>
  OBVIOUS
<1>4. t \in Threads \ {Sync}
  BY <1>0, <1>2, <1>3, <1>b DEF Threads
<1>5. scan' = [u \in Threads |->
                 IF subscribed /\ u[1] = h /\ u[2] \in Publishers THEN ThreadAt("outputs", h)
                 ELSE scan[u]]
  BY <1>a DEF Mine, MineBlock, EachIsTold
<1>6. scan'[t] = ThreadAt("outputs", h)
  BY <1>3, <1>4, <1>5, <1>b
<1>7. ASSUME NEW u \in Threads \ {t} PROVE scan'[u].pc = "idle"
  <2>1. u = Sync \/ \E b \in 1 .. Len(Chain) : u = <<b, p>>
    BY <1>3, <1>b DEF Threads
  <2>2. u[1] # h
    BY <1>0, <1>2, <1>b, <2>1
  <2> QED BY <1>5, <2>2 DEF Idle
<1>8. /\ OwnOutpoints(h) \cap DOMAIN nodeCoins = {}
      /\ DOMAIN nodeCoins' = DOMAIN nodeCoins \cup OwnOutpoints(h)
      /\ \A o \in DOMAIN nodeCoins : nodeCoins'[o] = nodeCoins[o]
      /\ \A o \in OwnOutpoints(h) : nodeCoins'[o] = NewCoins(h)[o]
  <2>1. OwnOutpoints(h) \cap DOMAIN nodeCoins = {}
    BY <1>0, <1>1, KeysApart, <1>a
  <2> QED BY <1>1, <2>1
<1>9. NodeInv'
  <2>1. \A b \in 1 .. h : b \in 1 .. height \/ b = h
    BY <1>0, <1>a
  <2>2. \A b \in 1 .. height : b \in 1 .. h
    BY <1>0, <1>a
  <2>3. \A i \in OwnPositions(h) : /\ PaidKey(h, i) \in OwnOutpoints(h)
                                   /\ NewCoins(h)[PaidKey(h, i)] = Chain[h][i].value
    BY <1>2, NewCoinsAre
  <2>4. ASSUME NEW o \in DOMAIN nodeCoins'
        PROVE  \/ \E b \in 1 .. h : \E i \in OwnPositions(b) : o = PaidKey(b, i)
               \/ \E i \in Sends : ~Early(i)' /\ o = ChangeKey(i)
    <3>1. CASE o \in DOMAIN nodeCoins
      BY <1>1, <2>2, <3>1 DEF NodeInv, Early
    <3>2. CASE o \in OwnOutpoints(h)
      BY <1>2, <3>2, PaidTyped
    <3> QED BY <1>8, <3>1, <3>2
  <2>5. ASSUME NEW b \in 1 .. h, NEW i \in OwnPositions(b)
        PROVE  /\ PaidKey(b, i) \in DOMAIN nodeCoins'
               /\ nodeCoins'[PaidKey(b, i)] = Chain[b][i].value
    <3>1. CASE b = h
      BY <1>8, <2>3, <3>1
    <3>2. CASE b \in 1 .. height
      BY <1>8, <3>2 DEF NodeInv
    <3> QED BY <2>1, <3>1, <3>2
  <2> QED BY <1>1, <2>4, <2>5 DEF NodeInv
<1>10. LookedAt'
  <2>1. \A b \in 1 .. h : b \in 1 .. height \/ b = h
    BY <1>0, <1>a
  <2>2. \A i \in OwnPositions(h) : Chain[h][i].addr \in addresses
    BY <1>1 DEF OwnPositions, LookedAt
  <2> QED BY <1>1, <2>1, <2>2 DEF LookedAt
<1>11. /\ scan'[t].pc = "outputs" /\ scan'[t].block = h /\ scan'[t].pos = 1
       /\ KeysAt(h, ToCredit(h, 1)) = OwnOutpoints(h)
  <2>1. ToCredit(h, 1) = OwnPositions(h) /\ KeysAt(h, OwnPositions(h)) = OwnOutpoints(h)
    BY <1>2, LeftToDo
  <2> QED BY <1>6, <2>1 DEF ThreadAt
<1>12. ScansLast(t)'
  <2>1. AllFinished'
    BY <1>1 DEF Resting, AllFinished, Finished
  <2> QED BY <1>1, <1>2, <1>7, <1>11, <2>1 DEF ScansLast, BlockPCs, OutputPCs
<1>13. CountsLast(t)'
  BY <1>0, <1>1, <1>a, <1>11 DEF CountsLast, Resting, Counted, storeVars
<1>14. ListsLast(t)'
  <2>1. Agrees(memUtxos, nodeCoins, nodeSpent, DOMAIN dbUtxos, {}, {})
    BY DEF Resting
  <2>2. Agrees(memUtxos, nodeCoins', nodeSpent, DOMAIN dbUtxos, OwnOutpoints(h), {})
    BY <1>0, <1>8, <2>1, AgreesMore
  <2>3. KeysAt(height', ToList(height', scan'[t].pos, scan'[t].pc)) = OwnOutpoints(h)
    BY <1>1, <1>11 DEF ToList
  <2> QED BY <1>1, <2>2, <2>3 DEF ListsLast, storeVars
<1>15. CreditsLast(t)'
  <2>1. OwnOutpoints(h) \cap nodeSpent = {} /\ IsFiniteSet(DOMAIN nodeCoins)
    BY <1>0, <1>8, CoinsTyped
  <2>2. ValueBut(nodeCoins', nodeSpent, OwnOutpoints(h)) = NodeValue
    BY <1>0, <1>8, <2>1, ValueOfOld, CoinsTyped
  <2>3. memBalance = NodeValue /\ dbBalance = NodeValue
    BY DEF Resting, Balanced
  <2> QED BY <1>1, <1>11, <2>1, <2>2, <2>3 DEF CreditsLast, storeVars
<1> QED BY <1>4, <1>9, <1>10, <1>12, <1>13, <1>14, <1>15 DEF UnderWay, Receiving

\* A call comes.
LEMMA CallCalm ==
  ASSUME WalletInv, NodeInv, LookedAt, Resting, Idle, subscribed,
         NEW i \in Sends, NEW amount \in Amounts, Call(i, amount)
  PROVE  NodeInv' /\ LookedAt' /\ UnderWay'
<1>0. send \in [Sends -> SendStates]
  BY ScansTyped
<1>1. /\ UNCHANGED <<storeVars, nodeVars, workerVars, scanVars, moving>>
      /\ send[i].pc = "idle" /\ AllFinished
      /\ \A k \in Sends \ {i} : send'[k] = send[k]
      /\ send'[i].pc \in {"over", "select"}
  BY <1>0 DEF Call, CheckFunds, Resting, SendStates
<1>2. marker[i].pc = "idle" /\ changer[i].pc = "idle" /\ balancer[i].pc = "idle"
  BY <1>1 DEF AllFinished, Finished
<1>3. NodeInv' /\ LookedAt'
  <2>1. \A k \in Sends : Early(k)' => Early(k)
    BY <1>1 DEF Early
  <2> QED BY <1>1, <2>1, NodeKept, LooksOn DEF nodeVars, scanVars
<1>4. UNCHANGED <<marker, changer, balancer>>
  BY <1>1 DEF workerVars
<1>5. SendsAlone(i)'
  <2>1. Idle' /\ subscribed' /\ Counted(height)'
    BY <1>1 DEF Idle, scanVars, storeVars, Resting, Counted
  <2>2. \A k \in Sends \ {i} : Finished(k)'
    BY <1>1, <1>4 DEF AllFinished, Finished
  <2> QED BY <1>1, <1>2, <1>4, <2>1, <2>2 DEF SendsAlone
<1>6. HasInputs(i)' /\ HasMarks(i)' /\ HasChange(i)' /\ ToAdd(i)' = {} /\ ToMark(i)' = {}
  BY <1>1, <1>2, <1>4 DEF HasInputs, HasMarks, HasChange, ToMark, ToAdd, Unlisted
<1>7. ListsCall(i)'
  BY <1>1, <1>6 DEF ListsCall, Resting, storeVars, nodeVars
<1>8. TakesCost(i)'
  <2>1. NodeValue' = NodeValue
    BY <1>1 DEF NodeValue, nodeVars
  <2> QED BY <1>1, <1>2, <1>4, <2>1 DEF TakesCost, Resting, Balanced, storeVars
<1> QED BY <1>3, <1>5, <1>6, <1>7, <1>8 DEF UnderWay, Sending

\* An address is issued, or nothing happens.
LEMMA StillCalm ==
  ASSUME WalletInv, NodeInv, LookedAt, UnderWay, addresses \subseteq addresses',
         UNCHANGED <<storeVars, spendVars, height, filter, subscribed, target, scan, moving>>
  PROVE  NodeInv' /\ LookedAt' /\ UnderWay'
<1>1. /\ UNCHANGED <<memUtxos, memBalance, memScanned, dbUtxos, dbBalance, dbScanned>>
      /\ UNCHANGED <<nodeCoins, nodeSpent, send, marker, changer, balancer>>
  BY DEF storeVars, spendVars
<1>2. NodeInv' /\ LookedAt'
  BY <1>1, NodeKept, LooksOn DEF Early
<1>3. NodeValue' = NodeValue /\ (AllFinished <=> AllFinished')
  BY <1>1 DEF NodeValue, AllFinished, Finished
<1>4. CASE Resting
  <2>1. Resting'
    BY <1>1, <1>3, <1>4 DEF Resting, Counted, Balanced
  <2> QED BY <1>2, <2>1 DEF UnderWay
<1>5. ASSUME NEW t \in Threads \ {Sync}, Receiving(t) PROVE Receiving(t)'
  BY <1>1, <1>3, <1>5 DEF Receiving, ScansLast, CountsLast, ListsLast, CreditsLast
<1>6. ASSUME NEW i \in Sends, Sending(i) PROVE Sending(i)'
  <2>1. SendsAlone(i)'
    BY <1>1, <1>6 DEF Sending, SendsAlone, Idle, Finished, Counted
  <2>2. ToMark(i)' = ToMark(i) /\ ToAdd(i)' = ToAdd(i) /\ Cost(i)' = Cost(i)
        /\ Change(i)' = Change(i) /\ (Unlisted(i) <=> Unlisted(i)')
    BY <1>1, ChangeSettled DEF ToMark, ToAdd, Unlisted
  <2>3. HasInputs(i)' /\ HasMarks(i)'
    BY <1>1, <1>6, <2>2 DEF Sending, HasInputs, HasMarks, Exists
  <2>4. HasChange(i)' /\ ListsCall(i)'
    BY <1>1, <1>6, <2>2 DEF Sending, HasChange, ListsCall, Exists, Outpoint
  <2>5. TakesCost(i)'
    BY <1>1, <1>3, <1>6, <2>2 DEF Sending, TakesCost, Balanced
  <2> QED BY <2>1, <2>3, <2>4, <2>5 DEF Sending
<1> QED BY <1>2, <1>4, <1>5, <1>6 DEF UnderWay

-----------------------------------------------------------------------------
(* Steps of the goroutine that scans the last block. *)

\* What it does not touch.
LEMMA ReceiveFrame ==
  ASSUME WalletInv, NEW t \in Threads, ReceiveStep(t), UNCHANGED faults
  PROVE  /\ UNCHANGED <<nodeCoins, nodeSpent, send, marker, changer, balancer>>
         /\ UNCHANGED <<height, addresses, filter, subscribed, target>>
         /\ \A u \in Threads \ {t} : scan'[u] = scan[u]
         /\ ~Fault /\ (AllFinished => AllFinished')
<1>0. faults \in Nat /\ scan \in [Threads -> ScanRecords]
  BY ScansTyped
<1>1. ~Fault
  BY <1>0 DEF Fault
<1>2. /\ UNCHANGED <<height, addresses, filter, subscribed, target>>
      /\ \A u \in Threads \ {t} : scan'[u] = scan[u]
  <2>1. CASE ScanAppend(t) \/ ScanStore(t)
    BY <1>0, <2>1 DEF ScanAppend, AppendReceived, ScanStore, Go
  <2>2. CASE ScanCopy(t)
    BY <1>0, <2>2 DEF ScanCopy, allScanVars, scanVars
  <2>3. CASE ScanElse(t)
    BY <1>0, <1>1, <2>3 DEF ScanElse, FetchBlockFails, SkipOutput, SaveReceived, SaveReceivedFails,
         ReadBalance, SaveCredit, SaveCreditFails, SetCredit, ReadScanned, SaveAdvance,
         SaveAdvanceFails, SetAdvance, Go, GoWith, NextOutput, Return
  <2> QED BY <2>1, <2>2, <2>3 DEF ReceiveStep
<1>3. UNCHANGED <<nodeCoins, nodeSpent, send, marker, changer, balancer>>
  BY DEF ReceiveStep, spendVars
<1> QED BY <1>1, <1>2, <1>3 DEF AllFinished, Finished

\* It stays in its block.
LEMMA ScansOn ==
  ASSUME WalletInv, NEW t \in Threads, ScansLast(t), ReceiveStep(t), UNCHANGED faults,
         scan'[t].pc \in BlockPCs, scan'[t].block = scan[t].block,
         scan'[t].pc \in OutputPCs => scan'[t].pos \in OwnPositions(height),
         scan'[t].pc = "append" =>
           /\ PaidKey(height, scan'[t].pos) \in DOMAIN dbUtxos'
           /\ moving' # <<>> =>
                moving' = <<t, Append(memUtxos', NewUtxo(Chain[height][scan'[t].pos]))>>
  PROVE  ScansLast(t)'
BY ReceiveFrame DEF ScansLast

\* What it has at hand.
LEMMA AtLast ==
  ASSUME DistinctPayments, EachIsTold, WalletInv, NodeInv, LookedAt,
         NEW t \in Threads \ {Sync}, Receiving(t)
  PROVE  /\ height \in 1 .. Len(Chain) /\ scan[t].block = height /\ scan[t].pos \in Nat \ {0}
         /\ memUtxos \in Seq(UtxoRecords) /\ memBalance \in Int
         /\ Block(t) = Chain[height] /\ Current(t) = Chain[height][scan[t].pos]
         /\ AtOutput(t) => (scan[t].pos \in OwnPositions(height) <=> Received(t))
         /\ scan[t].pos \in OwnPositions(height) =>
              /\ Outpoint(NewUtxo(Current(t))) = PaidKey(height, scan[t].pos)
              /\ NewUtxo(Current(t)) \in UtxoRecords /\ ~NewUtxo(Current(t)).spent
              /\ NewUtxo(Current(t)).value = Chain[height][scan[t].pos].value
              /\ PaidKey(height, scan[t].pos) \in DOMAIN nodeCoins
              /\ nodeCoins[PaidKey(height, scan[t].pos)] = Chain[height][scan[t].pos].value
<1>0. /\ height \in 0 .. Len(Chain) /\ Len(Chain) \in Nat /\ scan[t].pos \in Nat \ {0}
      /\ memUtxos \in Seq(UtxoRecords) /\ memBalance \in Int
      /\ addresses \in SUBSET (InitAddrs \cup NewAddrs)
  <2>1. ScanTypeOK
    BY ScansTyped
  <2>2. Len(Chain) \in Nat
    BY ChainAssumption
  <2> QED BY <2>1, <2>2 DEF ScanTypeOK, StoreTypeOK
<1>1. scan[t].block = height /\ height \in 1 .. Len(Chain) /\ height \in 1 .. height
  BY <1>0 DEF Receiving, ScansLast
<1>2. Block(t) = Chain[height] /\ Current(t) = Chain[height][scan[t].pos]
  BY <1>1 DEF Block, Current
<1>3. ASSUME AtOutput(t), scan[t].pos \in OwnPositions(height) PROVE Received(t)
  <2>1. Current(t).addr \in addresses
    BY <1>1, <1>2, <1>3 DEF LookedAt
  <2>2. CASE Node = "core"
    BY <1>3, <2>1, <2>2 DEF Received, Delivered, UsesScanBlock
  <2>3. CASE NewAddrs = {}
    <3>1. Current(t).addr \in filter
      BY <1>0, <2>1, <2>3 DEF LookedAt
    <3>2. scan[t].pos \in DOMAIN Block(t)
      BY <1>2, <1>3 DEF OwnPositions
    <3>3. Delivered(t)
      BY <3>1, <3>2 DEF Delivered, Current
    <3> QED BY <1>3, <2>1, <3>3 DEF Received
  <2> QED BY <2>2, <2>3 DEF EachIsTold
<1>4. ASSUME AtOutput(t), Received(t) PROVE scan[t].pos \in OwnPositions(height)
  <2>1. Current(t).addr \in InitAddrs \cup NewAddrs
    BY <1>0, <1>4 DEF Received
  <2>2. scan[t].pos \in DOMAIN Chain[height]
    <3>1. scan[t].pos <= Len(Chain[height])
      BY <1>2, <1>4 DEF AtOutput
    <3>2. DOMAIN Chain[height] = 1 .. Len(Chain[height]) /\ Len(Chain[height]) \in Nat
      BY <1>1, PaidTyped
    <3> QED BY <1>0, <3>1, <3>2
  <2> QED BY <1>2, <2>1, <2>2 DEF OwnPositions
<1>5. ASSUME scan[t].pos \in OwnPositions(height)
      PROVE  /\ Outpoint(NewUtxo(Current(t))) = PaidKey(height, scan[t].pos)
             /\ NewUtxo(Current(t)) \in UtxoRecords /\ ~NewUtxo(Current(t)).spent
             /\ NewUtxo(Current(t)).value = Chain[height][scan[t].pos].value
             /\ PaidKey(height, scan[t].pos) \in DOMAIN nodeCoins
             /\ nodeCoins[PaidKey(height, scan[t].pos)] = Chain[height][scan[t].pos].value
  <2>1. PaidKey(height, scan[t].pos) = Outpoint(Current(t))
    BY <1>2 DEF PaidKey
  <2>2. /\ PaidKey(height, scan[t].pos) \in DOMAIN nodeCoins
        /\ nodeCoins[PaidKey(height, scan[t].pos)] = Chain[height][scan[t].pos].value
    BY <1>1, <1>5 DEF NodeInv
  <2>3. scan[t].pos \in DOMAIN Chain[height]
    BY <1>5 DEF OwnPositions
  <2> QED BY <1>1, <1>2, <2>1, <2>2, <2>3, PaidTyped, NewOutpoint
<1> QED BY <1>0, <1>1, <1>2, <1>3, <1>4, <1>5

\* It lists a payment.
LEMMA ListsOne ==
  ASSUME DistinctPayments, EachIsTold, WalletInv, NodeInv, LookedAt,
         NEW t \in Threads \ {Sync}, Receiving(t), ReceiveStep(t), UNCHANGED faults,
         scan[t].pc = "append", scan'[t] = [scan[t] EXCEPT !.pc = "read"],
         memUtxos' = Append(memUtxos, NewUtxo(Current(t))),
         UNCHANGED <<memBalance, memScanned, dbVars>>
  PROVE  Receiving(t)'
<1>1. PICK b : b = height
  OBVIOUS
<1>2. PICK p : p = scan[t].pos
  OBVIOUS
<1>3. /\ scan'[t].pc = "read" /\ scan'[t].block = scan[t].block /\ scan'[t].pos = p
      /\ scan'[t].local = scan[t].local
  <2>1. scan[t] \in ScanRecords
    BY ScansTyped
  <2> QED BY <1>2, <2>1 DEF ScanRecords
<1>4. /\ UNCHANGED <<nodeCoins, nodeSpent, height>> /\ b \in 1 .. Len(Chain) /\ p \in Nat
      /\ p \in OwnPositions(b) /\ memUtxos \in Seq(UtxoRecords)
      /\ UNCHANGED <<dbUtxos, dbBalance, dbScanned>>
  BY <1>1, <1>2, ReceiveFrame, AtLast DEF Receiving, ScansLast, OutputPCs, dbVars
<1>5. ScansLast(t)'
  BY <1>1, <1>3, <1>4, ScansOn DEF Receiving, BlockPCs, OutputPCs
<1>6. CountsLast(t)'
  BY <1>3, <1>4 DEF Receiving, CountsLast
<1>7. ListsLast(t)'
  <2>1. Agrees(memUtxos, nodeCoins, nodeSpent, DOMAIN dbUtxos, KeysAt(b, ToCredit(b, p)), {})
    BY <1>1, <1>2 DEF Receiving, ListsLast, ToList
  <2>2. /\ PaidKey(b, p) \in DOMAIN dbUtxos /\ PaidKey(b, p) \in KeysAt(b, ToCredit(b, p))
        /\ KeysAt(b, ToCredit(b, p) \ {p}) = KeysAt(b, ToCredit(b, p)) \ {PaidKey(b, p)}
    <3>1. PaidKey(b, p) \in DOMAIN dbUtxos
      BY <1>1, <1>2 DEF Receiving, ScansLast
    <3>2. p \in ToCredit(b, p)
      BY <1>4, LeftToDo
    <3> QED BY <1>4, <3>1, <3>2, LeftToDo DEF KeysAt
  <2>3. /\ Outpoint(NewUtxo(Current(t))) = PaidKey(b, p) /\ NewUtxo(Current(t)) \in UtxoRecords
        /\ ~NewUtxo(Current(t)).spent /\ PaidKey(b, p) \in DOMAIN nodeCoins
        /\ NewUtxo(Current(t)).value = nodeCoins[PaidKey(b, p)]
    BY <1>1, <1>2, <1>4, AtLast
  <2>4. Agrees(memUtxos', nodeCoins, nodeSpent, DOMAIN dbUtxos,
               KeysAt(b, ToCredit(b, p)) \ {PaidKey(b, p)}, {})
    BY <1>4, <2>1, <2>2, <2>3, AgreesAppend
  <2>5. ToList(height', scan'[t].pos, scan'[t].pc) = ToCredit(b, p) \ {p}
    BY <1>1, <1>3, <1>4 DEF ToList
  <2> QED BY <1>1, <1>4, <2>2, <2>4, <2>5 DEF ListsLast
<1>8. CreditsLast(t)'
  BY <1>2, <1>3, <1>4 DEF Receiving, CreditsLast
<1> QED BY <1>5, <1>6, <1>7, <1>8 DEF Receiving

\* It lists a payment, from the slice or from its copy.
LEMMA AppendCalm ==
  ASSUME DistinctPayments, EachIsTold, WalletInv, NodeInv, LookedAt,
         NEW t \in Threads \ {Sync}, Receiving(t), ReceiveStep(t), UNCHANGED faults,
         ScanAppend(t) \/ ScanCopy(t) \/ ScanStore(t)
  PROVE  Receiving(t)'
<1>0. /\ scan \in [Threads -> ScanRecords] /\ Current(t) = Chain[height][scan[t].pos]
      /\ memUtxos \in Seq(UtxoRecords)
  BY ScansTyped, AtLast
<1>1. CASE ScanAppend(t)
  <2>1. /\ scan[t].pc = "append" /\ scan'[t] = [scan[t] EXCEPT !.pc = "read"]
        /\ memUtxos' = Append(memUtxos, NewUtxo(Current(t)))
        /\ UNCHANGED <<memBalance, memScanned, dbVars>>
    BY <1>0, <1>1 DEF ScanAppend, AppendReceived, AppendUtxo, Go
  <2> QED BY <2>1, ListsOne
<1>2. CASE ScanStore(t)
  <2>1. /\ moving # <<>> /\ moving[1] = t /\ memUtxos' = moving[2]
        /\ scan'[t] = [scan[t] EXCEPT !.pc = "read"]
        /\ UNCHANGED <<memBalance, memScanned, dbVars>>
    BY <1>0, <1>2 DEF ScanStore, Go
  <2>2. scan[t].pc = "append"
    BY <2>1 DEF WalletInv, MutexInv
  <2>3. moving = <<t, Append(memUtxos, NewUtxo(Current(t)))>>
    BY <1>0, <2>1, <2>2 DEF Receiving, ScansLast
  <2>4. memUtxos' = Append(memUtxos, NewUtxo(Current(t)))
    BY <2>1, <2>3
  <2> QED BY <2>1, <2>2, <2>4, ListsOne
<1>3. CASE ScanCopy(t)
  <2>1. /\ scan[t].pc = "append" /\ UNCHANGED <<storeVars, scan, height>>
        /\ moving' = <<t, Append(memUtxos, NewUtxo(Chain[height][scan[t].pos]))>>
    BY <1>0, <1>3 DEF ScanCopy, allScanVars, scanVars
  <2>2. /\ UNCHANGED <<memUtxos, memBalance, memScanned, dbUtxos, dbBalance, dbScanned>>
        /\ UNCHANGED <<nodeCoins, nodeSpent>>
    BY <2>1, ReceiveFrame DEF storeVars
  <2>3. ScansLast(t)'
    BY <2>1, <2>2, ScansOn DEF Receiving, ScansLast
  <2> QED BY <2>1, <2>2, <2>3 DEF Receiving, CountsLast, ListsLast, CreditsLast
<1> QED BY <1>1, <1>2, <1>3

\* It looks at an output.
LEMMA OutputCalm ==
  ASSUME DistinctPayments, EachIsTold, WalletInv, NodeInv, LookedAt,
         NEW t \in Threads \ {Sync}, Receiving(t), ReceiveStep(t), UNCHANGED <<faults, moving>>,
         SkipOutput(t) \/ SaveReceived(t)
  PROVE  Receiving(t)'
<1>1. PICK b : b = height
  OBVIOUS
<1>2. PICK p : p = scan[t].pos
  OBVIOUS
<1>3. /\ scan \in [Threads -> ScanRecords] /\ b \in 1 .. Len(Chain) /\ p \in Nat
      /\ memUtxos \in Seq(UtxoRecords) /\ UNCHANGED <<nodeCoins, nodeSpent, height>>
      /\ scan[t].block = b /\ Current(t) = Chain[b][p]
  BY <1>1, <1>2, ScansTyped, AtLast, ReceiveFrame
<1>4. CASE SkipOutput(t)
  <2>1. /\ scan[t].pc = "outputs" /\ scan'[t].pc = "outputs" /\ scan'[t].block = scan[t].block
        /\ scan'[t].pos = p + 1 /\ scan'[t].local = scan[t].local
        /\ UNCHANGED <<memUtxos, memBalance, memScanned, dbUtxos, dbBalance, dbScanned>>
    BY <1>2, <1>3, <1>4 DEF SkipOutput, AtOutput, NextOutput, ScanRecords, storeVars
  <2>2. p \notin OwnPositions(b)
    BY <1>1, <1>2, <1>4, AtLast DEF SkipOutput
  <2>3. ToCredit(b, p + 1) = ToCredit(b, p)
    BY <1>3, <2>2, LeftToDo DEF ToCredit
  <2>4. ScansLast(t)'
    BY <2>1, ScansOn DEF Receiving, BlockPCs, OutputPCs
  <2>5. CountsLast(t)' /\ ListsLast(t)' /\ CreditsLast(t)'
    BY <1>1, <1>2, <1>3, <2>1, <2>3
       DEF Receiving, CountsLast, ListsLast, CreditsLast, ToList
  <2> QED BY <2>4, <2>5 DEF Receiving
<1>5. CASE SaveReceived(t)
  <2>1. /\ scan[t].pc = "outputs" /\ scan'[t].pc = "append" /\ scan'[t].block = scan[t].block
        /\ scan'[t].pos = p /\ scan'[t].local = scan[t].local
        /\ UNCHANGED <<memUtxos, memBalance, memScanned, dbBalance, dbScanned>>
        /\ DOMAIN dbUtxos' = DOMAIN dbUtxos \cup {Outpoint(NewUtxo(Current(t)))}
    BY <1>2, <1>3, <1>5 DEF SaveReceived, SaveUtxo, Received, AtOutput, Go, ScanRecords, memVars
  <2>2. p \in OwnPositions(b) /\ Outpoint(NewUtxo(Current(t))) = PaidKey(b, p)
    BY <1>1, <1>2, <1>5, AtLast DEF SaveReceived, Received
  <2>3. moving' = <<>>
    <3>1. ASSUME moving # <<>> PROVE FALSE
      <4>1. scan[moving[1]].pc = "append" /\ moving[1] \in Threads
        BY <3>1 DEF WalletInv, MutexInv, WalletTypeOK
      <4> QED BY <2>1, <4>1 DEF Receiving, ScansLast
    <3> QED BY <3>1
  <2>4. ScansLast(t)'
    BY <1>1, <2>1, <2>2, <2>3, ScansOn DEF Receiving, BlockPCs, OutputPCs
  <2>5. Agrees(memUtxos, nodeCoins, nodeSpent, DOMAIN dbUtxos', KeysAt(b, ToCredit(b, p)), {})
    <3>1. Agrees(memUtxos, nodeCoins, nodeSpent, DOMAIN dbUtxos, KeysAt(b, ToCredit(b, p)), {})
      BY <1>1, <1>2, <2>1 DEF Receiving, ListsLast, ToList
    <3> QED BY <1>3, <2>1, <3>1, AgreesMore
  <2>6. ListsLast(t)'
    BY <1>1, <1>3, <2>1, <2>5 DEF ListsLast, ToList
  <2>7. CountsLast(t)' /\ CreditsLast(t)'
    BY <1>1, <1>2, <1>3, <2>1 DEF Receiving, CountsLast, CreditsLast
  <2> QED BY <2>4, <2>6, <2>7 DEF Receiving
<1> QED BY <1>4, <1>5

\* It credits a payment.
LEMMA CreditCalm ==
  ASSUME DistinctPayments, EachIsTold, WalletInv, NodeInv, LookedAt,
         NEW t \in Threads \ {Sync}, Receiving(t), ReceiveStep(t), UNCHANGED <<faults, moving>>,
         ReadBalance(t) \/ SaveCredit(t) \/ SetCredit(t)
  PROVE  Receiving(t)'
<1>1. PICK b : b = height
  OBVIOUS
<1>2. PICK p : p = scan[t].pos
  OBVIOUS
<1>3. /\ scan \in [Threads -> ScanRecords] /\ b \in 1 .. Len(Chain) /\ p \in Nat
      /\ UNCHANGED <<nodeCoins, nodeSpent, height>>
      /\ scan[t].block = b /\ Current(t) = Chain[b][p]
  BY <1>1, <1>2, ScansTyped, AtLast, ReceiveFrame
<1>4. scan[t].pc \in {"read", "saveBalance", "setBalance"}
  BY DEF ReadBalance, SaveCredit, SetCredit
<1>5. p \in OwnPositions(b) /\ p \in ToCredit(b, p)
  BY <1>1, <1>2, <1>3, <1>4, LeftToDo DEF Receiving, ScansLast, OutputPCs
<1>6. CASE ReadBalance(t)
  <2>1. /\ scan[t].pc = "read" /\ scan'[t].pc = "saveBalance" /\ scan'[t].block = scan[t].block
        /\ scan'[t].pos = p /\ scan'[t].local = memBalance + Chain[b][p].value
        /\ UNCHANGED <<memUtxos, memBalance, memScanned, dbUtxos, dbBalance, dbScanned>>
    BY <1>2, <1>3, <1>6 DEF ReadBalance, GoWith, ScanRecords, storeVars
  <2>2. ScansLast(t)'
    BY <1>1, <1>5, <2>1, ScansOn DEF Receiving, BlockPCs, OutputPCs
  <2>3. CountsLast(t)' /\ ListsLast(t)' /\ CreditsLast(t)'
    BY <1>1, <1>2, <1>3, <2>1 DEF Receiving, CountsLast, ListsLast, CreditsLast, ToList
  <2> QED BY <2>2, <2>3 DEF Receiving
<1>7. CASE SaveCredit(t)
  <2>1. /\ scan[t].pc = "saveBalance" /\ scan'[t].pc = "setBalance"
        /\ scan'[t].block = scan[t].block /\ scan'[t].pos = p /\ scan'[t].local = scan[t].local
        /\ dbBalance' = scan[t].local
        /\ UNCHANGED <<memUtxos, memBalance, memScanned, dbUtxos, dbScanned>>
    BY <1>2, <1>3, <1>7 DEF SaveCredit, SaveBalance, Go, ScanRecords, memVars
  <2>2. ScansLast(t)'
    BY <1>1, <1>5, <2>1, ScansOn DEF Receiving, BlockPCs, OutputPCs
  <2>3. CountsLast(t)' /\ ListsLast(t)'
    BY <1>1, <1>2, <1>3, <2>1 DEF Receiving, CountsLast, ListsLast, ToList
  <2>4. CreditsLast(t)'
    BY <1>1, <1>2, <1>3, <2>1 DEF Receiving, CreditsLast
  <2> QED BY <2>2, <2>3, <2>4 DEF Receiving
<1>8. CASE SetCredit(t)
  <2>1. /\ scan[t].pc = "setBalance" /\ scan'[t].pc = "outputs" /\ scan'[t].block = scan[t].block
        /\ scan'[t].pos = p + 1 /\ memBalance' = scan[t].local
        /\ UNCHANGED <<memUtxos, memScanned, dbUtxos, dbBalance, dbScanned>>
    BY <1>2, <1>3, <1>8 DEF SetCredit, SetBalance, NextOutput, ScanRecords, dbVars
  <2>2. /\ ToCredit(b, p + 1) = ToCredit(b, p) \ {p}
        /\ KeysAt(b, ToCredit(b, p + 1)) = KeysAt(b, ToCredit(b, p)) \ {PaidKey(b, p)}
    BY <1>3, <1>5, LeftToDo
  <2>3. ScansLast(t)'
    BY <2>1, ScansOn DEF Receiving, BlockPCs, OutputPCs
  <2>4. CountsLast(t)'
    BY <1>1, <1>3, <2>1 DEF Receiving, CountsLast
  <2>5. ListsLast(t)'
    BY <1>1, <1>2, <1>3, <2>1, <2>2 DEF Receiving, ListsLast, ToList
  <2>6. CreditsLast(t)'
    <3>1. /\ KeysAt(b, ToCredit(b, p)) \cap nodeSpent = {}
          /\ memBalance = ValueBut(nodeCoins, nodeSpent, KeysAt(b, ToCredit(b, p)))
          /\ scan[t].local = memBalance + Chain[b][p].value /\ dbBalance = scan[t].local
      BY <1>1, <1>2, <2>1 DEF Receiving, CreditsLast
    <3>2. /\ PaidKey(b, p) \in DOMAIN nodeCoins /\ nodeCoins[PaidKey(b, p)] = Chain[b][p].value
          /\ PaidKey(b, p) \in KeysAt(b, ToCredit(b, p))
      BY <1>1, <1>2, <1>5, AtLast DEF KeysAt
    <3>3. PaidKey(b, p) \notin nodeSpent
      BY <3>1, <3>2
    <3>4. IsFiniteSet(DOMAIN nodeCoins) /\ \A o \in DOMAIN nodeCoins : nodeCoins[o] \in Int
      BY CoinsTyped DEF WalletInv
    <3>5. ValueBut(nodeCoins, nodeSpent, KeysAt(b, ToCredit(b, p + 1))) = scan[t].local
      <4>1. ValueBut(nodeCoins, nodeSpent, KeysAt(b, ToCredit(b, p)) \ {PaidKey(b, p)})
              = ValueBut(nodeCoins, nodeSpent, KeysAt(b, ToCredit(b, p))) + nodeCoins[PaidKey(b, p)]
        BY <3>2, <3>3, <3>4, ValueWithOne
      <4> QED BY <2>2, <3>1, <3>2, <4>1
    <3>6. KeysAt(b, ToCredit(b, p + 1)) \cap nodeSpent = {}
      BY <2>2, <3>1
    <3> QED BY <1>1, <1>3, <2>1, <3>1, <3>5, <3>6 DEF CreditsLast
  <2> QED BY <2>3, <2>4, <2>5, <2>6 DEF Receiving
<1> QED BY <1>6, <1>7, <1>8

\* It counts the block, and all is at rest.
LEMMA AdvanceCalm ==
  ASSUME DistinctPayments, EachIsTold, WalletInv, NodeInv, LookedAt,
         NEW t \in Threads \ {Sync}, Receiving(t), ReceiveStep(t), UNCHANGED <<faults, moving>>,
         ReadScanned(t) \/ SaveAdvance(t) \/ SetAdvance(t)
  PROVE  Receiving(t)' \/ Resting'
<1>1. PICK b : b = height
  OBVIOUS
<1>2. PICK p : p = scan[t].pos
  OBVIOUS
<1>3. /\ scan \in [Threads -> ScanRecords] /\ b \in 1 .. Len(Chain) /\ p \in Nat
      /\ UNCHANGED <<nodeCoins, nodeSpent, height, subscribed>> /\ Block(t) = Chain[b]
      /\ scan[t].block = b /\ Len(Chain) \in Nat /\ Sync \in Threads
  BY <1>1, <1>2, ScansTyped, AtLast, ReceiveFrame, ChainAssumption
<1>4. CASE ReadScanned(t)
  <2>1. /\ scan[t].pc = "outputs" /\ scan'[t].pc = "saveScanned"
        /\ scan'[t].block = scan[t].block /\ scan'[t].pos = p /\ p > Len(Chain[b])
        /\ scan'[t].local = memScanned + 1
        /\ UNCHANGED <<memUtxos, memBalance, memScanned, dbUtxos, dbBalance, dbScanned>>
    BY <1>2, <1>3, <1>4 DEF ReadScanned, GoWith, ScanRecords, storeVars
  <2>2. memScanned + 1 = b
    BY <1>1, <1>3 DEF Receiving, CountsLast
  <2>3. ScansLast(t)'
    BY <2>1, ScansOn DEF Receiving, BlockPCs, OutputPCs
  <2>4. CountsLast(t)'
    BY <1>1, <1>3, <2>1, <2>2 DEF Receiving, CountsLast
  <2>5. ToCredit(b, p) = {}
    BY <1>3, <2>1, LeftToDo
  <2>6. ListsLast(t)' /\ CreditsLast(t)'
    BY <1>1, <1>2, <1>3, <2>1, <2>5 DEF Receiving, ListsLast, CreditsLast, ToList
  <2> QED BY <2>3, <2>4, <2>6 DEF Receiving
<1>5. ASSUME scan[t].pc \in {"saveScanned", "setScanned"}
      PROVE  p > Len(Chain[b]) /\ scan[t].local = b /\ ToCredit(b, p) = {}
  <2>1. p > Len(Chain[b]) /\ scan[t].local = b
    BY <1>1, <1>2, <1>5 DEF Receiving, CountsLast
  <2> QED BY <1>3, <2>1, LeftToDo
<1>6. CASE SaveAdvance(t)
  <2>1. /\ scan[t].pc = "saveScanned" /\ scan'[t].pc = "setScanned"
        /\ scan'[t].block = scan[t].block /\ scan'[t].pos = p /\ scan'[t].local = scan[t].local
        /\ dbScanned' = scan[t].local
        /\ UNCHANGED <<memUtxos, memBalance, memScanned, dbUtxos, dbBalance>>
    BY <1>2, <1>3, <1>6 DEF SaveAdvance, SaveScanned, Go, ScanRecords, memVars
  <2>2. ScansLast(t)'
    BY <2>1, ScansOn DEF Receiving, BlockPCs, OutputPCs
  <2>3. CountsLast(t)'
    BY <1>1, <1>2, <1>3, <1>5, <2>1 DEF Receiving, CountsLast
  <2>4. ListsLast(t)' /\ CreditsLast(t)'
    BY <1>1, <1>2, <1>3, <1>5, <2>1 DEF Receiving, ListsLast, CreditsLast, ToList
  <2> QED BY <2>2, <2>3, <2>4 DEF Receiving
<1>7. CASE SetAdvance(t)
  <2>1. /\ scan[t].pc = "setScanned" /\ scan'[t].pc = "idle" /\ memScanned' = scan[t].local
        /\ UNCHANGED <<memUtxos, memBalance, dbUtxos, dbBalance, dbScanned>>
    BY <1>3, <1>7 DEF SetAdvance, SetScanned, Return, Go, ScanRecords, dbVars
  <2>2. \A u \in Threads : scan'[u].pc = "idle"
    BY <2>1, ReceiveFrame DEF Receiving, ScansLast
  <2>3. AllFinished' /\ subscribed'
    BY <1>3, ReceiveFrame DEF Receiving, ScansLast
  <2>4. KeysAt(b, ToCredit(b, p)) = {} /\ ToCredit(b, p) \ {p} = {} /\ KeysAt(b, {}) = {}
    BY <1>3, <1>5, <2>1, LeftToDo
  <2>5. Counted(height)'
    BY <1>1, <1>3, <1>5, <2>1 DEF Counted, Receiving, CountsLast
  <2>6. Balanced(NodeValue)'
    <3>1. NodeValue = ValueBut(nodeCoins, nodeSpent, {})
      BY CoinsTyped DEF WalletInv
    <3>2. memBalance = NodeValue /\ dbBalance = memBalance
      BY <1>1, <1>2, <2>1, <2>4, <3>1 DEF Receiving, CreditsLast
    <3>3. NodeValue' = NodeValue
      BY <1>3 DEF NodeValue
    <3> QED BY <2>1, <3>2, <3>3 DEF Balanced
  <2>7. Agrees(memUtxos, nodeCoins, nodeSpent, DOMAIN dbUtxos, {}, {})
    BY <1>1, <1>2, <2>1, <2>4 DEF Receiving, ListsLast, ToList
  <2>8. Agrees(memUtxos', nodeCoins', nodeSpent', DOMAIN dbUtxos', {}, {})
    BY <1>3, <2>1, <2>7
  <2> QED BY <1>3, <2>2, <2>3, <2>5, <2>6, <2>8 DEF Resting
<1> QED BY <1>4, <1>6, <1>7

\* All its steps.
LEMMA ReceiveCalm ==
  ASSUME DistinctPayments, EachIsTold, WalletInv, NodeInv, LookedAt, UnderWay,
         NEW t \in Threads, ReceiveStep(t), UNCHANGED faults
  PROVE  NodeInv' /\ LookedAt' /\ UnderWay'
<1>0. /\ UNCHANGED <<nodeCoins, nodeSpent, send, marker, changer, balancer>>
      /\ UNCHANGED <<height, addresses, filter, subscribed, target>> /\ ~Fault
  BY ReceiveFrame
<1>1. NodeInv' /\ LookedAt'
  BY <1>0, NodeKept, LooksOn DEF Early
<1>2. scan[t].pc \in BlockPCs /\ scan[t].pc \notin {"idle", "count", "loop"}
  BY ReceivesInBlock DEF BlockPCs, OutputPCs
<1>3. ~Resting
  BY <1>2 DEF Resting
<1>4. \A i \in Sends : ~Sending(i)
  BY <1>2 DEF Sending, SendsAlone, Idle
<1>5. PICK u \in Threads \ {Sync} : Receiving(u)
  BY <1>3, <1>4 DEF UnderWay
<1>6. t = u
  BY <1>2, <1>5 DEF Receiving, ScansLast
<1>7. Receiving(t)' \/ Resting'
  <2>1. CASE ScanAppend(t) \/ ScanCopy(t) \/ ScanStore(t)
    BY <1>5, <1>6, <2>1, AppendCalm
  <2>2. CASE ScanElse(t)
    <3>1. /\ ~FetchBlockFails(t) /\ ~SaveReceivedFails(t) /\ ~SaveCreditFails(t)
          /\ ~SaveAdvanceFails(t) /\ UNCHANGED moving
      BY <1>0, <2>2 DEF ScanElse, FetchBlockFails, SaveReceivedFails, SaveCreditFails,
                        SaveAdvanceFails
    <3> QED BY <1>5, <1>6, <2>2, <3>1, OutputCalm, CreditCalm, AdvanceCalm DEF ScanElse
  <2> QED BY <2>1, <2>2 DEF ReceiveStep
<1> QED BY <1>1, <1>5, <1>6, <1>7 DEF UnderWay

-----------------------------------------------------------------------------
(* Steps of a call. *)

\* What they do not touch.
LEMMA SendFrame ==
  ASSUME WalletInv, NEW i \in Sends, SendStep(i)
  PROVE  /\ UNCHANGED <<height, addresses, filter, subscribed, target, scan, moving>>
         /\ UNCHANGED <<memScanned, dbScanned>>
         /\ \A k \in Sends \ {i} : /\ send'[k] = send[k] /\ marker'[k] = marker[k]
                                   /\ changer'[k] = changer[k] /\ balancer'[k] = balancer[k]
         /\ (overlapped \/ changer'[i].pc = "store") = overlapped'
<1>0. /\ send \in [Sends -> SendStates] /\ marker \in [Sends -> MarkerStates]
      /\ changer \in [Sends -> ChangerStates] /\ balancer \in [Sends -> BalancerStates]
  BY ScansTyped DEF SpendTypeOK
<1>1. UNCHANGED <<height, addresses, filter, subscribed, target, scan, moving>>
  BY DEF SendStep, scanVars
<1>2. CASE HandlerStep(i)
  BY <1>0, <1>1, <1>2 DEF SendStep, HandlerStep, Select, SelectFails, Broadcast, ReplyLost,
     Rejected, SendFails, UpdateWallet, End, storeVars, workerVars
<1>3. CASE MarkerStep(i)
  BY <1>0, <1>1, <1>3 DEF SendStep, MarkerStep, MarkInDb, MarkSkips, MarkInMemory, MarkEnds,
     storeVars, memVars, dbVars
<1>4. CASE ChangeStep(i)
  BY <1>0, <1>1, <1>4 DEF SendStep, ChangeStep, ChangeSave, ChangeSaveFails, ChangeAppend,
     ChangeCopy, ChangeStore, storeVars, memVars, dbVars
<1>5. CASE BalancerStep(i)
  BY <1>0, <1>1, <1>5 DEF SendStep, BalancerStep, BalanceSave, BalanceSaveFails, BalanceSet,
     storeVars, memVars, dbVars
<1> QED BY <1>2, <1>3, <1>4, <1>5 DEF SendStep

\* It stays alone.
LEMMA SendsOn ==
  ASSUME WalletInv, NEW i \in Sends, SendsAlone(i), SendStep(i), send'[i].pc # "idle",
         changer'[i].pc # "store",
         send'[i].pc # "over" =>
           marker'[i].pc = "idle" /\ changer'[i].pc = "idle" /\ balancer'[i].pc = "idle"
  PROVE  SendsAlone(i)'
<1>1. Idle' /\ subscribed' /\ Counted(height)'
  BY SendFrame DEF SendsAlone, Idle, Counted
<1>2. \A k \in Sends \ {i} : Finished(k)'
  BY SendFrame DEF SendsAlone, Finished
<1> QED BY <1>1, <1>2 DEF SendsAlone

\* What is listed, and what the inputs and the change of a call under way are.
LEMMA ListedInputs ==
  ASSUME WalletInv, NEW i \in Sends, Sending(i)
  PROVE  /\ memUtxos \in Seq(UtxoRecords)
         /\ \A j \in DOMAIN memUtxos :
              Exists(memUtxos[j]) /\ Outpoint(memUtxos[j]) \in Listed(memUtxos)
         /\ NoneTwice(memUtxos) /\ Listed(memUtxos) \subseteq DOMAIN dbUtxos
         /\ IsFiniteSet(send[i].inputs) /\ send[i].inputs \subseteq UtxoRecords
         /\ Outpoint(Change(i)) = ChangeKey(i)
         /\ Cost(i) = send[i].amount + Fee(i) /\ Cost(i) \in Nat
         /\ send[i].amount \in Int /\ Fee(i) \in Int
         /\ Change(i) \in UtxoRecords /\ ~Change(i).spent /\ Change(i).value = ChangeValue(i)
         /\ memBalance \in Int /\ NodeValue \in Int
<1>1. memUtxos \in Seq(UtxoRecords) /\ SpendTypeOK /\ WalletTypeOK
  BY ScansTyped DEF SpendTypeOK, StoreTypeOK, WalletInv
<1>2. IsFiniteSet(send[i].inputs) /\ send[i].inputs \subseteq UtxoRecords
  BY <1>1 DEF WalletInv, FiniteInputs, SpendTypeOK, SendStates
<1>3. /\ NoneTwice(memUtxos) /\ Listed(memUtxos) \subseteq DOMAIN dbUtxos
      /\ \A j \in DOMAIN memUtxos :
              Exists(memUtxos[j]) /\ Outpoint(memUtxos[j]) \in Listed(memUtxos)
  BY DEF Sending, ListsCall, Agrees, Exists, Listed
<1>4. memBalance \in Int /\ NodeValue \in Int
  BY <1>1, CoinsTyped, ScansTyped
<1> QED BY <1>1, <1>2, <1>3, <1>4, ChangeTyped DEF Cost

\* Selecting coins, in vain or not, and a transaction that the node refuses.
LEMMA SelectCalm ==
  ASSUME WalletInv, NEW i \in Sends, Sending(i), SendStep(i),
         Select(i) \/ SelectFails(i) \/ Rejected(i)
  PROVE  Sending(i)' /\ UNCHANGED <<nodeCoins, nodeSpent>>
<1>0. send \in [Sends -> SendStates]
  BY ScansTyped
<1>1. /\ UNCHANGED <<memUtxos, memBalance, dbUtxos, dbBalance, nodeCoins, nodeSpent>>
      /\ UNCHANGED <<marker, changer, balancer>> /\ send[i].pc \in {"select", "broadcast"}
  BY DEF Select, SelectFails, Rejected, storeVars, nodeVars, workerVars
<1>2. /\ marker[i].pc = "idle" /\ changer[i].pc = "idle" /\ balancer[i].pc = "idle"
      /\ send'[i].pc \in {"broadcast", "over"}
  BY <1>0, <1>1 DEF Sending, SendsAlone, Select, SelectFails, Rejected, End, SendStates
<1>3. ToMark(i) = {} /\ ToMark(i)' = {} /\ ToAdd(i) = {} /\ ToAdd(i)' = {} /\ ~Unlisted(i)'
  BY <1>1, <1>2 DEF ToMark, ToAdd, Unlisted
<1>4. SendsAlone(i)'
  BY <1>1, <1>2, SendsOn DEF Sending
<1>5. HasInputs(i)'
  <2>1. CASE Select(i)
    <3>1. PICK P \in Selections(memUtxos, send[i].amount) :
             send'[i].inputs = {memUtxos[p] : p \in P}
      BY <1>0, <2>1 DEF Select, SendStates
    <3>2. P \subseteq DOMAIN memUtxos
      BY ListedInputs, SelectionsListed
    <3>3. \A u \in send'[i].inputs : Exists(u) /\ Outpoint(u) \in Listed(memUtxos)
      BY <3>1, <3>2, ListedInputs
    <3>4. \A u, v \in send'[i].inputs : Outpoint(u) = Outpoint(v) => u = v
      BY <3>1, <3>2, ListedInputs DEF NoneTwice
    <3> QED BY <1>1, <3>3, <3>4 DEF HasInputs, Exists
  <2>2. CASE SelectFails(i) \/ Rejected(i)
    <3>1. send'[i].pc = "over"
      BY <1>0, <2>2 DEF SelectFails, Rejected, End, SendStates
    <3> QED BY <1>1, <1>2, <3>1 DEF HasInputs
  <2> QED BY <2>1, <2>2
<1>6. HasMarks(i)' /\ HasChange(i)'
  BY <1>1, <1>2, <1>3 DEF HasMarks, HasChange
<1>7. ListsCall(i)'
  BY <1>1, <1>3 DEF Sending, ListsCall
<1>8. TakesCost(i)'
  <2>1. NodeValue' = NodeValue /\ Balanced(NodeValue)
    BY <1>1 DEF NodeValue, Sending, TakesCost
  <2> QED BY <1>1, <1>2, <2>1 DEF TakesCost, Balanced
<1> QED BY <1>1, <1>4, <1>5, <1>6, <1>7, <1>8 DEF Sending

\* The node takes the transaction.
LEMMA BroadcastCalm ==
  ASSUME DistinctPayments, WalletInv, NodeInv, NEW i \in Sends, Sending(i), SendStep(i),
         Broadcast(i)
  PROVE  Sending(i)' /\ NodeInv'
<1>0. /\ send \in [Sends -> SendStates] /\ WalletTypeOK /\ SpendTypeOK
  BY ScansTyped DEF WalletInv
<1>1. /\ NodeAccepts(i) /\ Acceptable(i) /\ send[i].pc = "broadcast"
      /\ UNCHANGED <<memUtxos, memBalance, dbUtxos, dbBalance, marker, changer, balancer>>
      /\ send'[i].pc = "update" /\ send'[i].inputs = send[i].inputs
      /\ send'[i].amount = send[i].amount
      /\ \A k \in Sends \ {i} : send'[k] = send[k]
  BY <1>0 DEF Broadcast, NodeAccepts, SendStates, storeVars, workerVars
<1>2. marker[i].pc = "idle" /\ changer[i].pc = "idle" /\ balancer[i].pc = "idle"
  BY <1>1 DEF Sending, SendsAlone
<1>3. /\ Change(i)' = Change(i) /\ Cost(i)' = Cost(i) /\ ChangeValue(i)' = ChangeValue(i)
      /\ Outpoint(Change(i)) = ChangeKey(i) /\ Change(i).value = ChangeValue(i)
  BY <1>1, ChangeSettled, ListedInputs
<1>4. ChangeKey(i) \notin DOMAIN nodeCoins
  BY <1>0, <1>1, KeysApart DEF Early
<1>5. /\ nodeSpent' = nodeSpent \cup Keys(send[i].inputs)
      /\ Keys(send[i].inputs) \subseteq DOMAIN nodeCoins \ nodeSpent
      /\ DOMAIN nodeCoins' = DOMAIN nodeCoins \cup {ChangeKey(i)}
      /\ \A o \in DOMAIN nodeCoins : nodeCoins'[o] = nodeCoins[o]
      /\ nodeCoins'[ChangeKey(i)] = ChangeValue(i)
  BY <1>1, <1>3, <1>4 DEF NodeAccepts, Acceptable, Keys
<1>6. NodeInv'
  <2>1. UNCHANGED height
    BY SendFrame
  <2>2. \A k \in Sends : ~Early(k) => ~Early(k)'
    BY <1>1 DEF Early
  <2>3. ~Early(i)'
    BY <1>1 DEF Early
  <2> QED BY <1>5, <2>1, <2>2, <2>3 DEF NodeInv
<1>7. SendsAlone(i)'
  BY <1>1, <1>2, SendsOn DEF Sending
<1>8. /\ \A u \in send[i].inputs : Exists(u) /\ Outpoint(u) \in Listed(memUtxos)
      /\ \A u, v \in send[i].inputs : Outpoint(u) = Outpoint(v) => u = v
  BY <1>1 DEF Sending, HasInputs
<1>9. HasInputs(i)'
  BY <1>1, <1>5, <1>8 DEF HasInputs, Exists
<1>10. ToMark(i) = {} /\ ToMark(i)' = Keys(send[i].inputs) /\ ToAdd(i) = {}
       /\ ToAdd(i)' = {ChangeKey(i)}
  BY <1>1, <1>2 DEF ToMark, ToAdd, Unlisted
<1>11. HasMarks(i)'
  BY <1>1, <1>2, <1>5, <1>10 DEF HasMarks
<1>12. HasChange(i)'
  <2>1. Exists(Change(i))'
    BY <1>3, <1>5 DEF Exists
  <2> QED BY <1>1, <1>2, <2>1 DEF HasChange
<1>13. ListsCall(i)'
  <2>1. Agrees(memUtxos, nodeCoins, nodeSpent, DOMAIN dbUtxos, {}, {})
    BY <1>10 DEF Sending, ListsCall
  <2>2. nodeSpent' \ Keys(send[i].inputs) = nodeSpent \ {}
    BY <1>5
  <2>3. {ChangeKey(i)} \cap DOMAIN nodeCoins'
          = ({} \cap DOMAIN nodeCoins) \cup (DOMAIN nodeCoins' \ DOMAIN nodeCoins)
    BY <1>4, <1>5
  <2>4. Agrees(memUtxos, nodeCoins', nodeSpent', DOMAIN dbUtxos, {ChangeKey(i)},
               Keys(send[i].inputs))
    BY <1>5, <2>1, <2>2, <2>3, ListedInputs, AgreesMore
  <2> QED BY <1>1, <1>10, <2>4 DEF ListsCall
<1>14. TakesCost(i)'
  <2>1. NodeValue' = NodeValue - Cost(i) /\ NodeValue' \in Int
    BY <1>0, <1>1, <1>4, <1>8, ListedInputs, NodePays
  <2>2. NodeValue = NodeValue' + Cost(i)'
    BY <1>3, <2>1, ListedInputs
  <2>3. Balanced(NodeValue)
    BY <1>1 DEF Sending, TakesCost
  <2> QED BY <1>1, <2>2, <2>3 DEF TakesCost, Balanced
<1> QED BY <1>6, <1>7, <1>9, <1>11, <1>12, <1>13, <1>14 DEF Sending

\* The goroutines start.
LEMMA UpdateCalm ==
  ASSUME WalletInv, NEW i \in Sends, Sending(i), SendStep(i), UpdateWallet(i)
  PROVE  Sending(i)' /\ UNCHANGED <<nodeCoins, nodeSpent>>
<1>0. /\ send \in [Sends -> SendStates] /\ marker \in [Sends -> MarkerStates]
      /\ changer \in [Sends -> ChangerStates] /\ balancer \in [Sends -> BalancerStates]
  BY ScansTyped DEF SpendTypeOK
<1>1. /\ UNCHANGED <<memUtxos, memBalance, dbUtxos, dbBalance, nodeCoins, nodeSpent>>
      /\ send[i].pc = "update" /\ send'[i].pc = "over" /\ send'[i].inputs = send[i].inputs
      /\ send'[i].amount = send[i].amount
      /\ marker'[i].pc = "find" /\ marker'[i].todo = send[i].inputs
      /\ changer'[i].pc = "save" /\ balancer'[i].pc = "save"
      /\ balancer'[i].value = memBalance - send[i].amount - Fee(i)
  BY <1>0 DEF UpdateWallet, End, SendStates, MarkerStates, ChangerStates, BalancerStates,
              storeVars, nodeVars
<1>2. Change(i)' = Change(i)
  BY <1>1, ChangeSettled
<1>3. SendsAlone(i)'
  BY <1>1, SendsOn DEF Sending
<1>4. HasInputs(i)'
  BY <1>1 DEF Sending, HasInputs, Exists
<1>5. ToMark(i) = Keys(send[i].inputs) /\ ToMark(i)' = Keys(send[i].inputs)
      /\ ToAdd(i) = {ChangeKey(i)} /\ ToAdd(i)' = {ChangeKey(i)}
  BY <1>1 DEF ToMark, ToAdd, Unlisted
<1>6. HasMarks(i)'
  BY <1>1, <1>5 DEF Sending, HasMarks
<1>7. HasChange(i)'
  BY <1>1, <1>2 DEF Sending, HasChange, Unlisted, Exists
<1>8. ListsCall(i)'
  BY <1>1, <1>5 DEF Sending, ListsCall
<1>9. TakesCost(i)'
  <2>1. memBalance = NodeValue + Cost(i) /\ NodeValue' = NodeValue
    BY <1>1 DEF Sending, TakesCost, Balanced, NodeValue
  <2>2. memBalance - send[i].amount - Fee(i) = NodeValue
    BY <2>1, ListedInputs
  <2> QED BY <1>1, <2>1, <2>2 DEF TakesCost
<1> QED BY <1>1, <1>3, <1>4, <1>6, <1>7, <1>8, <1>9 DEF Sending

\* markSpentUTXOs takes an input for the coin that it is, and sets its mark.
LEMMA MarkerCalm ==
  ASSUME DistinctPayments, WalletInv, NodeInv, NEW i \in Sends, Sending(i), SendStep(i),
         MarkerStep(i), UNCHANGED sendFaults
  PROVE  Sending(i)' /\ UNCHANGED <<nodeCoins, nodeSpent>>
<1>0. /\ marker \in [Sends -> MarkerStates] /\ WalletTypeOK /\ SpendTypeOK
      /\ memUtxos \in Seq(UtxoRecords) /\ sendFaults \in Nat
  BY ScansTyped, ListedInputs DEF WalletInv, SpendTypeOK
<1>1. /\ UNCHANGED <<memBalance, dbBalance, nodeCoins, nodeSpent, send, changer, balancer>>
      /\ marker[i].pc \in {"find", "set"}
  BY <1>0 DEF MarkerStep, MarkInDb, MarkSkips, MarkInMemory, MarkEnds, memVars, dbVars, storeVars,
     nodeVars, MarkerStates
<1>2. /\ send[i].pc = "over" /\ send'[i].pc = "over"
      /\ \A u \in send[i].inputs : Exists(u) /\ Outpoint(u) \in Listed(memUtxos)
      /\ \A u, v \in send[i].inputs : Outpoint(u) = Outpoint(v) => u = v
      /\ marker[i].todo \subseteq send[i].inputs
  BY <1>1 DEF Sending, SendsAlone, HasInputs, HasMarks
<1>3. SendsAlone(i)' /\ TakesCost(i)' /\ ToAdd(i)' = ToAdd(i)
  <2>1. changer'[i].pc # "store"
    BY <1>1 DEF Sending, SendsAlone
  <2>2. SendsAlone(i)'
    BY <1>1, <1>2, <2>1, SendsOn DEF Sending
  <2>3. NodeValue' = NodeValue
    BY <1>1 DEF NodeValue
  <2> QED BY <1>1, <1>2, <2>2, <2>3 DEF Sending, TakesCost, Balanced, ToAdd, Unlisted
<1>4. Change(i)' = Change(i)
  BY <1>1, ChangeSettled
<1>5. ASSUME Listed(memUtxos') = Listed(memUtxos), DOMAIN dbUtxos \subseteq DOMAIN dbUtxos'
      PROVE  HasInputs(i)' /\ HasChange(i)'
  <2>1. HasInputs(i)'
    BY <1>1, <1>2, <1>5 DEF HasInputs, Exists
  <2>2. HasChange(i)'
    BY <1>1, <1>4, <1>5 DEF Sending, HasChange, Unlisted, Exists
  <2> QED BY <2>1, <2>2
<1>6. ASSUME NEW u \in marker[i].todo, MarkInDb(i, u) PROVE Sending(i)'
  <2>1. PICK m : m = Min(Matches(u))
    OBVIOUS
  <2>2. /\ marker[i].pc = "find" /\ Matches(u) # {} /\ UNCHANGED memUtxos
        /\ DOMAIN dbUtxos' = DOMAIN dbUtxos
        /\ marker'[i].pc = "set" /\ marker'[i].todo = marker[i].todo \ {u} /\ marker'[i].at = m
    BY <1>0, <1>6, <2>1 DEF MarkInDb, UpdateUtxo, memVars
  <2>3. m \in Matches(u)
    <3>1. Matches(u) \subseteq Nat /\ Matches(u) # {}
      BY <1>0, <2>2 DEF Matches
    <3>2. \E x \in Matches(u) : \A y \in Matches(u) : x <= y
      BY <3>1, LeastNat
    <3> QED BY <2>1, <3>2 DEF Min
  <2>4. m \in DOMAIN memUtxos /\ Outpoint(memUtxos[m]) = Outpoint(u)
    <3>1. m \in DOMAIN memUtxos /\ memUtxos[m].txid = u.txid
      BY <2>3 DEF Matches
    <3>2. Outpoint(memUtxos[m]) \in DOMAIN nodeCoins /\ Outpoint(u) \in DOMAIN nodeCoins
      BY <1>2, <3>1, ListedInputs DEF Exists
    <3>3. Outpoint(memUtxos[m])[1] = Outpoint(u)[1]
      BY <3>1 DEF Outpoint
    <3> QED BY <1>0, <3>1, <3>2, <3>3, KeysApart
  <2>5. Outpoint(u) \notin Keys(marker[i].todo \ {u})
    BY <1>2 DEF Keys
  <2>6. Keys(marker[i].todo) = Keys(marker[i].todo \ {u}) \cup {Outpoint(u)}
    BY DEF Keys
  <2>7. ToMark(i) = Keys(marker[i].todo) /\ ToMark(i)' = Keys(marker[i].todo)
    BY <1>1, <1>2, <2>2, <2>4, <2>6 DEF ToMark
  <2>8. HasMarks(i)'
    <3>1. marker'[i].todo \subseteq send'[i].inputs
      BY <1>1, <1>2, <2>2
    <3>2. Outpoint(memUtxos'[marker'[i].at]) \notin Keys(marker'[i].todo)
      BY <2>2, <2>4, <2>5
    <3>3. ToMark(i)' \subseteq nodeSpent'
      BY <1>1, <2>7 DEF Sending, HasMarks
    <3> QED BY <3>1, <3>2, <3>3 DEF HasMarks
  <2>9. ListsCall(i)'
    BY <1>1, <1>3, <2>2, <2>7 DEF Sending, ListsCall
  <2> QED BY <1>3, <1>5, <2>2, <2>8, <2>9 DEF Sending
<1>7. ASSUME NEW u \in marker[i].todo, MarkSkips(i, u) PROVE FALSE
  <2>1. Matches(u) # {}
    <3>1. PICK j \in DOMAIN memUtxos : Outpoint(memUtxos[j]) = Outpoint(u)
      BY <1>2 DEF Listed
    <3> QED BY <3>1 DEF Matches, Outpoint
  <2>2. Outpoint(u) \in DOMAIN dbUtxos
    BY <1>2, ListedInputs
  <2> QED BY <1>0, <1>7, <2>1, <2>2 DEF MarkSkips, SendFault
<1>8. CASE MarkInMemory(i)
  <2>1. PICK m : m = marker[i].at
    OBVIOUS
  <2>2. /\ marker[i].pc = "set" /\ memUtxos' = [memUtxos EXCEPT ![m].spent = TRUE]
        /\ marker'[i].pc = "find" /\ marker'[i].todo = marker[i].todo
        /\ UNCHANGED dbUtxos
    BY <1>0, <1>8, <2>1 DEF MarkInMemory, MarkerStates, dbVars
  <2>3. m \in DOMAIN memUtxos
    BY <1>0, <2>1, <2>2 DEF SpendTypeOK
  <2>4. /\ ToMark(i) = Keys(marker[i].todo) \cup {Outpoint(memUtxos[m])}
        /\ ToMark(i)' = Keys(marker[i].todo)
        /\ Outpoint(memUtxos[m]) \notin Keys(marker[i].todo)
        /\ ToMark(i) \subseteq nodeSpent
    BY <1>1, <1>2, <2>1, <2>2 DEF ToMark, Sending, HasMarks
  <2>5. Agrees(memUtxos, nodeCoins, nodeSpent, DOMAIN dbUtxos, ToAdd(i), ToMark(i))
    BY DEF Sending, ListsCall
  <2>6. ToMark(i)' = ToMark(i) \ {Outpoint(memUtxos[m])} /\ Outpoint(memUtxos[m]) \in nodeSpent
    BY <2>4
  <2>7. Agrees(memUtxos', nodeCoins, nodeSpent, DOMAIN dbUtxos, ToAdd(i), ToMark(i)')
    <3>1. Agrees([memUtxos EXCEPT ![m].spent = TRUE], nodeCoins, nodeSpent, DOMAIN dbUtxos, ToAdd(i),
                 ToMark(i) \ {Outpoint(memUtxos[m])})
      BY <1>0, <2>3, <2>5, <2>6, AgreesMark
    <3> QED BY <2>2, <2>6, <3>1
  <2>8. Listed(memUtxos') = Listed(memUtxos)
    BY <2>5, <2>7 DEF Agrees
  <2>9. ListsCall(i)'
    BY <1>1, <1>3, <2>2, <2>7 DEF ListsCall
  <2>10. HasMarks(i)'
    BY <1>1, <1>2, <2>2, <2>4 DEF HasMarks
  <2>11. DOMAIN dbUtxos \subseteq DOMAIN dbUtxos'
    BY <2>2
  <2>12. HasInputs(i)' /\ HasChange(i)'
    BY <1>5, <2>8, <2>11
  <2> QED BY <1>1, <1>3, <2>9, <2>10, <2>12 DEF Sending
<1>9. CASE MarkEnds(i)
  <2>1. /\ marker[i].pc = "find" /\ marker[i].todo = {} /\ marker'[i].pc = "idle"
        /\ UNCHANGED <<memUtxos, dbUtxos>>
    BY <1>0, <1>9 DEF MarkEnds, MarkerStates, storeVars
  <2>2. ToMark(i) = {} /\ ToMark(i)' = {}
    BY <1>1, <1>2, <2>1 DEF ToMark, Keys
  <2>3. HasMarks(i)'
    BY <2>1, <2>2 DEF HasMarks
  <2>4. ListsCall(i)'
    BY <1>1, <1>3, <2>1, <2>2 DEF Sending, ListsCall
  <2>5. Listed(memUtxos') = Listed(memUtxos) /\ DOMAIN dbUtxos \subseteq DOMAIN dbUtxos'
    BY <2>1
  <2>6. HasInputs(i)' /\ HasChange(i)'
    BY <1>5, <2>5
  <2> QED BY <1>1, <1>3, <2>3, <2>4, <2>6 DEF Sending
<1> QED BY <1>1, <1>6, <1>7, <1>8, <1>9 DEF MarkerStep

\* addChangeUTXO saves the change and lists it.
LEMMA ChangerCalm ==
  ASSUME WalletInv, NEW i \in Sends, Sending(i), SendStep(i), ChangeStep(i),
         ~overlapped', UNCHANGED sendFaults
  PROVE  Sending(i)' /\ UNCHANGED <<nodeCoins, nodeSpent>>
<1>0. /\ changer \in [Sends -> ChangerStates] /\ SpendTypeOK
      /\ memUtxos \in Seq(UtxoRecords) /\ sendFaults \in Nat
  BY ScansTyped, ListedInputs DEF SpendTypeOK
<1>1. ~ChangeSaveFails(i) /\ ~ChangeCopy(i) /\ ~ChangeStore(i)
  <2>1. ~ChangeSaveFails(i)
    BY <1>0 DEF ChangeSaveFails, SendFault
  <2>2. changer'[i].pc # "store"
    BY SendFrame
  <2>3. ~ChangeCopy(i)
    BY <1>0, <2>2 DEF ChangeCopy
  <2>4. ~ChangeStore(i)
    BY DEF ChangeStore, Sending, SendsAlone
  <2> QED BY <2>1, <2>3, <2>4
<1>2. ChangeSave(i) \/ ChangeAppend(i)
  BY <1>1 DEF ChangeStep
<1>3. /\ UNCHANGED <<memBalance, dbBalance, nodeCoins, nodeSpent, send, marker, balancer>>
      /\ changer[i].pc \in {"save", "append"}
  BY <1>2 DEF ChangeSave, ChangeAppend, memVars, dbVars, nodeVars
<1>4. /\ send[i].pc = "over" /\ send'[i].pc = "over" /\ ToAdd(i) = {ChangeKey(i)}
      /\ Exists(Change(i)) /\ Outpoint(Change(i)) = ChangeKey(i) /\ Change(i)' = Change(i)
  BY <1>3, ChangeSettled, ListedInputs
     DEF Sending, SendsAlone, HasChange, Unlisted, ToAdd
<1>5. Agrees(memUtxos, nodeCoins, nodeSpent, DOMAIN dbUtxos, {ChangeKey(i)}, ToMark(i))
  BY <1>4 DEF Sending, ListsCall
<1>6. TakesCost(i)'
  <2>1. NodeValue' = NodeValue
    BY <1>3 DEF NodeValue
  <2> QED BY <1>3, <1>4, <2>1 DEF Sending, TakesCost, Balanced
<1>7. CASE ChangeSave(i)
  <2>1. /\ changer'[i].pc = "append" /\ UNCHANGED memUtxos
        /\ DOMAIN dbUtxos' = DOMAIN dbUtxos \cup {ChangeKey(i)}
    BY <1>0, <1>4, <1>7 DEF ChangeSave, SaveUtxo, ChangerStates, memVars
  <2>2. SendsAlone(i)'
    BY <1>4, <2>1, SendsOn DEF Sending
  <2>3. ToAdd(i)' = {ChangeKey(i)} /\ ToMark(i)' = ToMark(i)
    BY <1>3, <2>1 DEF ToAdd, Unlisted, ToMark
  <2>4. Agrees(memUtxos, nodeCoins, nodeSpent, DOMAIN dbUtxos', {ChangeKey(i)}, ToMark(i))
    BY <1>0, <1>5, <2>1, AgreesMore
  <2>5. HasInputs(i)' /\ HasMarks(i)'
    BY <1>3, <2>1, <2>3 DEF Sending, HasInputs, HasMarks, Exists
  <2>6. HasChange(i)'
    BY <1>3, <1>4, <2>1 DEF HasChange, Exists
  <2>7. ListsCall(i)'
    BY <1>3, <2>1, <2>3, <2>4 DEF ListsCall
  <2> QED BY <1>3, <1>6, <2>2, <2>5, <2>6, <2>7 DEF Sending
<1>8. CASE ChangeAppend(i)
  <2>1. /\ changer[i].pc = "append" /\ changer'[i].pc = "idle" /\ UNCHANGED dbUtxos
        /\ memUtxos' = Append(memUtxos, Change(i))
    BY <1>0, <1>8 DEF ChangeAppend, AppendUtxo, ChangerStates, dbVars
  <2>2. SendsAlone(i)'
    BY <1>4, <2>1, SendsOn DEF Sending
  <2>3. ToAdd(i)' = {} /\ ToMark(i)' = ToMark(i)
    <3>1. ToAdd(i)' = {}
      BY <1>4, <2>1 DEF ToAdd, Unlisted
    <3>2. marker[i].pc = "set" => memUtxos'[marker[i].at] = memUtxos[marker[i].at]
      BY <1>0, <2>1 DEF SpendTypeOK
    <3> QED BY <1>3, <3>1, <3>2 DEF ToMark
  <2>4. Agrees(memUtxos', nodeCoins, nodeSpent, DOMAIN dbUtxos, {}, ToMark(i))
    <3>1. /\ Change(i) \in UtxoRecords /\ ~Change(i).spent
          /\ Outpoint(Change(i)) \in DOMAIN nodeCoins
          /\ Change(i).value = nodeCoins[Outpoint(Change(i))]
      BY <1>4, ListedInputs DEF Exists
    <3>2. Outpoint(Change(i)) \in DOMAIN dbUtxos
      BY <1>4, <2>1 DEF Sending, HasChange
    <3>3. {ChangeKey(i)} \ {Outpoint(Change(i))} = {} /\ Outpoint(Change(i)) \in {ChangeKey(i)}
      BY <1>4
    <3>4. Agrees(Append(memUtxos, Change(i)), nodeCoins, nodeSpent, DOMAIN dbUtxos,
                 {ChangeKey(i)} \ {Outpoint(Change(i))}, ToMark(i))
      BY <1>0, <1>5, <3>1, <3>2, <3>3, AgreesAppend
    <3> QED BY <2>1, <3>3, <3>4
  <2>5. Listed(memUtxos) \subseteq Listed(memUtxos')
    BY <1>0, <2>1, <1>4, ListedInputs, AppendLists
  <2>6. HasInputs(i)'
    BY <1>3, <2>5 DEF Sending, HasInputs, Exists
  <2>7. HasMarks(i)'
    <3>1. marker[i].pc = "set" => memUtxos'[marker[i].at] = memUtxos[marker[i].at]
      BY <1>0, <2>1 DEF SpendTypeOK
    <3> QED BY <1>3, <2>3, <3>1 DEF Sending, HasMarks
  <2>8. HasChange(i)'
    BY <1>4, <2>1 DEF HasChange, Unlisted
  <2>9. ListsCall(i)'
    BY <1>3, <2>1, <2>3, <2>4 DEF ListsCall
  <2> QED BY <1>3, <1>6, <2>2, <2>6, <2>7, <2>8, <2>9 DEF Sending
<1> QED BY <1>2, <1>7, <1>8

\* setBalance writes what the coins are worth.
LEMMA BalancerCalm ==
  ASSUME WalletInv, NEW i \in Sends, Sending(i), SendStep(i), BalancerStep(i), UNCHANGED sendFaults
  PROVE  Sending(i)' /\ UNCHANGED <<nodeCoins, nodeSpent>>
<1>0. balancer \in [Sends -> BalancerStates] /\ sendFaults \in Nat
  BY ScansTyped DEF SpendTypeOK
<1>1. /\ UNCHANGED <<memUtxos, dbUtxos, nodeCoins, nodeSpent, send, marker, changer>>
      /\ balancer[i].pc \in {"save", "set"} /\ ~BalanceSaveFails(i)
  BY <1>0 DEF BalancerStep, BalanceSave, BalanceSaveFails, BalanceSet, memVars, dbVars, storeVars,
     nodeVars, SendFault
<1>2. send[i].pc = "over" /\ NodeValue' = NodeValue /\ balancer[i].value = NodeValue
  BY <1>1 DEF Sending, SendsAlone, TakesCost, NodeValue
<1>3. SendsAlone(i)'
  <2>1. changer'[i].pc # "store"
    BY <1>1 DEF Sending, SendsAlone
  <2> QED BY <1>1, <1>2, <2>1, SendsOn DEF Sending
<1>4. /\ ToMark(i)' = ToMark(i) /\ ToAdd(i)' = ToAdd(i) /\ Change(i)' = Change(i)
      /\ (Unlisted(i) <=> Unlisted(i)')
  BY <1>1, ChangeSettled DEF ToMark, ToAdd, Unlisted
<1>5. HasInputs(i)' /\ HasMarks(i)' /\ ListsCall(i)'
  BY <1>1, <1>4 DEF Sending, HasInputs, HasMarks, ListsCall, Exists
<1>6. HasChange(i)'
  BY <1>1, <1>4 DEF Sending, HasChange, Exists
<1>7. TakesCost(i)'
  <2>1. CASE BalanceSave(i)
    <3>1. balancer'[i].pc = "set" /\ balancer'[i].value = NodeValue /\ dbBalance' = NodeValue
      BY <1>0, <1>2, <2>1 DEF BalanceSave, SaveBalance, BalancerStates
    <3> QED BY <1>1, <1>2, <3>1 DEF TakesCost
  <2>2. CASE BalanceSet(i)
    <3>1. balancer'[i].pc = "idle" /\ memBalance' = NodeValue /\ dbBalance' = NodeValue
      BY <1>0, <1>2, <2>2 DEF BalanceSet, SetBalance, BalancerStates, Sending, TakesCost, dbVars
    <3> QED BY <1>1, <1>2, <3>1 DEF TakesCost, Balanced
  <2> QED BY <1>1, <2>1, <2>2 DEF BalancerStep
<1> QED BY <1>1, <1>3, <1>5, <1>6, <1>7 DEF Sending

\* All its steps.
LEMMA SendCalm ==
  ASSUME DistinctPayments, WalletInv, NodeInv, LookedAt, UnderWay, NEW i \in Sends, SendStep(i),
         ~overlapped', UNCHANGED sendFaults
  PROVE  NodeInv' /\ LookedAt' /\ UnderWay'
<1>0. sendFaults \in Nat /\ send \in [Sends -> SendStates]
  BY ScansTyped DEF SpendTypeOK
<1>1. ~Finished(i)
  BY SendsUnfinished
<1>2. Sending(i)
  <2>1. ~Resting
    BY <1>1 DEF Resting, AllFinished
  <2>2. \A t \in Threads : ~Receiving(t)
    BY <1>1 DEF Receiving, ScansLast, AllFinished
  <2> QED BY <1>1, <2>1, <2>2 DEF UnderWay, Sending, SendsAlone
<1>3. LookedAt'
  BY SendFrame, LooksOn
<1>4. ASSUME UNCHANGED <<nodeCoins, nodeSpent>> PROVE NodeInv'
  <2>1. \A k \in Sends : Early(k)' => Early(k)
    <3>1. \A k \in Sends \ {i} : send'[k] = send[k]
      BY SendFrame
    <3>2. send[i].pc \in {"update", "over"} => send'[i].pc = "over"
      <4>1. CASE HandlerStep(i)
        BY <1>0, <4>1 DEF HandlerStep, Select, SelectFails, Broadcast, ReplyLost, NodeAccepts,
           Rejected, SendFails, UpdateWallet, End, SendStates
      <4>2. CASE MarkerStep(i) \/ ChangeStep(i) \/ BalancerStep(i)
        <5>1. UNCHANGED send
          BY <4>2 DEF MarkerStep, MarkInDb, MarkSkips, MarkInMemory, MarkEnds, ChangeStep,
             ChangeSave, ChangeSaveFails, ChangeAppend, ChangeCopy, ChangeStore, BalancerStep,
             BalanceSave, BalanceSaveFails, BalanceSet
        <5>2. send[i].pc # "update"
          BY <1>2, <4>2 DEF Sending, SendsAlone, MarkerStep, MarkInDb, MarkSkips, MarkInMemory,
             MarkEnds, ChangeStep, ChangeSave, ChangeSaveFails, ChangeAppend, ChangeCopy,
             ChangeStore, BalancerStep, BalanceSave, BalanceSaveFails, BalanceSet
        <5> QED BY <5>1, <5>2
      <4> QED BY <4>1, <4>2 DEF SendStep
    <3>3. send[i].pc \in {"idle", "select", "broadcast", "update", "over"}
      BY <1>0 DEF SendStates
    <3> QED BY <3>1, <3>2, <3>3 DEF Early
  <2> QED BY <1>4, <2>1, SendFrame, NodeKept
<1>5. Sending(i)' /\ NodeInv'
  <2>1. CASE HandlerStep(i)
    <3>1. ~ReplyLost(i) /\ ~SendFails(i)
      BY <1>0 DEF ReplyLost, SendFails, SendFault
    <3>2. CASE Select(i) \/ SelectFails(i) \/ Rejected(i)
      BY <1>2, <1>4, <3>2, SelectCalm
    <3>3. CASE Broadcast(i)
      BY <1>2, <3>3, BroadcastCalm
    <3>4. CASE UpdateWallet(i)
      BY <1>2, <1>4, <3>4, UpdateCalm
    <3> QED BY <2>1, <3>1, <3>2, <3>3, <3>4 DEF HandlerStep
  <2>2. CASE MarkerStep(i)
    BY <1>2, <1>4, <2>2, MarkerCalm
  <2>3. CASE ChangeStep(i)
    BY <1>2, <1>4, <2>3, ChangerCalm
  <2>4. CASE BalancerStep(i)
    BY <1>2, <1>4, <2>4, BalancerCalm
  <2> QED BY <2>1, <2>2, <2>3, <2>4 DEF SendStep
<1> QED BY <1>3, <1>5 DEF UnderWay

-----------------------------------------------------------------------------
(* All steps. *)

\* While it is calm, one thing is under way at a time.
LEMMA CalmStep ==
  ASSUME DistinctPayments, EachIsTold, WalletInv, WalletInv', CalmInv, [WalletNext]_walletVars
  PROVE  CalmInv'
<1> SUFFICES ASSUME ~overlapped', NoFailure' PROVE NodeInv' /\ LookedAt' /\ UnderWay'
  BY DEF CalmInv, Calm
<1>1. NoFailure /\ UNCHANGED <<faults, sendFaults, crashes>> /\ ~AllRestart
  BY NothingFailed DEF WalletInv
<1>2. overlapped \in BOOLEAN
  BY DEF WalletInv, WalletTypeOK
<1>3. ASSUME ~overlapped PROVE NodeInv /\ LookedAt /\ UnderWay
  BY <1>1, <1>3 DEF CalmInv, Calm
<1>4. CASE CatchUpStep
  <2>1. NodeInv /\ LookedAt /\ UnderWay
    BY <1>3, <1>4 DEF CatchUpStep
  <2>2. Resting'
    BY <1>1, <1>4, <2>1, CatchUpRests
  <2>3. UNCHANGED <<nodeCoins, height, send, filter, addresses>>
    BY <1>4 DEF CatchUpStep, SyncStep, GetBlockCount, GetBlockCountFails, FetchMissingBlock,
       Subscribe, spendVars
  <2> QED BY <2>1, <2>2, <2>3, NodeKept, LooksOn DEF UnderWay, Early
<1>5. CASE Mine
  <2>1. ~overlapped /\ Quiet
    BY <1>2, <1>5 DEF Mine
  <2>2. Resting /\ subscribed
    BY <1>3, <2>1, QuietRests
  <2> QED BY <1>3, <1>5, <2>1, <2>2, MineCalm DEF Quiet
<1>6. ASSUME NEW t \in Threads, ReceiveStep(t) PROVE NodeInv' /\ LookedAt' /\ UnderWay'
  <2>1. ~overlapped
    BY <1>6 DEF ReceiveStep
  <2> QED BY <1>1, <1>3, <1>6, <2>1, ReceiveCalm
<1>7. ASSUME NEW i \in Sends, NEW amount \in Amounts, Call(i, amount)
      PROVE  NodeInv' /\ LookedAt' /\ UnderWay'
  <2>1. ~overlapped /\ Quiet
    BY <1>2, <1>7 DEF Call
  <2>2. Resting /\ subscribed
    BY <1>3, <2>1, QuietRests
  <2> QED BY <1>3, <1>7, <2>1, <2>2, CallCalm DEF Quiet
<1>8. ASSUME NEW i \in Sends, SendStep(i) PROVE NodeInv' /\ LookedAt' /\ UnderWay'
  <2>1. ~overlapped
    BY <1>2, <1>8, SendFrame
  <2> QED BY <1>1, <1>3, <1>8, <2>1, SendCalm
<1>9. ASSUME NEW a \in NewAddrs, Issue(a) PROVE NodeInv' /\ LookedAt' /\ UnderWay'
  <2>1. /\ UNCHANGED <<storeVars, spendVars, height, filter, subscribed, target, scan, moving>>
        /\ addresses \subseteq addresses' /\ ~overlapped
    BY <1>9 DEF Issue, GetNewAddress
  <2> QED BY <1>3, <2>1, StillCalm
<1>10. CASE UNCHANGED walletVars
  <2>1. /\ UNCHANGED <<storeVars, spendVars, height, filter, subscribed, target, scan, moving>>
        /\ addresses \subseteq addresses' /\ ~overlapped
    BY <1>10 DEF walletVars, allScanVars, scanVars
  <2> QED BY <1>3, <2>1, StillCalm
<1> QED BY <1>1, <1>4, <1>5, <1>6, <1>7, <1>8, <1>9, <1>10
        DEF WalletNext, ScanPanic, ChangePanic, Die

\* The empty wallet rests.
LEMMA CalmInitially == WalletInit => CalmInv
<1> SUFFICES ASSUME WalletInit PROVE NodeInv /\ LookedAt /\ Resting
  BY DEF CalmInv, UnderWay
<1>1. /\ scan = [t \in Threads |-> ThreadAt(IF t = Sync THEN "count" ELSE "idle", 0)]
      /\ memUtxos = <<>> /\ memScanned = 0 /\ dbScanned = 0 /\ memBalance = 0 /\ dbBalance = 0
      /\ dbUtxos = <<>> /\ height = 0 /\ target = 0 /\ addresses = InitAddrs
      /\ filter = InitAddrs /\ Sync \in Threads
  BY WalletAssumption, SyncIsThread DEF WalletInit, ScanInit
<1>2. \A i \in Sends : send[i].pc = "idle" /\ marker[i].pc = "idle" /\ changer[i].pc = "idle"
                       /\ balancer[i].pc = "idle"
  BY DEF WalletInit, SpendInit, NoMark, NoCopy, NoWrite
<1>3. DOMAIN nodeCoins = {} /\ nodeSpent = {}
  BY WalletAssumption DEF WalletInit, SpendInit, InitKeys
<1>4. NodeInv /\ LookedAt
  <2>1. 1 .. height = {}
    BY <1>1
  <2> QED BY <1>1, <1>3, <2>1 DEF NodeInv, LookedAt
<1>5. NodeValue = 0
  BY <1>3, SumEmpty DEF NodeValue
<1>6. Agrees(memUtxos, nodeCoins, nodeSpent, DOMAIN dbUtxos, {}, {})
  <2>1. DOMAIN memUtxos = {}
    BY <1>1
  <2> QED BY <1>3, <2>1 DEF Agrees, NoneTwice, Listed, Marked
<1>7. /\ scan[Sync].pc = "count" /\ \A t \in Threads \ {Sync} : scan[t].pc = "idle"
  BY <1>1 DEF ThreadAt
<1>8. AllFinished
  BY <1>2 DEF AllFinished, Finished
<1> QED BY <1>1, <1>4, <1>5, <1>6, <1>7, <1>8 DEF Resting, Counted, Balanced

\* When blocks and calls come one after the other and nothing fails, the wallet
\* at rest agrees with the node.  It needs one publisher that tells of every
\* payment, since a block that is not notified is not counted and one that is
\* notified twice is listed twice, and payments in transactions of their own,
\* since markSpentUTXOs takes coins of one transaction for each other.
THEOREM WalletAgreesExactly ==
  ASSUME DistinctPayments, EachIsTold
  PROVE  WalletSafety => []WalletExact
<1> DEFINE Inv == WalletInv /\ AllShown /\ CalmInv
<1>1. WalletInit => Inv
  BY WalletInitially, CalmInitially
<1>2. Inv /\ [WalletNext]_walletVars => Inv'
  BY WalletStep, CalmStep
<1>3. Inv => WalletExact
  BY CalmIsExact
<1> QED BY <1>1, <1>2, <1>3, PTL DEF WalletSafety
=============================================================================
