---------------------------- MODULE ScanProofs -----------------------------
(***************************************************************************)
(* Proofs about Scan, for every chain, every set of addresses, either kind *)
(* of node, any number of publishers and any number of failures and        *)
(* crashes.                                                                *)
(***************************************************************************)
EXTENDS Scan, StoreProofs

-----------------------------------------------------------------------------
(* Typing. *)

LEMMA SyncIsThread == Sync \in Threads
BY DEF Threads

\* What a goroutine is reading inside a block is an output of the chain.
LEMMA CurrentTyped ==
  ASSUME ScanTypeOK, NEW t \in Threads,
         AtOutput(t) \/ scan[t].pc \in OutputPCs
  PROVE  /\ scan[t].block \in 1 .. Len(Chain)
         /\ scan[t].pos \in 1 .. Len(Block(t))
         /\ Current(t) = Chain[scan[t].block][scan[t].pos]
         /\ Current(t) \in OutputRecords
         /\ NewUtxo(Current(t)) \in UtxoRecords
<1>1. scan[t].block \in 1 .. Len(Chain)
  BY DEF ScanTypeOK, AtOutput, BlockPCs
<1>2. Chain \in Seq(Seq(OutputRecords)) /\ Len(Chain) \in Nat
  BY ChainAssumption
<1>3. Block(t) \in Seq(OutputRecords)
  BY <1>1, <1>2 DEF Block
<1>4. scan[t].pos \in 1 .. Len(Block(t))
  BY <1>3 DEF ScanTypeOK, AtOutput
<1>5. Current(t) \in OutputRecords
  BY <1>3, <1>4 DEF Current
<1>6. NewUtxo(Current(t)) \in UtxoRecords
  BY <1>5 DEF NewUtxo, UtxoRecords, OutputRecords
<1> QED BY <1>1, <1>4, <1>5, <1>6 DEF Current, Block

\* The part of the type invariant that is about the goroutines.
ScanRecords == [pc : ScanPCs, block : 0 .. Len(Chain), pos : Nat \ {0}, local : Int]

ThreadOK(t, s) ==
  /\ s \in ScanRecords
  /\ s.pc \in BlockPCs => s.block \in 1 .. Len(Chain) /\ (t # Sync => s.block = t[1])
  /\ s.pc \in OutputPCs => s.pos <= Len(Chain[s.block])

LEMMA ThreadTyping ==
  ASSUME ScanTypeOK
  PROVE  \A t \in Threads : ThreadOK(t, scan[t])
BY DEF ScanTypeOK, ThreadOK, ScanRecords, Block

\* The moves of one goroutine keep all of them well typed.
ThreadsTyped ==
  /\ scan \in [Threads -> ScanRecords]
  /\ \A t \in Threads : ThreadOK(t, scan[t])

LEMMA GoTyped ==
  ASSUME ScanTypeOK, NEW t \in Threads, NEW pc \in ScanPCs, Go(t, pc),
         pc \in BlockPCs => scan[t].pc \in BlockPCs,
         pc \in OutputPCs => AtOutput(t) \/ scan[t].pc \in OutputPCs
  PROVE  ThreadsTyped'
<1>1. ScanTypeOK /\ ThreadsTyped
  BY ThreadTyping DEF ScanTypeOK, ScanRecords, ThreadsTyped
<1>2. pc \in OutputPCs => scan[t].pos <= Len(Block(t))
  BY CurrentTyped, <1>1 DEF ScanTypeOK, AtOutput
<1> QED BY <1>1, <1>2 DEF Go, ThreadsTyped, ThreadOK, ScanRecords, Block

LEMMA GoWithTyped ==
  ASSUME ScanTypeOK, NEW t \in Threads, NEW pc \in ScanPCs, NEW v \in Int,
         GoWith(t, pc, v),
         pc \in BlockPCs => scan[t].pc \in BlockPCs,
         pc \in OutputPCs => AtOutput(t) \/ scan[t].pc \in OutputPCs
  PROVE  ThreadsTyped'
<1>1. ScanTypeOK /\ ThreadsTyped
  BY ThreadTyping DEF ScanTypeOK, ScanRecords, ThreadsTyped
<1>2. pc \in OutputPCs => scan[t].pos <= Len(Block(t))
  BY CurrentTyped, <1>1 DEF ScanTypeOK, AtOutput
<1> QED BY <1>1, <1>2 DEF GoWith, ThreadsTyped, ThreadOK, ScanRecords, Block

LEMMA NextOutputTyped ==
  ASSUME ScanTypeOK, NEW t \in Threads, NextOutput(t), scan[t].pc \in BlockPCs
  PROVE  ThreadsTyped'
<1>1. ScanTypeOK /\ ThreadsTyped
  BY ThreadTyping DEF ScanTypeOK, ScanRecords, ThreadsTyped
<1>2. "outputs" \in ScanPCs /\ "outputs" \in BlockPCs /\ "outputs" \notin OutputPCs
  BY DEF ScanPCs, BlockPCs, OutputPCs
<1> QED BY <1>1, <1>2 DEF NextOutput, ThreadsTyped, ThreadOK, ScanRecords

LEMMA TypingFromThreads ==
  ASSUME ThreadsTyped', StoreTypeOK', height' \in 0 .. Len(Chain),
         addresses' \in SUBSET (InitAddrs \cup NewAddrs),
         filter' \in SUBSET (InitAddrs \cup NewAddrs),
         subscribed' \in BOOLEAN, target' \in 0 .. Len(Chain),
         faults' \in Nat, crashes' \in Nat
  PROVE  ScanTypeOK'
BY DEF ScanTypeOK, ThreadsTyped, ThreadOK, ScanRecords, Block

LEMMA ReturnTyped ==
  ASSUME ScanTypeOK, NEW t \in Threads, Return(t)
  PROVE  ThreadsTyped'
BY GoTyped DEF Return, ScanPCs, BlockPCs, OutputPCs

\* A restart puts every goroutine at its start.
LEMMA StartTyped ==
  ASSUME ScanTypeOK,
         scan' = [t \in Threads |-> ThreadAt(IF t = Sync THEN "count" ELSE "idle", 0)]
  PROVE  ThreadsTyped'
BY ChainAssumption
   DEF ThreadsTyped, ThreadOK, ScanRecords, ThreadAt, ScanPCs, BlockPCs, OutputPCs

\* The counters and heights stay numbers.
LEMMA NumbersTyped ==
  ASSUME ScanTypeOK
  PROVE  /\ Len(Chain) \in Nat /\ 0 \in 0 .. Len(Chain)
         /\ Fault => faults' \in Nat
         /\ crashes + 1 \in Nat
         /\ memScanned + 1 \in Int
         /\ height < Len(Chain) => height + 1 \in 1 .. Len(Chain) /\ height + 1 \in 0 .. Len(Chain)
<1>1. Len(Chain) \in Nat
  BY ChainAssumption
<1>2. faults \in Nat /\ crashes \in Nat /\ memScanned \in Int /\ height \in 0 .. Len(Chain)
  BY DEF ScanTypeOK, StoreTypeOK
<1> QED BY <1>1, <1>2 DEF Fault

LEMMA TypingInit == ScanInit => ScanTypeOK
<1> SUFFICES ASSUME ScanInit PROVE ScanTypeOK
  OBVIOUS
<1>1. StoreTypeOK
  BY FS_EmptySet DEF ScanInit, StoreTypeOK
<1>2. ThreadsTyped
  BY ChainAssumption
     DEF ScanInit, ThreadsTyped, ThreadOK, ScanRecords, ThreadAt, ScanPCs, BlockPCs, OutputPCs
<1>3. Len(Chain) \in Nat /\ InitHeight \in 0 .. Len(Chain)
  BY ChainAssumption
<1>4. /\ height \in 0 .. Len(Chain) /\ target \in 0 .. Len(Chain)
      /\ addresses \in SUBSET (InitAddrs \cup NewAddrs)
      /\ filter \in SUBSET (InitAddrs \cup NewAddrs)
      /\ subscribed \in BOOLEAN /\ faults \in Nat /\ crashes \in Nat
  <2>1. height = InitHeight /\ target = 0 /\ faults = 0 /\ crashes = 0 /\ subscribed = FALSE
    BY DEF ScanInit
  <2>2. addresses = InitAddrs /\ filter = InitAddrs
    BY DEF ScanInit
  <2>3. height \in 0 .. Len(Chain) /\ target \in 0 .. Len(Chain)
    BY <1>3, <2>1
  <2> QED BY <2>1, <2>2, <2>3
<1> QED BY <1>1, <1>2, <1>4 DEF ScanTypeOK, ThreadsTyped, ThreadOK, ScanRecords, Block

\* So does the next start of the program, from what is in the database.
LEMMA RestartKeepsTypes == ScanTypeOK /\ Restart => ScanTypeOK'
<1> SUFFICES ASSUME ScanTypeOK, Restart PROVE ScanTypeOK'
  OBVIOUS
<1>0. Len(Chain) \in Nat
  BY ChainAssumption
<1>1. ThreadsTyped'
  BY StartTyped DEF Restart
<1>2. memUtxos' \in Seq(UtxoRecords) /\ memBalance' \in Int /\ memScanned' \in Int
  BY LoadWalletLists DEF Restart, ScanTypeOK, StoreTypeOK
<1>3. StoreTypeOK'
  BY <1>2 DEF Restart, ScanTypeOK, StoreTypeOK, dbVars
<1> QED BY <1>0, <1>1, <1>3, NumbersTyped, TypingFromThreads DEF Restart, ScanTypeOK

LEMMA TypingStep == ScanTypeOK /\ [ScanNext]_allScanVars => ScanTypeOK'
<1> SUFFICES ASSUME ScanTypeOK, [ScanNext]_allScanVars PROVE ScanTypeOK'
  OBVIOUS
<1>0. Chain \in Seq(Seq(OutputRecords)) /\ Len(Chain) \in Nat /\ InitHeight \in 0 .. Len(Chain)
  BY ChainAssumption
<1>1. CASE GetBlockCount
  <2>1. ThreadsTyped'
    BY <1>1, SyncIsThread, GoTyped DEF GetBlockCount, ScanPCs, BlockPCs, OutputPCs
  <2> QED BY <1>1, <2>1, TypingFromThreads DEF GetBlockCount, ScanTypeOK, storeVars, StoreTypeOK
<1>2. CASE GetBlockCountFails
  <2>1. ThreadsTyped'
    BY <1>2, SyncIsThread, GoTyped DEF GetBlockCountFails, ScanPCs, BlockPCs, OutputPCs
  <2> QED BY <1>2, <2>1, NumbersTyped, TypingFromThreads DEF GetBlockCountFails, ScanTypeOK, storeVars, StoreTypeOK
<1>3. CASE FetchMissingBlock
  <2>1. ThreadsTyped'
    <3>1. ThreadOK(Sync, ThreadAt("outputs", memScanned + 1))
      <4>1. memScanned + 1 \in 1 .. Len(Chain)
        BY <1>0, <1>3 DEF FetchMissingBlock, ScanTypeOK, StoreTypeOK
      <4> QED BY <4>1 DEF ThreadOK, ScanRecords, ThreadAt, ScanPCs, BlockPCs, OutputPCs
    <3> QED BY <1>3, <3>1, SyncIsThread, ThreadTyping
               DEF FetchMissingBlock, ThreadsTyped, ThreadOK, ScanRecords, ScanTypeOK
  <2> QED BY <1>3, <2>1, TypingFromThreads DEF FetchMissingBlock, ScanTypeOK, storeVars, StoreTypeOK
<1>4. CASE Subscribe
  <2>1. ThreadsTyped'
    BY <1>4, SyncIsThread, GoTyped DEF Subscribe, ScanPCs, BlockPCs, OutputPCs
  <2> QED BY <1>4, <2>1, TypingFromThreads DEF Subscribe, ScanTypeOK, storeVars, StoreTypeOK
<1>5. ASSUME NEW t \in Threads, BlockStep(t) PROVE ScanTypeOK'
  <2>1. CASE FetchBlockFails(t)
    <3>1. ThreadsTyped'
      BY <2>1, ReturnTyped DEF FetchBlockFails
    <3> QED BY <2>1, <3>1, NumbersTyped, TypingFromThreads DEF FetchBlockFails, ScanTypeOK, storeVars, StoreTypeOK
  <2>2. CASE SkipOutput(t)
    <3>1. ThreadsTyped'
      BY <2>2, NextOutputTyped DEF SkipOutput, AtOutput, BlockPCs
    <3> QED BY <2>2, <3>1, TypingFromThreads DEF SkipOutput, ScanTypeOK, storeVars, StoreTypeOK
  <2>3. CASE SaveReceived(t)
    <3>1. ThreadsTyped'
      BY <2>3, GoTyped DEF SaveReceived, Received, AtOutput, ScanPCs, BlockPCs, OutputPCs
    <3>2. NewUtxo(Current(t)) \in UtxoRecords
      BY <2>3, CurrentTyped DEF SaveReceived, Received
    <3>3. StoreTypeOK'
      BY <2>3, <3>2, SaveUtxoKeeps DEF SaveReceived, ScanTypeOK, StoreTypeOK, memVars
    <3> QED BY <2>3, <3>1, <3>3, TypingFromThreads DEF SaveReceived, ScanTypeOK
  <2>4. CASE SaveReceivedFails(t)
    <3>1. ThreadsTyped'
      BY <2>4, GoTyped, ReturnTyped
         DEF SaveReceivedFails, Received, AtOutput, ScanPCs, BlockPCs, OutputPCs
    <3> QED BY <2>4, <3>1, NumbersTyped, TypingFromThreads DEF SaveReceivedFails, ScanTypeOK, storeVars, StoreTypeOK
  <2>5. CASE AppendReceived(t)
    <3>1. ThreadsTyped'
      BY <2>5, GoTyped DEF AppendReceived, ScanPCs, BlockPCs, OutputPCs
    <3>2. NewUtxo(Current(t)) \in UtxoRecords
      BY <2>5, CurrentTyped DEF AppendReceived, OutputPCs
    <3>3. StoreTypeOK'
      BY <2>5, <3>2 DEF AppendReceived, AppendUtxo, ScanTypeOK, StoreTypeOK, dbVars
    <3> QED BY <2>5, <3>1, <3>3, TypingFromThreads DEF AppendReceived, ScanTypeOK
  <2>6. CASE ReadBalance(t)
    <3>1. memBalance + Current(t).value \in Int
      <4>1. Current(t).value \in Int
        BY <2>6, CurrentTyped DEF ReadBalance, OutputPCs, OutputRecords
      <4>2. memBalance \in Int
        BY DEF ScanTypeOK, StoreTypeOK
      <4> QED BY <4>1, <4>2
    <3>2. ThreadsTyped'
      BY <2>6, <3>1, GoWithTyped DEF ReadBalance, ScanPCs, BlockPCs, OutputPCs
    <3> QED BY <2>6, <3>2, TypingFromThreads DEF ReadBalance, ScanTypeOK, storeVars, StoreTypeOK
  <2>7. CASE SaveCredit(t)
    <3>1. ThreadsTyped'
      BY <2>7, GoTyped DEF SaveCredit, ScanPCs, BlockPCs, OutputPCs
    <3>2. StoreTypeOK'
      BY <2>7 DEF SaveCredit, SaveBalance, ScanTypeOK, StoreTypeOK, memVars
    <3> QED BY <2>7, <3>1, <3>2, TypingFromThreads DEF SaveCredit, ScanTypeOK
  <2>8. CASE SaveCreditFails(t)
    <3>1. ThreadsTyped'
      BY <2>8, NextOutputTyped, ReturnTyped
         DEF SaveCreditFails, ScanPCs, BlockPCs, OutputPCs
    <3> QED BY <2>8, <3>1, NumbersTyped, TypingFromThreads DEF SaveCreditFails, ScanTypeOK, storeVars, StoreTypeOK
  <2>9. CASE SetCredit(t)
    <3>1. ThreadsTyped'
      BY <2>9, NextOutputTyped DEF SetCredit, BlockPCs, OutputPCs
    <3>2. StoreTypeOK'
      BY <2>9 DEF SetCredit, SetBalance, ScanTypeOK, StoreTypeOK, dbVars
    <3> QED BY <2>9, <3>1, <3>2, TypingFromThreads DEF SetCredit, ScanTypeOK
  <2>10. CASE ReadScanned(t)
    <3>2. ThreadsTyped'
      BY <2>10, NumbersTyped, GoWithTyped DEF ReadScanned, ScanPCs, BlockPCs, OutputPCs
    <3> QED BY <2>10, <3>2, TypingFromThreads DEF ReadScanned, ScanTypeOK, storeVars, StoreTypeOK
  <2>11. CASE SaveAdvance(t)
    <3>1. ThreadsTyped'
      BY <2>11, GoTyped DEF SaveAdvance, ScanPCs, BlockPCs, OutputPCs
    <3>2. StoreTypeOK'
      BY <2>11 DEF SaveAdvance, SaveScanned, ScanTypeOK, StoreTypeOK, memVars
    <3> QED BY <2>11, <3>1, <3>2, TypingFromThreads DEF SaveAdvance, ScanTypeOK
  <2>12. CASE SaveAdvanceFails(t)
    <3>1. ThreadsTyped'
      BY <2>12, ReturnTyped DEF SaveAdvanceFails
    <3> QED BY <2>12, <3>1, NumbersTyped, TypingFromThreads DEF SaveAdvanceFails, ScanTypeOK, storeVars, StoreTypeOK
  <2>13. CASE SetAdvance(t)
    <3>1. ThreadsTyped'
      BY <2>13, ReturnTyped DEF SetAdvance
    <3>2. StoreTypeOK'
      BY <2>13 DEF SetAdvance, SetScanned, ScanTypeOK, StoreTypeOK, dbVars
    <3> QED BY <2>13, <3>1, <3>2, TypingFromThreads DEF SetAdvance, ScanTypeOK
  <2> QED BY <1>5, <2>1, <2>2, <2>3, <2>4, <2>5, <2>6, <2>7, <2>8, <2>9, <2>10, <2>11, <2>12, <2>13
          DEF BlockStep
<1>6. ASSUME Restart PROVE ScanTypeOK'
  BY <1>6, RestartKeepsTypes
<1>7. CASE MineBlock
  <2>1. ASSUME NEW t \in Threads, t # Sync, t[1] = height + 1, height < Len(Chain)
        PROVE  ThreadOK(t, ThreadAt("outputs", height + 1))
    BY <1>0, <2>1 DEF ThreadOK, ScanRecords, ThreadAt, ScanTypeOK, ScanPCs, BlockPCs, OutputPCs
  <2>2. Sync[1] = 0
    BY DEF Sync
  <2>3. height + 1 # 0
    BY DEF ScanTypeOK
  <2>4. ASSUME NEW t \in Threads PROVE ThreadOK(t, scan'[t])
    <3>1. scan'[t] = scan[t] \/ (t[1] = height + 1 /\ scan'[t] = ThreadAt("outputs", height + 1))
      BY <1>7 DEF MineBlock
    <3>2. t[1] = height + 1 => t # Sync
      BY <2>2, <2>3
    <3> QED BY <1>7, <2>1, <3>1, <3>2, ThreadTyping DEF MineBlock
  <2>5. ThreadsTyped'
    BY <1>7, <2>4 DEF MineBlock, ThreadsTyped, ThreadOK
  <2> QED BY <1>0, <1>7, <2>5, NumbersTyped, TypingFromThreads DEF MineBlock, ScanTypeOK, storeVars, StoreTypeOK
<1>8. ASSUME NEW a \in NewAddrs, GetNewAddress(a) PROVE ScanTypeOK'
  <2>1. ThreadsTyped'
    BY <1>8, ThreadTyping DEF GetNewAddress, ThreadsTyped, ScanTypeOK, ScanRecords
  <2> QED BY <1>8, <2>1, TypingFromThreads DEF GetNewAddress, ScanTypeOK, storeVars, StoreTypeOK
<1>9. CASE UNCHANGED allScanVars
  BY <1>9 DEF allScanVars, scanVars, storeVars, ScanTypeOK, StoreTypeOK, Block
<1> QED BY <1>1, <1>2, <1>3, <1>4, <1>5, <1>6, <1>7, <1>8, <1>9
        DEF ScanNext, SyncStep, Panic, Crash

\* Every value the variables of the scanner can ever hold has its type, and
\* a goroutine only ever scans the block it was started for.
THEOREM ScanTyped == ScanSafety => []ScanTypeOK
BY TypingInit, TypingStep, PTL DEF ScanSafety

-----------------------------------------------------------------------------
(* AppendedIsSaved, whatever goroutines overlap and whatever fails. *)

\* A goroutine about to append a UTXO has saved it.
AppendReady == \A t \in Threads :
  scan[t].pc = "append" => Outpoint(NewUtxo(Current(t))) \in DOMAIN dbUtxos

\* A step that lets the database be and brings no goroutine to "append".
LEMMA AppendReadyKept ==
  ASSUME ScanTypeOK, AppendReady, UNCHANGED dbUtxos,
         \A t \in Threads : scan'[t].pc = "append" => scan'[t] = scan[t]
  PROVE  AppendReady'
BY DEF AppendReady, Current, Block

\* The same for a step of one goroutine that takes it somewhere else.
LEMMA OneLeaves ==
  ASSUME ScanTypeOK, NEW t \in Threads,
         \/ \E pc \in ScanPCs \ {"append"} : Go(t, pc)
         \/ \E pc \in ScanPCs \ {"append"}, v \in Int : GoWith(t, pc, v)
         \/ NextOutput(t)
         \/ Return(t)
  PROVE  \A u \in Threads : scan'[u].pc = "append" => scan'[u] = scan[u]
BY DEF Go, GoWith, NextOutput, Return, ScanTypeOK

LEMMA AppendStep ==
  ScanTypeOK /\ AppendReady /\ AppendedIsSaved /\ [ScanNext]_allScanVars
    => AppendReady' /\ AppendedIsSaved'
<1> SUFFICES ASSUME ScanTypeOK, AppendReady, AppendedIsSaved, [ScanNext]_allScanVars
             PROVE  AppendReady' /\ AppendedIsSaved'
  OBVIOUS
<1> DEFINE Others == \A t \in Threads : scan'[t].pc = "append" => scan'[t] = scan[t]
<1>1. ASSUME UNCHANGED <<memUtxos, dbUtxos>>, Others PROVE AppendReady' /\ AppendedIsSaved'
  BY <1>1, AppendReadyKept DEF AppendedIsSaved
<1>2. CASE SyncStep
  <2>1. UNCHANGED <<memUtxos, dbUtxos>>
    BY <1>2 DEF SyncStep, GetBlockCount, GetBlockCountFails, FetchMissingBlock, Subscribe, storeVars
  <2>2. Others
    <3>1. CASE FetchMissingBlock
      BY <3>1 DEF FetchMissingBlock, ThreadAt, ScanTypeOK
    <3>2. CASE GetBlockCount \/ GetBlockCountFails \/ Subscribe
      BY <3>2, SyncIsThread, OneLeaves
         DEF GetBlockCount, GetBlockCountFails, Subscribe, ScanPCs, BlockPCs, OutputPCs
    <3> QED BY <1>2, <3>1, <3>2 DEF SyncStep
  <2> QED BY <1>1, <2>1, <2>2
<1>3. ASSUME NEW t \in Threads, BlockStep(t) PROVE AppendReady' /\ AppendedIsSaved'
  <2>1. CASE SaveReceived(t)
    <3>1. NewUtxo(Current(t)) \in UtxoRecords
      BY <2>1, CurrentTyped DEF SaveReceived, Received
    <3>2. DOMAIN dbUtxos' = DOMAIN dbUtxos \cup {Outpoint(NewUtxo(Current(t)))}
      BY <2>1, <3>1, SaveUtxoKeeps DEF SaveReceived, ScanTypeOK
    <3>3. scan'[t].block = scan[t].block /\ scan'[t].pos = scan[t].pos
      BY <2>1 DEF SaveReceived, Go, ScanTypeOK
    <3>4. Current(t)' = Current(t)
      BY <3>3 DEF Current, Block
    <3>5. \A u \in Threads \ {t} : scan'[u] = scan[u] /\ Current(u)' = Current(u)
      BY <2>1 DEF SaveReceived, Go, ScanTypeOK, Current, Block
    <3>6. AppendReady'
      BY <3>2, <3>4, <3>5 DEF AppendReady, NewUtxo, Outpoint
    <3> QED BY <2>1, <3>2, <3>6 DEF SaveReceived, AppendedIsSaved, memVars
  <2>2. CASE AppendReceived(t)
    <3>1. memUtxos' = Append(memUtxos, NewUtxo(Current(t))) /\ UNCHANGED dbUtxos
      BY <2>2 DEF AppendReceived, AppendUtxo, dbVars
    <3>2. NewUtxo(Current(t)) \in UtxoRecords /\ memUtxos \in Seq(UtxoRecords)
      BY <2>2, CurrentTyped DEF AppendReceived, OutputPCs, ScanTypeOK, StoreTypeOK
    <3>3. Outpoint(NewUtxo(Current(t))) \in DOMAIN dbUtxos
      BY <2>2 DEF AppendReceived, AppendReady
    <3>4. AppendedIsSaved'
      BY <3>1, <3>2, <3>3 DEF AppendedIsSaved
    <3>5. Others
      BY <2>2, OneLeaves DEF AppendReceived, ScanPCs, BlockPCs, OutputPCs
    <3> QED BY <3>1, <3>4, <3>5, AppendReadyKept
  <2>3. CASE FetchBlockFails(t) \/ SkipOutput(t) \/ SaveReceivedFails(t)
    <3>1. UNCHANGED <<memUtxos, dbUtxos>>
      BY <2>3 DEF FetchBlockFails, SkipOutput, SaveReceivedFails, storeVars
    <3>2. Others
      BY <2>3, OneLeaves
         DEF FetchBlockFails, SkipOutput, SaveReceivedFails, Return, ScanPCs, BlockPCs, OutputPCs
    <3> QED BY <1>1, <3>1, <3>2
  <2>4. CASE ReadBalance(t) \/ ReadScanned(t)
    <3>1. UNCHANGED <<memUtxos, dbUtxos>>
      BY <2>4 DEF ReadBalance, ReadScanned, storeVars
    <3>2. Others
      BY <2>4 DEF ReadBalance, ReadScanned, GoWith, ScanTypeOK
    <3> QED BY <1>1, <3>1, <3>2
  <2>5. CASE SaveCredit(t) \/ SaveCreditFails(t) \/ SetCredit(t)
    <3>1. UNCHANGED <<memUtxos, dbUtxos>>
      BY <2>5 DEF SaveCredit, SaveCreditFails, SetCredit, storeVars, memVars, dbVars
    <3>2. Others
      BY <2>5, OneLeaves
         DEF SaveCredit, SaveCreditFails, SetCredit, ScanPCs, BlockPCs, OutputPCs
    <3> QED BY <1>1, <3>1, <3>2
  <2>6. CASE SaveAdvance(t) \/ SaveAdvanceFails(t) \/ SetAdvance(t)
    <3>1. UNCHANGED <<memUtxos, dbUtxos>>
      BY <2>6 DEF SaveAdvance, SaveAdvanceFails, SetAdvance, storeVars, memVars, dbVars
    <3>2. Others
      BY <2>6, OneLeaves
         DEF SaveAdvance, SaveAdvanceFails, SetAdvance, ScanPCs, BlockPCs, OutputPCs
    <3> QED BY <1>1, <3>1, <3>2
  <2> QED BY <1>3, <2>1, <2>2, <2>3, <2>4, <2>5, <2>6 DEF BlockStep
<1>4. ASSUME Restart PROVE AppendReady' /\ AppendedIsSaved'
  <2>1. AppendedIsSaved'
    BY <1>4, LoadWalletSaved DEF Restart, AppendedIsSaved, ScanTypeOK, dbVars
  <2>2. Others
    BY <1>4 DEF Restart, ThreadAt
  <2> QED BY <1>4, <2>1, <2>2, AppendReadyKept DEF Restart, dbVars
<1>5. CASE MineBlock
  <2>1. Others
    BY <1>5 DEF MineBlock, ThreadAt
  <2> QED BY <1>1, <1>5, <2>1 DEF MineBlock, storeVars
<1>6. ASSUME NEW a \in NewAddrs, GetNewAddress(a) PROVE AppendReady' /\ AppendedIsSaved'
  BY <1>1, <1>6 DEF GetNewAddress, storeVars
<1>7. CASE UNCHANGED allScanVars
  BY <1>1, <1>7 DEF allScanVars, storeVars, scanVars
<1> QED BY <1>2, <1>3, <1>4, <1>5, <1>6, <1>7 DEF ScanNext, Panic, Crash

\* With any number of overlapping scans, failed writes and crashes, the wallet
\* never lists a coin that its database has not got.
THEOREM ScanAppendedIsSaved == ScanSafety => []AppendedIsSaved
<1>1. ScanInit => AppendReady /\ AppendedIsSaved
  BY DEF ScanInit, AppendReady, AppendedIsSaved, ThreadAt
<1> QED BY <1>1, AppendStep, ScanTyped, PTL DEF ScanSafety

-----------------------------------------------------------------------------
(* Catch-up: all blocks are there when the wallet starts, so that Sync is  *)
(* the only goroutine that scans.                                          *)

\* The own outputs that thread s has dealt with: those before its position,
\* and the current one once it has been saved.
Dealt(s) == {i \in OwnPositions(s.block) : i < s.pos \/ (i = s.pos /\ s.pc \in OutputPCs)}

\* Where Sync is in a block, seen from the database.
SyncInv(s) ==
  /\ s.pc # "setScanned" => memScanned = dbScanned
  /\ s.pc \in OutputPCs \cup {"outputs", "saveScanned"} =>
        /\ s.block = dbScanned + 1
        /\ \A i \in Dealt(s) : Outpoint(Chain[s.block][i]) \in DOMAIN dbUtxos
  /\ s.pc = "saveScanned" =>
        /\ s.local = dbScanned + 1
        /\ OwnOutpoints(s.block) \subseteq DOMAIN dbUtxos
  /\ s.pc = "setScanned" => s.local = dbScanned

CatchUpInv ==
  /\ height = Len(Chain)
  /\ InitAddrs \subseteq addresses
  /\ \A t \in Threads \ {Sync} : scan[t].pc = "idle"
  /\ dbScanned \in 0 .. Len(Chain)
  /\ ScannedIsRecorded
  /\ SyncInv(scan[Sync])

LEMMA CatchUpInit ==
  ASSUME InitHeight = Len(Chain), ScanInit
  PROVE  CatchUpInv
<1>1. Len(Chain) \in Nat
  BY ChainAssumption
<1>2. scan[Sync] = ThreadAt("count", 0) /\ \A t \in Threads \ {Sync} : scan[t] = ThreadAt("idle", 0)
  BY SyncIsThread DEF ScanInit
<1>3. SyncInv(scan[Sync])
  BY <1>2 DEF SyncInv, ThreadAt, OutputPCs, ScanInit
<1>4. dbScanned = 0 /\ height = Len(Chain) /\ addresses = InitAddrs
  BY DEF ScanInit
<1>5. ScannedIsRecorded
  BY <1>4 DEF ScannedIsRecorded
<1> QED BY <1>1, <1>2, <1>3, <1>4, <1>5 DEF CatchUpInv, ThreadAt

\* Only Sync has anything to do, and it reaches every output of the block.
LEMMA OnlySyncScans ==
  ASSUME ScanTypeOK, CatchUpInv, NEW t \in Threads, BlockStep(t) \/ Panics(t)
  PROVE  t = Sync
BY DEF CatchUpInv, BlockStep, Panics, AtOutput, FetchBlockFails, SkipOutput, SaveReceived,
       SaveReceivedFails, Received, AppendReceived, ReadBalance, SaveCredit, SaveCreditFails,
       SetCredit, ReadScanned, SaveAdvance, SaveAdvanceFails, SetAdvance

\* An output that Sync skips is none of the wallet's.
LEMMA SkippedIsForeign ==
  ASSUME InitHeight = Len(Chain), ScanTypeOK, CatchUpInv, SkipOutput(Sync)
  PROVE  scan[Sync].pos \notin OwnPositions(scan[Sync].block)
<1>1. AtOutput(Sync) /\ Current(Sync).addr \notin addresses
  BY DEF SkipOutput, Received, Delivered, UsesScanBlock
<1>2. /\ scan[Sync].block \in 1 .. Len(Chain)
      /\ Current(Sync) = Chain[scan[Sync].block][scan[Sync].pos]
      /\ scan[Sync].pos \in 1 .. Len(Block(Sync))
  BY <1>1, SyncIsThread, CurrentTyped
<1>3. Block(Sync) \in Seq(OutputRecords)
  BY <1>2, ChainAssumption DEF Block
<1>4. Current(Sync).addr \notin NewAddrs
  BY <1>2, <1>3, ChainAssumption DEF Block
<1> QED BY <1>1, <1>2, <1>4 DEF OwnPositions, CatchUpInv

\* The block is done when no position is left.
LEMMA DoneIsRecorded ==
  ASSUME ScanTypeOK, CatchUpInv, ReadScanned(Sync)
  PROVE  OwnOutpoints(scan[Sync].block) \subseteq DOMAIN dbUtxos
<1> DEFINE s == scan[Sync]
<1>1. s.pc = "outputs" /\ s.pos > Len(Chain[s.block]) /\ s.pos \in Nat /\ s.block \in 1 .. Len(Chain)
  BY SyncIsThread DEF ReadScanned, Block, ScanTypeOK, BlockPCs
<1>2. Chain[s.block] \in Seq(OutputRecords)
  BY <1>1, ChainAssumption
<1>3. OwnPositions(s.block) \subseteq Dealt(s)
  BY <1>1, <1>2 DEF Dealt, OwnPositions
<1> QED BY <1>1, <1>3 DEF OwnOutpoints, CatchUpInv, SyncInv

\* What one step of the catch-up does to the database.
PromiseStep == [Promise!Record \/ Promise!Advance]_(Promise!receiptVars)

LEMMA CatchUpInvStep ==
  ASSUME InitHeight = Len(Chain), ScanTypeOK, CatchUpInv, [ScanNext]_allScanVars
  PROVE  CatchUpInv' /\ PromiseStep
<1> DEFINE s == scan[Sync]
<1>0. /\ Chain \in Seq(Seq(OutputRecords)) /\ Len(Chain) \in Nat
      /\ Sync \in Threads /\ scan \in [Threads -> ScanRecords]
  BY ChainAssumption, SyncIsThread DEF ScanTypeOK, ScanRecords
<1>1. ASSUME UNCHANGED <<dbUtxos, dbScanned, height>>, InitAddrs \subseteq addresses',
             \A t \in Threads \ {Sync} : scan'[t].pc = "idle", SyncInv(s)'
      PROVE  CatchUpInv' /\ PromiseStep
  BY <1>1 DEF CatchUpInv, ScannedIsRecorded, PromiseStep, Promise!receiptVars
<1>2. CASE SyncStep
  <2>1. UNCHANGED <<storeVars, height, addresses>>
    BY <1>2 DEF SyncStep, GetBlockCount, GetBlockCountFails, FetchMissingBlock, Subscribe
  <2>2. \A t \in Threads \ {Sync} : scan'[t] = scan[t]
    BY <1>2 DEF SyncStep, GetBlockCount, GetBlockCountFails, FetchMissingBlock, Subscribe, Go, ScanTypeOK
  <2>3. SyncInv(s)'
    <3>1. CASE FetchMissingBlock
      <4>1. scan'[Sync] = ThreadAt("outputs", memScanned + 1) /\ s.pc = "loop"
        BY <1>0, <3>1 DEF FetchMissingBlock
      <4>2. memScanned = dbScanned
        BY <4>1 DEF CatchUpInv, SyncInv
      <4>3. \A i \in OwnPositions(memScanned + 1) : ~(i < 1) /\ i \in Nat
        <5>1. memScanned + 1 \in 1 .. Len(Chain)
          BY <3>1 DEF FetchMissingBlock, CatchUpInv
        <5>2. Chain[memScanned + 1] \in Seq(OutputRecords)
          BY <1>0, <5>1
        <5> QED BY <5>2 DEF OwnPositions
      <4>4. Dealt(ThreadAt("outputs", memScanned + 1)) = {}
        BY <4>3 DEF Dealt, ThreadAt, OutputPCs
      <4> QED BY <2>1, <4>1, <4>2, <4>4 DEF SyncInv, ThreadAt, storeVars, OutputPCs
    <3>2. CASE GetBlockCount \/ GetBlockCountFails \/ Subscribe
      <4>1. s.pc \in {"count", "loop"} /\ scan'[Sync].pc \in {"idle", "loop"}
        BY <1>0, <3>2 DEF GetBlockCount, GetBlockCountFails, Subscribe, Go, ScanRecords
      <4>2. memScanned = dbScanned
        BY <4>1 DEF CatchUpInv, SyncInv
      <4> QED BY <2>1, <4>1, <4>2 DEF SyncInv, storeVars, OutputPCs
    <3> QED BY <1>2, <3>1, <3>2 DEF SyncStep
  <2> QED BY <1>1, <2>1, <2>2, <2>3 DEF CatchUpInv, storeVars
<1>3. ASSUME BlockStep(Sync) PROVE CatchUpInv' /\ PromiseStep
  <2>0. UNCHANGED <<height, addresses>>
    BY <1>3 DEF BlockStep, FetchBlockFails, SkipOutput, SaveReceived,
        SaveReceivedFails, AppendReceived, ReadBalance, SaveCredit, SaveCreditFails,
        SetCredit, ReadScanned, SaveAdvance, SaveAdvanceFails, SetAdvance
  <2>1. \A t \in Threads \ {Sync} : scan'[t] = scan[t]
    BY <1>0, <1>3 DEF BlockStep, FetchBlockFails, SkipOutput, SaveReceived,
        SaveReceivedFails, AppendReceived, ReadBalance, SaveCredit, SaveCreditFails,
        SetCredit, ReadScanned, SaveAdvance, SaveAdvanceFails, SetAdvance,
        Go, GoWith, NextOutput, Return
  <2>2. ASSUME UNCHANGED <<dbUtxos, dbScanned>>, SyncInv(s)' PROVE CatchUpInv' /\ PromiseStep
    BY <1>1, <2>0, <2>1, <2>2 DEF CatchUpInv
  <2>4. CASE SkipOutput(Sync)
    <3>1. s.pc = "outputs" /\ scan'[Sync] = [s EXCEPT !.pc = "outputs", !.pos = s.pos + 1] /\ UNCHANGED storeVars
      BY <1>0, <2>4 DEF SkipOutput, AtOutput, NextOutput
    <3>2. s.pos \notin OwnPositions(s.block)
      BY <2>4, SkippedIsForeign
    <3>3. s.block \in 1 .. Len(Chain) /\ s.pos \in Nat
      BY <2>4, <1>0, CurrentTyped DEF SkipOutput, ScanRecords
    <3>4. \A i \in OwnPositions(s.block) : i \in Nat
      BY <1>0, <3>3 DEF OwnPositions
    <3>5. Dealt(scan'[Sync]) \subseteq Dealt(s)
      BY <3>1, <3>2, <3>3, <3>4 DEF Dealt, OutputPCs, ScanRecords
    <3>6. scan'[Sync].pc = "outputs" /\ scan'[Sync].block = s.block
      BY <1>0, <3>1 DEF ScanRecords
    <3>7. SyncInv(s)'
      BY <3>1, <3>5, <3>6 DEF SyncInv, CatchUpInv, storeVars, OutputPCs
    <3> QED BY <2>2, <3>1, <3>7 DEF storeVars
  <2>5. CASE SaveReceived(Sync)
    <3> DEFINE u == NewUtxo(Current(Sync))
    <3>1. /\ s.pc = "outputs" /\ UNCHANGED <<memVars, dbScanned>>
          /\ scan'[Sync] = [s EXCEPT !.pc = "append"]
          /\ Current(Sync).addr \in addresses
      BY <1>0, <2>5 DEF SaveReceived, Received, AtOutput, Go
    <3>2. /\ s.block \in 1 .. Len(Chain) /\ s.pos \in 1 .. Len(Chain[s.block])
          /\ Current(Sync) = Chain[s.block][s.pos] /\ u \in UtxoRecords
      BY <1>0, <2>5, CurrentTyped DEF SaveReceived, Received, Block
    <3>3. DOMAIN dbUtxos' = DOMAIN dbUtxos \cup {Outpoint(u)}
      BY <2>5, <3>2, SaveUtxoKeeps DEF SaveReceived, ScanTypeOK
    <3>4. Outpoint(u) = Outpoint(Chain[s.block][s.pos])
      BY <3>2 DEF NewUtxo, Outpoint
    <3>5. scan'[Sync].pc = "append" /\ scan'[Sync].block = s.block /\ scan'[Sync].pos = s.pos
      BY <1>0, <3>1 DEF ScanRecords
    <3>6. Dealt(scan'[Sync]) \subseteq Dealt(s) \cup {s.pos}
      BY <3>5 DEF Dealt
    <3>7. s.block = dbScanned + 1 /\ memScanned = dbScanned
          /\ \A i \in Dealt(s) : Outpoint(Chain[s.block][i]) \in DOMAIN dbUtxos
      BY <3>1 DEF SyncInv, CatchUpInv
    <3>8. SyncInv(s)'
      BY <3>1, <3>3, <3>4, <3>5, <3>6, <3>7 DEF SyncInv, memVars
    <3>9. ScannedIsRecorded'
      BY <3>1, <3>3 DEF ScannedIsRecorded, CatchUpInv
    <3>10. CatchUpInv'
      BY <2>0, <2>1, <3>1, <3>8, <3>9 DEF CatchUpInv
    <3>11. s.pos \in OwnPositions(s.block)
      <4>1. addresses \subseteq InitAddrs \cup NewAddrs
        BY DEF ScanTypeOK
      <4>2. s.pos \in DOMAIN Chain[s.block]
        BY <1>0, <3>2
      <4> QED BY <3>1, <3>2, <4>1, <4>2 DEF OwnPositions
    <3>12. Outpoint(u) \in OwnOutpoints(s.block)
      BY <3>4, <3>11 DEF OwnOutpoints
    <3>13. Promise!Record
      BY <3>1, <3>2, <3>3, <3>12 DEF Promise!Record
    <3> QED BY <3>10, <3>13 DEF PromiseStep
  <2>6. CASE FetchBlockFails(Sync) \/ SaveReceivedFails(Sync) \/ SaveCreditFails(Sync) \/ SaveAdvanceFails(Sync)
    <3>1. /\ UNCHANGED storeVars
          /\ scan'[Sync] = [s EXCEPT !.pc = "loop"]
          /\ s.pc # "setScanned"
      BY <1>0, <2>6
         DEF FetchBlockFails, SaveReceivedFails, Received, AtOutput, SaveCreditFails,
             SaveAdvanceFails, UsesScanBlock, Return, Go
    <3>2. scan'[Sync].pc = "loop"
      BY <1>0, <3>1 DEF ScanRecords
    <3>3. SyncInv(s)'
      BY <3>1, <3>2 DEF SyncInv, CatchUpInv, storeVars, OutputPCs
    <3> QED BY <2>2, <3>1, <3>3 DEF storeVars
  <2>7. CASE AppendReceived(Sync) \/ ReadBalance(Sync) \/ SaveCredit(Sync)
    <3>1. /\ UNCHANGED <<memScanned, dbUtxos, dbScanned>>
          /\ s.pc \in OutputPCs /\ scan'[Sync].pc \in OutputPCs
          /\ scan'[Sync].block = s.block /\ scan'[Sync].pos = s.pos
      BY <1>0, <2>7
         DEF AppendReceived, ReadBalance, SaveCredit, Go, GoWith, ScanRecords,
             storeVars, memVars, dbVars, OutputPCs
    <3>2. Dealt(scan'[Sync]) = Dealt(s)
      BY <3>1 DEF Dealt
    <3>3. SyncInv(s)'
      BY <3>1, <3>2 DEF SyncInv, CatchUpInv, OutputPCs
    <3> QED BY <2>2, <3>1, <3>3
  <2>8. CASE SetCredit(Sync)
    <3>1. /\ UNCHANGED <<memScanned, dbUtxos, dbScanned>> /\ s.pc = "setBalance"
          /\ scan'[Sync].pc = "outputs"
          /\ scan'[Sync].block = s.block /\ scan'[Sync].pos = s.pos + 1
      BY <1>0, <2>8 DEF SetCredit, NextOutput, ScanRecords, dbVars
    <3>2. s.block \in 1 .. Len(Chain) /\ s.pos \in Nat
      BY <1>0, <3>1, CurrentTyped DEF OutputPCs, ScanRecords
    <3>3. \A i \in OwnPositions(s.block) : i \in Nat
      BY <1>0, <3>2 DEF OwnPositions
    <3>4. Dealt(scan'[Sync]) \subseteq Dealt(s)
      BY <3>1, <3>2, <3>3 DEF Dealt, OutputPCs
    <3>5. SyncInv(s)'
      BY <3>1, <3>4 DEF SyncInv, CatchUpInv, OutputPCs
    <3> QED BY <2>2, <3>1, <3>5
  <2>9. CASE ReadScanned(Sync)
    <3>1. /\ UNCHANGED storeVars /\ s.pc = "outputs"
          /\ scan'[Sync].pc = "saveScanned" /\ scan'[Sync].local = memScanned + 1
          /\ scan'[Sync].block = s.block /\ scan'[Sync].pos = s.pos
      BY <1>0, <2>9 DEF ReadScanned, GoWith, ScanRecords
    <3>2. Dealt(scan'[Sync]) \subseteq Dealt(s)
      BY <3>1 DEF Dealt, OutputPCs
    <3>3. memScanned = dbScanned /\ s.block = dbScanned + 1
      BY <3>1 DEF SyncInv, CatchUpInv
    <3>4. OwnOutpoints(s.block) \subseteq DOMAIN dbUtxos
      BY <2>9, DoneIsRecorded
    <3>5. SyncInv(s)'
      BY <3>1, <3>2, <3>3, <3>4 DEF SyncInv, CatchUpInv, storeVars, OutputPCs
    <3> QED BY <2>2, <3>1, <3>5 DEF storeVars
  <2>10. CASE SaveAdvance(Sync)
    <3>1. /\ UNCHANGED <<memScanned, dbUtxos>> /\ s.pc = "saveScanned"
          /\ dbScanned' = s.local
          /\ scan'[Sync].pc = "setScanned" /\ scan'[Sync].local = s.local
      BY <1>0, <2>10 DEF SaveAdvance, SaveScanned, Go, ScanRecords, memVars
    <3>2. /\ s.local = dbScanned + 1 /\ s.block = dbScanned + 1
          /\ OwnOutpoints(s.block) \subseteq DOMAIN dbUtxos
      BY <3>1 DEF SyncInv, CatchUpInv, OutputPCs
    <3>3. s.block \in 1 .. Len(Chain)
      BY <1>0, <3>1 DEF ScanTypeOK, BlockPCs
    <3>4. SyncInv(s)'
      BY <3>1 DEF SyncInv, OutputPCs
    <3>5. ScannedIsRecorded'
      BY <1>0, <3>1, <3>2, <3>3 DEF ScannedIsRecorded, CatchUpInv
    <3>6. CatchUpInv'
      BY <2>0, <2>1, <3>1, <3>2, <3>3, <3>4, <3>5 DEF CatchUpInv
    <3>7. Promise!Advance
      BY <1>0, <3>1, <3>2, <3>3 DEF Promise!Advance, CatchUpInv
    <3> QED BY <3>6, <3>7 DEF PromiseStep
  <2>11. CASE SetAdvance(Sync)
    <3>1. /\ UNCHANGED <<dbUtxos, dbScanned>> /\ s.pc = "setScanned"
          /\ memScanned' = s.local /\ scan'[Sync].pc = "loop"
      BY <1>0, <2>11 DEF SetAdvance, SetScanned, Return, Go, ScanRecords, dbVars
    <3>2. s.local = dbScanned
      BY <3>1 DEF SyncInv, CatchUpInv
    <3>3. SyncInv(s)'
      BY <3>1, <3>2 DEF SyncInv, OutputPCs
    <3> QED BY <2>2, <3>1, <3>3
  <2> QED BY <1>3, <2>4, <2>5, <2>6, <2>7, <2>8, <2>9, <2>10, <2>11 DEF BlockStep
<1>4. ASSUME Restart PROVE CatchUpInv' /\ PromiseStep
  <2>1. UNCHANGED <<dbUtxos, dbScanned, height, addresses>> /\ memScanned' = dbScanned
    BY <1>4 DEF Restart, dbVars, LoadWallet
  <2>2. scan'[Sync] = ThreadAt("count", 0) /\ \A t \in Threads \ {Sync} : scan'[t] = ThreadAt("idle", 0)
    BY <1>0, <1>4 DEF Restart
  <2>3. SyncInv(s)'
    BY <2>1, <2>2 DEF SyncInv, ThreadAt, OutputPCs
  <2> QED BY <1>1, <2>1, <2>2, <2>3 DEF CatchUpInv, ThreadAt
<1>5. ~MineBlock
  BY <1>0 DEF MineBlock, CatchUpInv
<1>6. ASSUME NEW a \in NewAddrs, GetNewAddress(a) PROVE CatchUpInv' /\ PromiseStep
  <2>1. UNCHANGED <<storeVars, height, scan>> /\ InitAddrs \subseteq addresses'
    BY <1>6 DEF GetNewAddress, CatchUpInv
  <2>2. SyncInv(s)'
    BY <2>1 DEF CatchUpInv, SyncInv, storeVars
  <2> QED BY <1>1, <2>1, <2>2 DEF CatchUpInv, storeVars
<1>7. CASE UNCHANGED allScanVars
  <2>1. UNCHANGED <<storeVars, height, scan, addresses>>
    BY <1>7 DEF allScanVars, scanVars
  <2>2. SyncInv(s)'
    BY <2>1 DEF CatchUpInv, SyncInv, storeVars
  <2> QED BY <1>1, <2>1, <2>2 DEF CatchUpInv, storeVars
<1>8. ASSUME NEW t \in Threads, BlockStep(t) \/ Panic(t) PROVE CatchUpInv' /\ PromiseStep
  BY <1>3, <1>4, <1>8, OnlySyncScans DEF Panic
<1> QED BY <1>2, <1>4, <1>5, <1>6, <1>7, <1>8 DEF ScanNext, Crash

\* During catch-up, with any crashes and failed writes, a block counts as
\* scanned only when every coin it pays the wallet is saved.
THEOREM CatchUpRecordsAll ==
  ASSUME InitHeight = Len(Chain)
  PROVE  ScanSafety => []ScannedIsRecorded
<1>1. ScanInit => CatchUpInv
  BY CatchUpInit
<1>2. ScanTypeOK /\ CatchUpInv /\ [ScanNext]_allScanVars => CatchUpInv'
  BY CatchUpInvStep
<1>3. CatchUpInv => ScannedIsRecorded
  BY DEF CatchUpInv
<1> QED BY <1>1, <1>2, <1>3, ScanTyped, PTL DEF ScanSafety

\* Catch-up implements Receipts: what is saved stays saved, and the durable
\* counter advances one recorded block at a time.
THEOREM CatchUpKeepsPromise ==
  ASSUME InitHeight = Len(Chain)
  PROVE  ScanSafety => KeepsPromise
<1>1. ScanInit => CatchUpInv /\ Promise!ReceiptInit
  <2>1. ScanInit => dbUtxos = <<>> /\ dbScanned = 0
    BY DEF ScanInit
  <2>2. DOMAIN <<>> = {}
    OBVIOUS
  <2> QED BY <2>1, <2>2, CatchUpInit DEF Promise!ReceiptInit
<1>2. ScanTypeOK /\ CatchUpInv /\ [ScanNext]_allScanVars => CatchUpInv' /\ PromiseStep
  BY CatchUpInvStep
<1> QED BY <1>1, <1>2, ScanTyped, PTL
        DEF ScanSafety, KeepsPromise, Promise!ReceiptSpec, PromiseStep

-----------------------------------------------------------------------------
(* OnlyOwnCoins, whatever overlaps, fails or crashes.                      *)

\* u is an output of one of the blocks 1 .. h that pays an address of A.
PaidCoin(u, h, A) ==
  \E b \in 1 .. h : \E i \in OwnPositions(b) :
    Chain[b][i].addr \in A /\ u = NewUtxo(Chain[b][i])

\* A goroutine is in a block that has been mined, and about to append only an
\* output that pays an issued address.
ReadsOwn(s, h, A) ==
  /\ s.pc \in BlockPCs => s.block <= h
  /\ s.pc = "append" => Chain[s.block][s.pos].addr \in A

\* The coins, and what the goroutines are about to make of them.
OwnInv == OnlyOwnCoins /\ \A t \in Threads : ReadsOwn(scan[t], height, addresses)

\* The blocks and the issued addresses only become more.
LEMMA OwnGrows ==
  ASSUME NEW h \in Nat, NEW k \in Nat, h <= k, NEW A, NEW B, A \subseteq B
  PROVE  /\ \A u : PaidCoin(u, h, A) => PaidCoin(u, k, B)
         /\ \A s : s.block \in Nat /\ ReadsOwn(s, h, A) => ReadsOwn(s, k, B)
<1>1. 1 .. h \subseteq 1 .. k
  OBVIOUS
<1> QED BY <1>1 DEF PaidCoin, ReadsOwn

\* What a goroutine has found in w.addresses is a coin of the wallet.
LEMMA CurrentIsOwn ==
  ASSUME ScanTypeOK, NEW t \in Threads,
         AtOutput(t) \/ scan[t].pc \in OutputPCs,
         ReadsOwn(scan[t], height, addresses), Current(t).addr \in addresses
  PROVE  PaidCoin(NewUtxo(Current(t)), height, addresses)
<1>1. /\ scan[t].block \in 1 .. Len(Chain) /\ scan[t].pos \in 1 .. Len(Block(t))
      /\ Current(t) = Chain[scan[t].block][scan[t].pos]
  BY CurrentTyped
<1>2. height \in Nat /\ scan[t].block \in 1 .. height
  BY <1>1 DEF ScanTypeOK, ReadsOwn, AtOutput, BlockPCs
<1>3. Chain[scan[t].block] \in Seq(OutputRecords)
  BY <1>1, ChainAssumption
<1>4. scan[t].pos \in OwnPositions(scan[t].block)
  BY <1>1, <1>3 DEF OwnPositions, ScanTypeOK, Block
<1> QED BY <1>1, <1>2, <1>4 DEF PaidCoin

\* A step that lists no new coin and takes no goroutine to "append".
LEMMA OwnKept ==
  ASSUME ScanTypeOK, OwnInv, height' \in Nat, height <= height', addresses \subseteq addresses',
         Range(memUtxos') \subseteq Range(memUtxos) \cup Range(dbUtxos),
         Range(dbUtxos') \subseteq Range(dbUtxos),
         \A t \in Threads : 
           \/ scan'[t] = scan[t]
           \/ scan'[t].pc \in BlockPCs => scan'[t].pc # "append" /\ scan'[t].block <= height'
  PROVE  OwnInv'
<1>1. height \in Nat
  BY DEF ScanTypeOK
<1>2. \A u \in Range(memUtxos') \cup Range(dbUtxos') : PaidCoin(u, height', addresses')
  <2>1. \A u \in Range(memUtxos) \cup Range(dbUtxos) : PaidCoin(u, height, addresses)
    BY DEF OwnInv, OnlyOwnCoins, PaidCoin
  <2>2. \A u : PaidCoin(u, height, addresses) => PaidCoin(u, height', addresses')
    BY <1>1, OwnGrows
  <2> QED BY <2>1, <2>2
<1>3. \A t \in Threads : ReadsOwn(scan'[t], height', addresses')
  <2> SUFFICES ASSUME NEW t \in Threads PROVE ReadsOwn(scan'[t], height', addresses')
    OBVIOUS
  <2>1. ReadsOwn(scan[t], height, addresses) /\ scan[t].block \in Nat
    BY DEF OwnInv, ScanTypeOK
  <2>2. ReadsOwn(scan[t], height', addresses')
    BY <1>1, <2>1, OwnGrows
  <2>3. "append" \in BlockPCs
    BY DEF BlockPCs, OutputPCs
  <2> QED BY <2>2, <2>3 DEF ReadsOwn
<1> QED BY <1>2, <1>3 DEF OwnInv, OnlyOwnCoins, PaidCoin

\* A step of one goroutine to a place other than "append".
LEMMA OneReads ==
  ASSUME ScanTypeOK, OwnInv, NEW t \in Threads,
         \/ \E pc \in ScanPCs \ {"append"} :
              Go(t, pc) /\ (pc \in BlockPCs => scan[t].pc \in BlockPCs)
         \/ \E pc \in ScanPCs \ {"append"}, v \in Int :
              GoWith(t, pc, v) /\ (pc \in BlockPCs => scan[t].pc \in BlockPCs)
         \/ NextOutput(t) /\ scan[t].pc \in BlockPCs
         \/ Return(t)
  PROVE  \A u \in Threads : 
           \/ scan'[u] = scan[u]
           \/ scan'[u].pc \in BlockPCs => scan'[u].pc # "append" /\ scan'[u].block <= height
<1>1. scan \in [Threads -> ScanRecords]
  BY DEF ScanTypeOK, ScanRecords
<1>2. scan[t].pc \in BlockPCs => scan[t].block <= height
  BY DEF OwnInv, ReadsOwn
<1>3. \A u \in Threads \ {t} : scan'[u] = scan[u]
  BY <1>1 DEF Go, GoWith, NextOutput, Return
<1>4. scan'[t].pc \in BlockPCs => scan'[t].pc # "append" /\ scan'[t].block <= height
  <2>1. CASE Return(t)
    BY <1>1, <2>1 DEF Return, Go, ScanRecords, BlockPCs, OutputPCs
  <2>2. CASE NextOutput(t) /\ scan[t].pc \in BlockPCs
    BY <1>1, <1>2, <2>2 DEF NextOutput, ScanRecords
  <2>3. ASSUME NEW pc \in ScanPCs \ {"append"}, Go(t, pc), pc \in BlockPCs => scan[t].pc \in BlockPCs
        PROVE  scan'[t].pc \in BlockPCs => scan'[t].pc # "append" /\ scan'[t].block <= height
    BY <1>1, <1>2, <2>3 DEF Go, ScanRecords
  <2>4. ASSUME NEW pc \in ScanPCs \ {"append"}, NEW v \in Int, GoWith(t, pc, v),
               pc \in BlockPCs => scan[t].pc \in BlockPCs
        PROVE  scan'[t].pc \in BlockPCs => scan'[t].pc # "append" /\ scan'[t].block <= height
    BY <1>1, <1>2, <2>4 DEF GoWith, ScanRecords
  <2> QED BY <2>1, <2>2, <2>3, <2>4
<1> QED BY <1>3, <1>4

\* saveUTXO puts the given record in the bucket and no other new one.
LEMMA SaveUtxoLists ==
  ASSUME NEW u, SaveUtxo(u)
  PROVE  Range(dbUtxos') \subseteq Range(dbUtxos) \cup {u}
BY DEF SaveUtxo, Range

\* Every step keeps the coins the wallet's own.
LEMMA OwnStep == ScanTypeOK /\ OwnInv /\ [ScanNext]_allScanVars => OwnInv'
<1> SUFFICES ASSUME ScanTypeOK, OwnInv, [ScanNext]_allScanVars PROVE OwnInv'
  OBVIOUS
<1> DEFINE Others == \A t \in Threads : 
             \/ scan'[t] = scan[t]
             \/ scan'[t].pc \in BlockPCs => scan'[t].pc # "append" /\ scan'[t].block <= height'
<1>0. height \in Nat
  BY DEF ScanTypeOK
<1>1. ASSUME UNCHANGED <<memUtxos, dbUtxos, height, addresses>>, Others PROVE OwnInv'
  BY <1>0, <1>1, OwnKept
<1>2. CASE SyncStep
  <2>1. UNCHANGED <<memUtxos, dbUtxos, height, addresses>>
    BY <1>2 DEF SyncStep, GetBlockCount, GetBlockCountFails, FetchMissingBlock, Subscribe, storeVars
  <2>2. Others
    <3>1. CASE FetchMissingBlock
      BY <3>1 DEF FetchMissingBlock, ThreadAt, ScanTypeOK, BlockPCs, OutputPCs
    <3>2. CASE GetBlockCount \/ GetBlockCountFails \/ Subscribe
      BY <2>1, <3>2, SyncIsThread, OneReads
         DEF GetBlockCount, GetBlockCountFails, Subscribe, ScanPCs, BlockPCs, OutputPCs
    <3> QED BY <1>2, <3>1, <3>2 DEF SyncStep
  <2> QED BY <1>1, <2>1, <2>2
<1>3. ASSUME NEW t \in Threads, BlockStep(t) PROVE OwnInv'
  <2>1. CASE SaveReceived(t)
    <3>1. PaidCoin(NewUtxo(Current(t)), height, addresses)
      BY <2>1, CurrentIsOwn DEF SaveReceived, Received, OwnInv
    <3>2. Range(dbUtxos') \subseteq Range(dbUtxos) \cup {NewUtxo(Current(t))}
      BY <2>1, SaveUtxoLists DEF SaveReceived
    <3>3. UNCHANGED <<memUtxos, height, addresses>>
      BY <2>1 DEF SaveReceived, memVars
    <3>4. OnlyOwnCoins'
      BY <3>1, <3>2, <3>3 DEF OwnInv, OnlyOwnCoins, PaidCoin
    <3>5. scan[t].pc = "outputs" /\ Current(t).addr \in addresses
      BY <2>1 DEF SaveReceived, Received, AtOutput
    <3>6. scan' = [scan EXCEPT ![t].pc = "append"]
      BY <2>1 DEF SaveReceived, Go
    <3>7. /\ scan'[t].pc = "append" /\ scan'[t].block = scan[t].block /\ scan'[t].pos = scan[t].pos
          /\ \A u \in Threads \ {t} : scan'[u] = scan[u]
      BY <3>6 DEF ScanTypeOK
    <3>8. scan[t].block <= height
      BY <3>5 DEF OwnInv, ReadsOwn, BlockPCs
    <3>9. ReadsOwn(scan'[t], height, addresses)
      BY <3>5, <3>7, <3>8 DEF ReadsOwn, Current, Block
    <3> QED BY <3>3, <3>4, <3>7, <3>9 DEF OwnInv
  <2>2. CASE AppendReceived(t)
    <3>1. memUtxos' = Append(memUtxos, NewUtxo(Current(t))) /\ UNCHANGED <<dbUtxos, height, addresses>>
      BY <2>2 DEF AppendReceived, AppendUtxo, dbVars
    <3>2. memUtxos \in Seq(UtxoRecords) /\ scan[t].pc = "append"
      BY <2>2 DEF AppendReceived, ScanTypeOK, StoreTypeOK
    <3>3. Current(t).addr \in addresses
      BY <3>2 DEF OwnInv, ReadsOwn, Current, Block
    <3>4. PaidCoin(NewUtxo(Current(t)), height, addresses)
      BY <3>2, <3>3, CurrentIsOwn DEF OwnInv, OutputPCs
    <3>5. Range(memUtxos') \subseteq Range(memUtxos) \cup {NewUtxo(Current(t))}
      BY <3>1, <3>2 DEF Range
    <3>6. OnlyOwnCoins'
      BY <3>1, <3>4, <3>5 DEF OwnInv, OnlyOwnCoins, PaidCoin
    <3>7. \A u \in Threads : 
             \/ scan'[u] = scan[u]
             \/ scan'[u].pc \in BlockPCs => scan'[u].pc # "append" /\ scan'[u].block <= height
      BY <2>2, <3>2, OneReads DEF AppendReceived, ScanPCs, BlockPCs, OutputPCs
    <3>8. \A u \in Threads : ReadsOwn(scan'[u], height, addresses)
      <4>1. "append" \in BlockPCs
        BY DEF BlockPCs, OutputPCs
      <4> QED BY <3>7, <4>1 DEF OwnInv, ReadsOwn
    <3> QED BY <3>1, <3>6, <3>8 DEF OwnInv
  <2>3. CASE FetchBlockFails(t) \/ SkipOutput(t) \/ SaveReceivedFails(t)
    <3>1. UNCHANGED <<memUtxos, dbUtxos, height, addresses>>
      BY <2>3 DEF FetchBlockFails, SkipOutput, SaveReceivedFails, storeVars
    <3>2. Others
      BY <2>3, <3>1, OneReads
         DEF FetchBlockFails, SkipOutput, SaveReceivedFails, Received, AtOutput,
             ScanPCs, BlockPCs, OutputPCs
    <3> QED BY <1>1, <3>1, <3>2
  <2>4. CASE ReadBalance(t) \/ ReadScanned(t)
    <3>1. UNCHANGED <<memUtxos, dbUtxos, height, addresses>>
      BY <2>4 DEF ReadBalance, ReadScanned, storeVars
    <3>2. memScanned + 1 \in Int
      BY NumbersTyped
    <3>3. scan[t].pc = "read" => memBalance + Current(t).value \in Int
      <4>1. scan[t].pc = "read" => Current(t).value \in Int
        BY CurrentTyped DEF OutputPCs, OutputRecords
      <4> QED BY <4>1 DEF ScanTypeOK, StoreTypeOK
    <3>4. Others
      BY <2>4, <3>1, <3>2, <3>3, OneReads
         DEF ReadBalance, ReadScanned, ScanPCs, BlockPCs, OutputPCs
    <3> QED BY <1>1, <3>1, <3>4
  <2>5. CASE SaveCredit(t) \/ SaveCreditFails(t) \/ SetCredit(t)
    <3>1. UNCHANGED <<memUtxos, dbUtxos, height, addresses>>
      BY <2>5 DEF SaveCredit, SaveCreditFails, SetCredit, storeVars, memVars, dbVars
    <3>2. Others
      BY <2>5, <3>1, OneReads
         DEF SaveCredit, SaveCreditFails, SetCredit, ScanPCs, BlockPCs, OutputPCs
    <3> QED BY <1>1, <3>1, <3>2
  <2>6. CASE SaveAdvance(t) \/ SaveAdvanceFails(t) \/ SetAdvance(t)
    <3>1. UNCHANGED <<memUtxos, dbUtxos, height, addresses>>
      BY <2>6 DEF SaveAdvance, SaveAdvanceFails, SetAdvance, storeVars, memVars, dbVars
    <3>2. Others
      BY <2>6, <3>1, OneReads
         DEF SaveAdvance, SaveAdvanceFails, SetAdvance, ScanPCs, BlockPCs, OutputPCs
    <3> QED BY <1>1, <3>1, <3>2
  <2> QED BY <1>3, <2>1, <2>2, <2>3, <2>4, <2>5, <2>6 DEF BlockStep
<1>4. ASSUME Restart PROVE OwnInv'
  <2>1. UNCHANGED <<dbUtxos, height, addresses>>
    BY <1>4 DEF Restart, dbVars
  <2>2. Range(memUtxos') \subseteq Range(dbUtxos)
    <3>1. \A i \in DOMAIN memUtxos' : memUtxos'[i] \in Range(dbUtxos)
      BY <1>4, LoadWalletLists DEF Restart, ScanTypeOK
    <3> QED BY <3>1 DEF Range
  <2>3. Others
    BY <1>4 DEF Restart, ThreadAt, BlockPCs, OutputPCs
  <2> QED BY <1>0, <2>1, <2>2, <2>3, OwnKept
<1>5. CASE MineBlock
  <2>1. UNCHANGED <<memUtxos, dbUtxos, addresses>> /\ height' = height + 1
    BY <1>5 DEF MineBlock, storeVars
  <2>2. \A t \in Threads : scan'[t] = scan[t] \/ scan'[t] = ThreadAt("outputs", height + 1)
    BY <1>5 DEF MineBlock
  <2>3. Others
    BY <1>0, <2>1, <2>2 DEF ThreadAt
  <2> QED BY <1>0, <2>1, <2>3, OwnKept
<1>6. ASSUME NEW a \in NewAddrs, GetNewAddress(a) PROVE OwnInv'
  BY <1>0, <1>6, OwnKept DEF GetNewAddress, storeVars
<1>7. CASE UNCHANGED allScanVars
  BY <1>1, <1>7 DEF allScanVars, storeVars, scanVars
<1> QED BY <1>2, <1>3, <1>4, <1>5, <1>6, <1>7 DEF ScanNext, Panic, Crash

\* There are no coins at first.
LEMMA OwnInitially == ScanInit => OwnInv
<1> SUFFICES ASSUME ScanInit PROVE OwnInv
  OBVIOUS
<1>1. Range(memUtxos) = {} /\ Range(dbUtxos) = {}
  BY DEF ScanInit, Range
<1>2. \A t \in Threads : scan[t].pc \in {"count", "idle"}
  BY DEF ScanInit, ThreadAt
<1> QED BY <1>1, <1>2 DEF OwnInv, OnlyOwnCoins, ReadsOwn, BlockPCs, OutputPCs

\* Whatever scans overlap, fail, or are cut off by a crash, the wallet lists
\* and saves only outputs of mined blocks that pay addresses it has issued.
THEOREM ScanListsOwnCoins == ScanSafety => []OnlyOwnCoins
<1>1. OwnInv => OnlyOwnCoins
  BY DEF OwnInv
<1> QED BY <1>1, OwnInitially, OwnStep, ScanTyped, PTL DEF ScanSafety

-----------------------------------------------------------------------------
(* CaughtUpOrNotified: with one publisher, no failure and no crash, every  *)
(* block is scanned by one goroutine, and only once.                       *)

\* An outpoint names one output of the chain: the hash of a transaction and a
\* position among its outputs.
OutpointsDiffer ==
  \A b, c \in 1 .. Len(Chain) : \A i \in DOMAIN Chain[b], j \in DOMAIN Chain[c] :
    Outpoint(Chain[b][i]) = Outpoint(Chain[c][j]) => b = c /\ i = j

ListedKeys   == {Outpoint(memUtxos[j]) : j \in DOMAIN memUtxos}
Fresh(b) == \A i \in DOMAIN Chain[b] : Outpoint(Chain[b][i]) \notin ListedKeys

\* The outputs of its block that thread s may still append.
Ahead(s) ==
  {i \in DOMAIN Chain[s.block] : i > s.pos \/ (i = s.pos /\ s.pc \in {"outputs", "append"})}

\* The last block that Sync has begun.
Begun == IF scan[Sync].pc \in BlockPCs THEN memScanned + 1 ELSE memScanned

\* Sync and the goroutines of notifications do not scan at the same time, and
\* Sync takes the blocks in their order.
OneAtATime ==
  /\ scan[Sync].pc # "idle" => ~subscribed
  /\ ~subscribed => \A t \in Threads \ {Sync} : scan[t].pc = "idle"
  /\ scan[Sync].pc \in BlockPCs => scan[Sync].block = memScanned + 1
  /\ scan[Sync].pc \in {"saveScanned", "setScanned"} => scan[Sync].local = memScanned + 1

\* No output that somebody may still append is listed already.
AheadIsFresh ==
  /\ \A t \in Threads : scan[t].pc \in BlockPCs =>
       \A i \in Ahead(scan[t]) : Outpoint(Chain[scan[t].block][i]) \notin ListedKeys
  /\ \A b \in height + 1 .. Len(Chain) : Fresh(b)
  /\ scan[Sync].pc # "idle" => \A b \in Begun + 1 .. Len(Chain) : Fresh(b)

\* The invariant of an undisturbed wallet with one publisher.
OnceInv == CoinsListedOnce /\ OneAtATime /\ AheadIsFresh

Undisturbed == faults = 0 /\ crashes = 0

\* With one publisher there is one goroutine per block.
LEMMA OneThreadPerBlock ==
  ASSUME Cardinality(Publishers) = 1, ScanTypeOK, OneAtATime,
         NEW t \in Threads, NEW u \in Threads,
         scan[t].pc \in BlockPCs, scan[u].pc \in BlockPCs, scan[t].block = scan[u].block
  PROVE  t = u
<1>1. \A p, q \in Publishers : p = q
  <2>1. PICK p : Publishers = {p}
    BY FS_Singleton, NodeAssumption
  <2> QED BY <2>1
<1>2. ASSUME NEW v \in Threads, NEW w \in Threads, v = Sync, w # Sync,
             scan[v].pc \in BlockPCs, scan[w].pc \in BlockPCs
      PROVE  FALSE
  BY <1>2 DEF OneAtATime, BlockPCs, OutputPCs
<1>3. CASE t # Sync /\ u # Sync
  <2>1. t \in (1 .. Len(Chain)) \X Publishers /\ u \in (1 .. Len(Chain)) \X Publishers
    BY <1>3 DEF Threads
  <2>2. t[1] = u[1]
    BY <1>3 DEF ScanTypeOK
  <2> QED BY <1>1, <2>1, <2>2
<1> QED BY <1>2, <1>3

\* Steps that list nothing: no goroutine gets more ahead of it than it had,
\* or it starts with a block that is fresh.
LEMMA OnceKept ==
  ASSUME ScanTypeOK, OnceInv, UNCHANGED memUtxos, height' \in Nat, height <= height', OneAtATime',
         \A t \in Threads : scan'[t].pc \in BlockPCs =>
            \/ /\ scan[t].pc \in BlockPCs /\ scan'[t].block = scan[t].block
               /\ Ahead(scan'[t]) \subseteq Ahead(scan[t])
            \/ Fresh(scan'[t].block),
         scan'[Sync].pc # "idle" => scan[Sync].pc # "idle" /\ Begun' \in Int /\ Begun <= Begun'
  PROVE  OnceInv'
<1>0. height \in Nat /\ Begun \in Int /\ Len(Chain) \in Nat
  BY ChainAssumption DEF ScanTypeOK, StoreTypeOK, Begun
<1>1. ListedKeys' = ListedKeys /\ \A b : Fresh(b)' = Fresh(b)
  BY DEF ListedKeys, Fresh
<1>2. CoinsListedOnce'
  BY DEF OnceInv, CoinsListedOnce
<1>3. ASSUME NEW t \in Threads, scan'[t].pc \in BlockPCs, NEW i \in Ahead(scan'[t])
      PROVE  Outpoint(Chain[scan'[t].block][i]) \notin ListedKeys
  <2>1. CASE Fresh(scan'[t].block)
    BY <1>3, <2>1 DEF Fresh, Ahead
  <2> QED BY <1>3, <2>1 DEF OnceInv, AheadIsFresh
<1>4. \A b \in height' + 1 .. Len(Chain) : Fresh(b)
  <2>1. height' + 1 .. Len(Chain) \subseteq height + 1 .. Len(Chain)
    BY <1>0
  <2> QED BY <2>1 DEF OnceInv, AheadIsFresh
<1>5. ASSUME scan'[Sync].pc # "idle", NEW b \in Begun' + 1 .. Len(Chain) PROVE Fresh(b)
  <2>1. Begun' + 1 .. Len(Chain) \subseteq Begun + 1 .. Len(Chain)
    BY <1>0, <1>5
  <2> QED BY <1>5, <2>1 DEF OnceInv, AheadIsFresh
<1> QED BY <1>1, <1>2, <1>3, <1>4, <1>5 DEF OnceInv, AheadIsFresh

\* A step of one goroutine within its block.
LEMMA OnceMoves ==
  ASSUME ScanTypeOK, OnceInv, NEW t \in Threads, scan[t].pc \in BlockPCs,
         UNCHANGED <<memUtxos, memScanned, height, subscribed>>,
         \A u \in Threads \ {t} : scan'[u] = scan[u],
         scan'[t].pc \in BlockPCs, scan'[t].block = scan[t].block,
         Ahead(scan'[t]) \subseteq Ahead(scan[t]),
         scan'[t].pc \in {"saveScanned", "setScanned"} => scan'[t].local = memScanned + 1
  PROVE  OnceInv'
<1>1. "idle" \notin BlockPCs /\ Sync \in Threads
  BY SyncIsThread DEF BlockPCs, OutputPCs
<1>2. OneAtATime'
  BY <1>1 DEF OnceInv, OneAtATime
<1>3. Begun' = Begun /\ (scan'[Sync].pc = "idle" <=> scan[Sync].pc = "idle")
  BY <1>1 DEF Begun
<1>4. height \in Nat /\ Begun \in Int
  BY DEF ScanTypeOK, StoreTypeOK, Begun
<1> QED BY <1>2, <1>3, <1>4, OnceKept

\* No step lists a coin that somebody else has listed or may still list.
LEMMA OnceStep ==
  ASSUME Cardinality(Publishers) = 1, OutpointsDiffer,
         ScanTypeOK, OwnInv, Undisturbed => OnceInv, [ScanNext]_allScanVars, Undisturbed'
  PROVE  OnceInv'
<1>0. /\ scan \in [Threads -> ScanRecords] /\ Sync \in Threads
      /\ height \in Nat /\ memScanned \in Int /\ Len(Chain) \in Nat
      /\ faults \in Nat /\ crashes \in Nat
  BY SyncIsThread, ChainAssumption DEF ScanTypeOK, ScanRecords, StoreTypeOK
<1>1. ~Fault /\ crashes' # crashes + 1
  BY <1>0 DEF Undisturbed, Fault
<1>2. CASE SyncStep
  <2>1. UNCHANGED <<memUtxos, memScanned, height, faults, crashes>>
    BY <1>1, <1>2 DEF SyncStep, GetBlockCount, GetBlockCountFails, FetchMissingBlock, Subscribe, storeVars
  <2>2. OnceInv
    BY <2>1 DEF Undisturbed
  <2>3. CASE FetchMissingBlock
    <3>1. /\ scan' = [scan EXCEPT ![Sync] = ThreadAt("outputs", memScanned + 1)]
          /\ scan[Sync].pc = "loop" /\ memScanned + 1 \in 1 .. height /\ UNCHANGED subscribed
      BY <2>3 DEF FetchMissingBlock
    <3>2. /\ scan'[Sync] = ThreadAt("outputs", memScanned + 1)
          /\ \A u \in Threads \ {Sync} : scan'[u] = scan[u]
      BY <1>0, <3>1
    <3>3. /\ scan'[Sync].pc = "outputs" /\ scan'[Sync].block = memScanned + 1
      BY <3>2 DEF ThreadAt
    <3>4. Begun = memScanned /\ Begun' = memScanned + 1
      BY <2>1, <3>1, <3>3 DEF Begun, BlockPCs, OutputPCs
    <3>5. Fresh(memScanned + 1)
      <4>1. memScanned + 1 \in Begun + 1 .. Len(Chain)
        BY <1>0, <3>1, <3>4 DEF ScanTypeOK
      <4> QED BY <2>2, <3>1, <4>1 DEF OnceInv, AheadIsFresh
    <3>6. OneAtATime'
      BY <2>1, <2>2, <3>1, <3>2, <3>3 DEF OnceInv, OneAtATime
    <3>7. \A t \in Threads : scan'[t] = scan[t] \/ Fresh(scan'[t].block)
      BY <3>2, <3>3, <3>5
    <3> QED BY <1>0, <2>1, <2>2, <3>1, <3>4, <3>6, <3>7, OnceKept
  <2>4. CASE GetBlockCount \/ Subscribe
    <3>1. /\ scan[Sync].pc \in {"count", "loop"} /\ scan'[Sync].pc \in {"loop", "idle"}
          /\ \A u \in Threads \ {Sync} : scan'[u] = scan[u]
      BY <1>0, <2>4 DEF GetBlockCount, Subscribe, Go, ScanRecords
    <3>2. scan'[Sync].pc = "loop" => UNCHANGED subscribed
      BY <1>0, <2>4 DEF GetBlockCount, Subscribe, Go, ScanRecords
    <3>3. subscribed' \in BOOLEAN /\ (subscribed => subscribed')
      BY <2>4 DEF GetBlockCount, Subscribe, ScanTypeOK
    <3>4. OneAtATime'
      BY <2>2, <3>1, <3>2, <3>3 DEF OnceInv, OneAtATime, BlockPCs, OutputPCs
    <3>5. Begun' = Begun
      BY <2>1, <3>1 DEF Begun, BlockPCs, OutputPCs
    <3>6. scan'[Sync].pc \notin BlockPCs
      BY <3>1 DEF BlockPCs, OutputPCs
    <3>7. \A t \in Threads : scan'[t].pc \in BlockPCs => scan'[t] = scan[t]
      BY <3>1, <3>6
    <3>8. Begun \in Int
      BY <1>0 DEF Begun
    <3> QED BY <1>0, <2>1, <2>2, <3>1, <3>4, <3>5, <3>7, <3>8, OnceKept
  <2>5. ~GetBlockCountFails
    BY <1>1 DEF GetBlockCountFails
  <2> QED BY <1>2, <2>3, <2>4, <2>5 DEF SyncStep
<1>3. ASSUME NEW t \in Threads, BlockStep(t) PROVE OnceInv'
  <2> DEFINE s == scan[t]
             r == scan'[t]
  <2>1. ~(FetchBlockFails(t) \/ SaveReceivedFails(t) \/ SaveCreditFails(t) \/ SaveAdvanceFails(t))
    BY <1>1 DEF FetchBlockFails, SaveReceivedFails, SaveCreditFails, SaveAdvanceFails
  <2>2. UNCHANGED <<height, subscribed, faults, crashes>>
    BY <1>3, <2>1 DEF BlockStep, SkipOutput, SaveReceived, AppendReceived, ReadBalance,
                      SaveCredit, SetCredit, ReadScanned, SaveAdvance, SetAdvance
  <2>3. OnceInv
    BY <2>2 DEF Undisturbed
  <2>4. \A u \in Threads \ {t} : scan'[u] = scan[u]
    BY <1>0, <1>3, <2>1
       DEF BlockStep, SkipOutput, SaveReceived, AppendReceived, ReadBalance,
           SaveCredit, SetCredit, ReadScanned, SaveAdvance, SetAdvance,
           Go, GoWith, NextOutput, Return
  <2>5. s.pc \in BlockPCs
    BY <1>3, <2>1
       DEF BlockStep, SkipOutput, SaveReceived, Received, AtOutput, AppendReceived, ReadBalance,
           SaveCredit, SetCredit, ReadScanned, SaveAdvance, SetAdvance, BlockPCs, OutputPCs
  <2>6. Chain[s.block] \in Seq(OutputRecords) /\ s.pos \in Nat /\ s.block \in 1 .. Len(Chain)
    BY <1>0, <2>5, ChainAssumption DEF ScanTypeOK, ScanRecords
  <2>7. CASE AppendReceived(t)
    <3> DEFINE o == Outpoint(Chain[s.block][s.pos])
    <3>1. s.pc = "append" /\ memUtxos' = Append(memUtxos, NewUtxo(Current(t))) /\ UNCHANGED memScanned
      BY <2>7 DEF AppendReceived, AppendUtxo
    <3>2. r.pc = "read" /\ r.block = s.block /\ r.pos = s.pos
      BY <1>0, <2>7 DEF AppendReceived, Go, ScanRecords
    <3>3. s.pos \in DOMAIN Chain[s.block] /\ Outpoint(NewUtxo(Current(t))) = o
      <4>1. AtOutput(t) \/ s.pc \in OutputPCs
        BY <3>1 DEF OutputPCs
      <4>2. Current(t) = Chain[s.block][s.pos] /\ s.pos \in 1 .. Len(Chain[s.block])
        BY <4>1, CurrentTyped DEF Block
      <4> QED BY <2>6, <4>2 DEF NewUtxo, Outpoint
    <3>4. memUtxos \in Seq(UtxoRecords)
      BY DEF ScanTypeOK, StoreTypeOK
    <3>5. o \notin ListedKeys
      BY <2>3, <2>5, <3>1, <3>3 DEF OnceInv, AheadIsFresh, Ahead
    <3>6. ListedKeys' = ListedKeys \cup {o}
      BY <3>1, <3>3, <3>4 DEF ListedKeys
    <3>7. CoinsListedOnce'
      <4> SUFFICES ASSUME NEW i \in DOMAIN memUtxos', NEW j \in DOMAIN memUtxos',
                          Outpoint(memUtxos'[i]) = Outpoint(memUtxos'[j])
                   PROVE  i = j
        BY DEF CoinsListedOnce
      <4> DEFINE n == Len(memUtxos)
      <4>1. DOMAIN memUtxos' = DOMAIN memUtxos \cup {n + 1} /\ n \in Nat /\ DOMAIN memUtxos = 1 .. n
        BY <3>1, <3>4
      <4>2. /\ \A k \in DOMAIN memUtxos : memUtxos'[k] = memUtxos[k] /\ Outpoint(memUtxos[k]) # o
            /\ Outpoint(memUtxos'[n + 1]) = o
        BY <3>1, <3>3, <3>4, <3>5 DEF ListedKeys
      <4>3. CoinsListedOnce
        BY <2>3 DEF OnceInv
      <4> QED BY <4>1, <4>2, <4>3 DEF CoinsListedOnce
    <3>8. OneAtATime'
      BY <1>0, <2>2, <2>3, <2>4, <3>1, <3>2 DEF OnceInv, OneAtATime, BlockPCs, OutputPCs
    <3>9. ASSUME NEW b \in 1 .. Len(Chain), NEW i \in DOMAIN Chain[b],
                 Outpoint(Chain[b][i]) \notin ListedKeys, b # s.block \/ i # s.pos
          PROVE  Outpoint(Chain[b][i]) \notin ListedKeys'
      BY <2>6, <3>3, <3>6, <3>9 DEF OutpointsDiffer
    <3>10. ASSUME NEW u \in Threads, scan'[u].pc \in BlockPCs, NEW i \in Ahead(scan'[u])
           PROVE  Outpoint(Chain[scan'[u].block][i]) \notin ListedKeys'
      <4>1. CASE u = t
        <5>1. i \in DOMAIN Chain[s.block] /\ i > s.pos
          BY <3>2, <3>10, <4>1 DEF Ahead
        <5>2. Outpoint(Chain[s.block][i]) \notin ListedKeys /\ i # s.pos
          BY <2>3, <2>5, <2>6, <5>1 DEF OnceInv, AheadIsFresh, Ahead
        <5> QED BY <2>6, <3>2, <3>9, <4>1, <5>1, <5>2
      <4>2. CASE u # t
        <5>1. scan'[u] = scan[u] /\ scan[u].pc \in BlockPCs
          BY <2>4, <3>10, <4>2
        <5>2. scan[u].block # s.block
          BY <2>3, <2>5, <4>2, <5>1, OneThreadPerBlock DEF OnceInv
        <5>3. Outpoint(Chain[scan[u].block][i]) \notin ListedKeys /\ i \in DOMAIN Chain[scan[u].block]
          BY <2>3, <3>10, <5>1 DEF OnceInv, AheadIsFresh, Ahead
        <5>4. scan[u].block \in 1 .. Len(Chain)
          BY <5>1 DEF ScanTypeOK
        <5> QED BY <3>9, <5>1, <5>2, <5>3, <5>4
      <4> QED BY <4>1, <4>2
    <3>11. ASSUME NEW b \in 1 .. Len(Chain), Fresh(b), b # s.block PROVE Fresh(b)'
      BY <3>9, <3>11 DEF Fresh
    <3>12. \A b \in height + 1 .. Len(Chain) : Fresh(b)'
      <4>1. s.block <= height
        BY <2>5 DEF OwnInv, ReadsOwn
      <4>2. \A b \in height + 1 .. Len(Chain) : b \in 1 .. Len(Chain) /\ b # s.block
        BY <1>0, <2>6, <4>1
      <4> QED BY <2>3, <3>11, <4>2 DEF OnceInv, AheadIsFresh
    <3>13. ASSUME scan'[Sync].pc # "idle", NEW b \in Begun' + 1 .. Len(Chain) PROVE Fresh(b)'
      <4>1. t = Sync
        BY <1>0, <2>3, <2>4, <2>5, <3>13 DEF OnceInv, OneAtATime, BlockPCs, OutputPCs
      <4>2. Begun' = memScanned + 1 /\ Begun = memScanned + 1 /\ s.block = memScanned + 1
        BY <2>3, <2>5, <3>1, <3>2, <4>1 DEF Begun, OnceInv, OneAtATime, BlockPCs, OutputPCs
      <4>3. b \in 1 .. Len(Chain) /\ b # s.block
        BY <1>0, <2>6, <3>13, <4>2
      <4>4. Fresh(b)
        BY <2>3, <3>1, <3>13, <4>1, <4>2 DEF OnceInv, AheadIsFresh
      <4> QED BY <3>11, <4>3, <4>4
    <3> QED BY <2>2, <3>7, <3>8, <3>10, <3>12, <3>13 DEF OnceInv, AheadIsFresh
  <2>8. CASE SkipOutput(t) \/ SetCredit(t)
    <3>1. UNCHANGED <<memUtxos, memScanned>>
      BY <2>8 DEF SkipOutput, SetCredit, storeVars
    <3>2. r.pc = "outputs" /\ r.block = s.block /\ r.pos = s.pos + 1
      BY <1>0, <2>8 DEF SkipOutput, SetCredit, NextOutput, ScanRecords
    <3>3. \A i \in DOMAIN Chain[s.block] : i \in Nat
      BY <2>6
    <3>4. Ahead(r) \subseteq Ahead(s)
      BY <2>6, <3>2, <3>3 DEF Ahead
    <3> QED BY <2>2, <2>3, <2>4, <2>5, <3>1, <3>2, <3>4, OnceMoves DEF BlockPCs, OutputPCs
  <2>9. CASE SaveReceived(t) \/ ReadBalance(t) \/ SaveCredit(t)
    <3>1. UNCHANGED <<memUtxos, memScanned>>
      BY <2>9 DEF SaveReceived, ReadBalance, SaveCredit, storeVars, memVars
    <3>2. /\ (s.pc = "outputs" /\ r.pc = "append") \/ r.pc \in {"saveBalance", "setBalance"}
          /\ r.block = s.block /\ r.pos = s.pos
      BY <1>0, <2>9 DEF SaveReceived, Received, AtOutput, ReadBalance, SaveCredit, Go, GoWith, ScanRecords
    <3>3. Ahead(r) \subseteq Ahead(s)
      BY <3>2 DEF Ahead
    <3>4. r.pc \in BlockPCs /\ r.pc \notin {"saveScanned", "setScanned"}
      BY <3>2 DEF BlockPCs, OutputPCs
    <3> QED BY <2>2, <2>3, <2>4, <2>5, <3>1, <3>2, <3>3, <3>4, OnceMoves
  <2>10. CASE ReadScanned(t)
    <3>1. UNCHANGED <<memUtxos, memScanned>>
      BY <2>10 DEF ReadScanned, storeVars
    <3>2. r.pc = "saveScanned" /\ r.block = s.block /\ r.pos = s.pos /\ r.local = memScanned + 1
      BY <1>0, <2>10 DEF ReadScanned, GoWith, ScanRecords
    <3>3. Ahead(r) \subseteq Ahead(s)
      BY <3>2 DEF Ahead
    <3>4. r.pc \in BlockPCs
      BY <3>2 DEF BlockPCs
    <3> QED BY <2>2, <2>3, <2>4, <2>5, <3>1, <3>2, <3>3, <3>4, OnceMoves
  <2>11. CASE SaveAdvance(t)
    <3>1. UNCHANGED <<memUtxos, memScanned>>
      BY <2>11 DEF SaveAdvance, memVars
    <3>2. s.pc = "saveScanned" /\ r.pc = "setScanned" /\ r.block = s.block /\ r.pos = s.pos /\ r.local = s.local
      BY <1>0, <2>11 DEF SaveAdvance, Go, ScanRecords
    <3>3. Ahead(r) \subseteq Ahead(s)
      BY <3>2 DEF Ahead
    <3>4. r.pc \in BlockPCs
      BY <3>2 DEF BlockPCs
    <3>5. OneAtATime'
      BY <1>0, <2>2, <2>3, <2>4, <3>1, <3>2, <3>4 DEF OnceInv, OneAtATime, BlockPCs, OutputPCs
    <3>6. Begun' = Begun /\ Begun \in Int /\ (scan'[Sync].pc # "idle" => scan[Sync].pc # "idle")
      BY <1>0, <2>4, <2>5, <3>1, <3>2, <3>4 DEF Begun
    <3> QED BY <1>0, <2>2, <2>3, <2>4, <2>5, <3>1, <3>2, <3>3, <3>5, <3>6, OnceKept
  <2>12. CASE SetAdvance(t)
    <3>1. UNCHANGED memUtxos /\ s.pc = "setScanned" /\ memScanned' = s.local
      BY <2>12 DEF SetAdvance, SetScanned
    <3>2. r.pc = IF t = Sync THEN "loop" ELSE "idle"
      BY <1>0, <2>12 DEF SetAdvance, Return, Go, ScanRecords
    <3>3. r.pc \notin BlockPCs
      BY <3>2 DEF BlockPCs, OutputPCs
    <3>4. CASE t = Sync
      <4>1. memScanned' = memScanned + 1 /\ scan'[Sync].pc = "loop"
        BY <2>3, <3>1, <3>2, <3>4 DEF OnceInv, OneAtATime
      <4>2. Begun = memScanned + 1 /\ Begun' = memScanned + 1
        BY <2>5, <3>3, <3>4, <4>1 DEF Begun
      <4>3. OneAtATime'
        BY <2>2, <2>3, <2>4, <3>1, <3>3, <3>4, <4>1 DEF OnceInv, OneAtATime
      <4>4. \A u \in Threads : scan'[u].pc \in BlockPCs => scan'[u] = scan[u]
        BY <2>4, <3>3
      <4>5. Begun' \in Int /\ Begun <= Begun'
        BY <1>0, <4>2
      <4> QED BY <1>0, <2>2, <2>3, <3>1, <3>4, <4>3, <4>4, <4>5, OnceKept
    <3>5. CASE t # Sync
      <4>1. subscribed /\ scan'[Sync] = scan[Sync] /\ scan[Sync].pc = "idle"
        BY <1>0, <2>3, <2>4, <3>1, <3>5 DEF OnceInv, OneAtATime
      <4>2. OneAtATime'
        BY <2>2, <4>1 DEF OneAtATime, BlockPCs, OutputPCs
      <4>3. \A u \in Threads : scan'[u].pc \in BlockPCs => scan'[u] = scan[u]
        BY <2>4, <3>3
      <4> QED BY <1>0, <2>2, <2>3, <3>1, <4>1, <4>2, <4>3, OnceKept
    <3> QED BY <3>4, <3>5
  <2> QED BY <1>3, <2>1, <2>7, <2>8, <2>9, <2>10, <2>11, <2>12 DEF BlockStep
<1>4. CASE MineBlock
  <2>1. /\ UNCHANGED <<memUtxos, memScanned, subscribed, faults, crashes>>
        /\ height' = height + 1 /\ height < Len(Chain)
    BY <1>4 DEF MineBlock, storeVars
  <2>2. OnceInv
    BY <2>1 DEF Undisturbed
  <2>3. ASSUME NEW t \in Threads
        PROVE  \/ scan'[t] = scan[t]
               \/ subscribed /\ t # Sync /\ scan'[t] = ThreadAt("outputs", height + 1)
    <3>1. Sync[1] = 0 /\ height + 1 # 0
      BY <1>0 DEF Sync
    <3> QED BY <1>4, <3>1 DEF MineBlock
  <2>4. Fresh(height + 1)
    BY <1>0, <2>1, <2>2 DEF OnceInv, AheadIsFresh
  <2>5. scan'[Sync] = scan[Sync]
    BY <1>0, <2>3
  <2>6. OneAtATime'
    BY <2>1, <2>2, <2>3, <2>5 DEF OnceInv, OneAtATime
  <2>7. Begun' = Begun /\ Begun \in Int
    BY <1>0, <2>1, <2>5 DEF Begun
  <2>8. \A t \in Threads : scan'[t] = scan[t] \/ Fresh(scan'[t].block)
    BY <2>3, <2>4 DEF ThreadAt
  <2> QED BY <1>0, <2>1, <2>2, <2>5, <2>6, <2>7, <2>8, OnceKept
<1>5. ASSUME NEW a \in NewAddrs, GetNewAddress(a) PROVE OnceInv'
  <2>1. UNCHANGED <<memUtxos, memScanned, scan, height, subscribed, faults, crashes>>
    BY <1>5 DEF GetNewAddress, storeVars
  <2> QED BY <2>1 DEF Undisturbed, OnceInv, OneAtATime, AheadIsFresh, CoinsListedOnce,
                      ListedKeys, Fresh, Begun
<1>6. CASE UNCHANGED allScanVars
  <2>1. UNCHANGED <<memUtxos, memScanned, scan, height, subscribed, faults, crashes>>
    BY <1>6 DEF allScanVars, scanVars, storeVars
  <2> QED BY <2>1 DEF Undisturbed, OnceInv, OneAtATime, AheadIsFresh, CoinsListedOnce,
                      ListedKeys, Fresh, Begun
<1>7. ~Restart
  BY <1>1 DEF Restart
<1> QED BY <1>2, <1>3, <1>4, <1>5, <1>6, <1>7 DEF ScanNext, Panic, Crash

\* With one source of notifications, no failure and no crash, no block is both
\* caught up with and notified, and no coin is listed twice.
THEOREM ScanListsOnce ==
  ASSUME OutpointsDiffer
  PROVE  ScanSafety => []CaughtUpOrNotified
<1> DEFINE Inv == Cardinality(Publishers) = 1 /\ Undisturbed => OnceInv
<1>1. ScanInit => Inv
  <2> SUFFICES ASSUME ScanInit PROVE OnceInv
    OBVIOUS
  <2>1. ListedKeys = {} /\ CoinsListedOnce
    BY DEF ScanInit, ListedKeys, CoinsListedOnce
  <2>2. \A t \in Threads : scan[t].pc = IF t = Sync THEN "count" ELSE "idle"
    BY DEF ScanInit, ThreadAt
  <2>3. ~subscribed
    BY DEF ScanInit
  <2> QED BY <2>1, <2>2, <2>3, SyncIsThread
          DEF OnceInv, OneAtATime, AheadIsFresh, Fresh, BlockPCs, OutputPCs
<1>2. ScanTypeOK /\ OwnInv /\ Inv /\ [ScanNext]_allScanVars => Inv'
  BY OnceStep
<1>3. Inv => CaughtUpOrNotified
  BY DEF CaughtUpOrNotified, OnceInv, Undisturbed
<1>4. ScanSafety => []OwnInv
  BY OwnInitially, OwnStep, ScanTyped, PTL DEF ScanSafety
<1> QED BY <1>1, <1>2, <1>3, <1>4, ScanTyped, PTL DEF ScanSafety

-----------------------------------------------------------------------------
(* NeverUnderCredited, for the catch-up.                                   *)

\* What each place of the chain that pays the wallet is worth.
Amount == [p \in PaidPlaces(Len(Chain)) |-> Chain[p[1]][p[2]].value]

\* The places of its block that thread s has credited to the durable balance
\* since it last began with the block.
Credited(s) ==
  IF s.pc \in OutputPCs \cup {"outputs", "saveScanned"}
  THEN {s.block} \X {i \in OwnPositions(s.block) :
          i < s.pos \/ s.pc = "saveScanned" \/ (i = s.pos /\ s.pc = "setBalance")}
  ELSE {}

\* What the durable balance must account for.
Accounted == PaidPlaces(dbScanned) \cup Credited(scan[Sync])

\* Where Sync is in setBalance, and what the durable balance is worth: what an
\* early return leaves credited is credited again, never less.
CreditInv ==
  /\ scan[Sync].pc # "setBalance" => memBalance = dbBalance
  /\ scan[Sync].pc = "saveBalance" => scan[Sync].local = memBalance + Current(Sync).value
  /\ scan[Sync].pc = "setBalance" => scan[Sync].local = dbBalance
  /\ dbBalance >= SumFunctionOnSet(Amount, Accounted)

\* A chain has finitely many outputs, each with its value.
LEMMA PlacesFinite == IsFiniteSet(PaidPlaces(Len(Chain)))
<1> DEFINE row == [b \in 1 .. Len(Chain) |-> {b} \X OwnPositions(b)]
           rows == {{b} \X OwnPositions(b) : b \in 1 .. Len(Chain)}
<1>1. Chain \in Seq(Seq(OutputRecords)) /\ Len(Chain) \in Nat
  BY ChainAssumption
<1>2. IsFiniteSet(1 .. Len(Chain))
  BY <1>1, FS_Interval
<1>3. row \in Surjection(1 .. Len(Chain), rows)
  BY DEF Surjection
<1>4. IsFiniteSet(rows)
  BY <1>2, <1>3, FS_Surjection
<1>5. ASSUME NEW b \in 1 .. Len(Chain) PROVE IsFiniteSet({b} \X OwnPositions(b))
  <2>1. Chain[b] \in Seq(OutputRecords)
    BY <1>1
  <2>2. DOMAIN Chain[b] = 1 .. Len(Chain[b]) /\ Len(Chain[b]) \in Nat
    BY <2>1
  <2>3. IsFiniteSet(OwnPositions(b))
    <3>1. OwnPositions(b) \in SUBSET (1 .. Len(Chain[b]))
      BY <2>2 DEF OwnPositions
    <3>2. IsFiniteSet(1 .. Len(Chain[b]))
      BY <2>2, FS_Interval
    <3> QED BY <3>1, <3>2, FS_Subset
  <2>4. IsFiniteSet({b})
    BY FS_Singleton
  <2> QED BY <2>3, <2>4, FS_Product
<1>6. \A T \in rows : IsFiniteSet(T)
  BY <1>5
<1> QED BY <1>4, <1>6, FS_UNION DEF PaidPlaces

\* The blocks up to h pay what the sum over their places says.
LEMMA PlacesUpTo ==
  ASSUME NEW h \in 0 .. Len(Chain)
  PROVE  /\ PaidPlaces(h) \subseteq PaidPlaces(Len(Chain))
         /\ IsFiniteSet(PaidPlaces(h))
         /\ PaidUpTo(h) = SumFunctionOnSet(Amount, PaidPlaces(h))
<1> DEFINE f == [p \in PaidPlaces(h) |-> Chain[p[1]][p[2]].value]
<1>1. Len(Chain) \in Nat
  BY ChainAssumption
<1>2. 1 .. h \subseteq 1 .. Len(Chain)
  BY <1>1
<1>3. PaidPlaces(h) \subseteq PaidPlaces(Len(Chain))
  BY <1>2 DEF PaidPlaces
<1>4. IsFiniteSet(PaidPlaces(h))
  BY <1>3, PlacesFinite, FS_Subset
<1>5. \A p \in PaidPlaces(h) : f[p] = Amount[p]
  BY <1>3 DEF Amount
<1>6. PaidUpTo(h) = SumFunctionOnSet(f, PaidPlaces(h))
  BY DEF PaidUpTo, SumFunction
<1> HIDE DEF f
<1> QED BY <1>3, <1>4, <1>5, <1>6, SumSame

\* No output has a negative value.
LEMMA AmountsTyped == \A p \in PaidPlaces(Len(Chain)) : Amount[p] \in Int /\ Amount[p] >= 0
<1> SUFFICES ASSUME NEW p \in PaidPlaces(Len(Chain)) PROVE Amount[p] \in Nat
  OBVIOUS
<1>1. PICK b \in 1 .. Len(Chain) : p \in {b} \X OwnPositions(b)
  BY DEF PaidPlaces
<1>2. Chain[b] \in Seq(OutputRecords)
  BY ChainAssumption
<1>3. p[1] = b /\ p[2] \in DOMAIN Chain[b]
  BY <1>1 DEF OwnPositions
<1>4. Chain[b][p[2]] \in OutputRecords
  BY <1>2, <1>3
<1> QED BY <1>3, <1>4 DEF Amount, OutputRecords

\* What is accounted for are places of the chain.
LEMMA AccountedPlaces ==
  ASSUME ScanTypeOK, CatchUpInv
  PROVE  /\ Accounted \subseteq PaidPlaces(Len(Chain))
         /\ IsFiniteSet(Accounted)
         /\ SumFunctionOnSet(Amount, Accounted) \in Int
<1> DEFINE s == scan[Sync]
<1>1. PaidPlaces(dbScanned) \subseteq PaidPlaces(Len(Chain))
  BY PlacesUpTo DEF CatchUpInv
<1>2. Credited(s) \subseteq PaidPlaces(Len(Chain))
  <2>1. CASE s.pc \in BlockPCs
    <3>1. s.block \in 1 .. Len(Chain)
      BY <2>1, SyncIsThread DEF ScanTypeOK
    <3>2. {s.block} \X OwnPositions(s.block) \subseteq PaidPlaces(Len(Chain))
      BY <3>1 DEF PaidPlaces
    <3> QED BY <3>2 DEF Credited
  <2>2. CASE s.pc \notin BlockPCs
    BY <2>2 DEF Credited, BlockPCs
  <2> QED BY <2>1, <2>2
<1>3. Accounted \subseteq PaidPlaces(Len(Chain))
  BY <1>1, <1>2 DEF Accounted
<1>4. IsFiniteSet(Accounted)
  BY <1>3, PlacesFinite, FS_Subset
<1> QED BY <1>3, <1>4, AmountsTyped, SumTyped

\* A step that writes no balance and accounts for no more.
LEMMA CreditKept ==
  ASSUME ScanTypeOK, CatchUpInv, CatchUpInv', ScanTypeOK', UNCHANGED dbBalance,
         Accounted' \subseteq Accounted, CreditInv
  PROVE  dbBalance' >= SumFunctionOnSet(Amount, Accounted')
<1>1. SumFunctionOnSet(Amount, Accounted) \in Int
  BY AccountedPlaces
<1>2. IsFiniteSet(Accounted) /\ \A p \in Accounted : Amount[p] \in Int /\ Amount[p] >= 0
  BY AccountedPlaces, AmountsTyped
<1>3. SumFunctionOnSet(Amount, Accounted') <= SumFunctionOnSet(Amount, Accounted)
  BY <1>2, SumOfPart
<1>4. SumFunctionOnSet(Amount, Accounted') \in Int
  <2>1. IsFiniteSet(Accounted')
    BY <1>2, FS_Subset
  <2> QED BY <1>2, <2>1, SumTyped
<1>5. dbBalance \in Int /\ dbBalance >= SumFunctionOnSet(Amount, Accounted)
  BY DEF ScanTypeOK, StoreTypeOK, CreditInv
<1> QED BY <1>1, <1>3, <1>4, <1>5

\* Every step of the catch-up keeps the invariant.
LEMMA CreditStep ==
  ASSUME InitHeight = Len(Chain), ScanTypeOK, ScanTypeOK', CatchUpInv, CatchUpInv',
         CreditInv, [ScanNext]_allScanVars
  PROVE  CreditInv'
<1> DEFINE s == scan[Sync]
           r == scan'[Sync]
<1>0. Sync \in Threads /\ scan \in [Threads -> ScanRecords]
  BY SyncIsThread DEF ScanTypeOK, ScanRecords
<1>1. ASSUME UNCHANGED <<memBalance, dbBalance, dbScanned>>, s.pc # "setBalance",
             r.pc \notin {"saveBalance", "setBalance"}, Credited(r) \subseteq Credited(s)
      PROVE  CreditInv'
  <2>1. Accounted' \subseteq Accounted
    BY <1>1 DEF Accounted
  <2> QED BY <1>1, <2>1, CreditKept DEF CreditInv
<1>2. CASE SyncStep
  <2>1. /\ UNCHANGED <<memBalance, dbBalance, dbScanned>> /\ s.pc \in {"count", "loop"}
        /\ \/ r.pc \in {"loop", "idle"}
           \/ r = ThreadAt("outputs", memScanned + 1) /\ memScanned + 1 \in 1 .. Len(Chain)
    BY <1>0, <1>2 DEF SyncStep, GetBlockCount, GetBlockCountFails, FetchMissingBlock, Subscribe,
                      storeVars, Go, ScanRecords, CatchUpInv
  <2>2. Credited(r) = {} /\ r.pc \in {"loop", "idle", "outputs"}
    <3>1. CASE r.pc \in {"loop", "idle"}
      BY <3>1 DEF Credited, OutputPCs
    <3>2. CASE r = ThreadAt("outputs", memScanned + 1) /\ memScanned + 1 \in 1 .. Len(Chain)
      <4>1. \A i \in OwnPositions(memScanned + 1) : ~(i < 1)
        <5>1. Chain[memScanned + 1] \in Seq(OutputRecords)
          BY <3>2, ChainAssumption
        <5> QED BY <5>1 DEF OwnPositions
      <4> QED BY <3>2, <4>1 DEF Credited, ThreadAt, OutputPCs
    <3> QED BY <2>1, <3>1, <3>2
  <2> QED BY <1>1, <2>1, <2>2
<1>3. ASSUME BlockStep(Sync) PROVE CreditInv'
  <2>1. s.pc \in BlockPCs
    BY <1>3 DEF BlockStep, FetchBlockFails, SkipOutput, SaveReceived, SaveReceivedFails, Received,
                AtOutput, AppendReceived, ReadBalance, SaveCredit, SaveCreditFails, SetCredit,
                ReadScanned, SaveAdvance, SaveAdvanceFails, SetAdvance, BlockPCs, OutputPCs
  <2>2. s.block \in 1 .. Len(Chain) /\ s.pos \in Nat /\ Chain[s.block] \in Seq(OutputRecords)
    BY <1>0, <2>1, ChainAssumption DEF ScanTypeOK, ScanRecords
  <2>3. \A i \in OwnPositions(s.block) : i \in Nat
    BY <2>2 DEF OwnPositions
  <2>4. CASE FetchBlockFails(Sync) \/ SaveReceivedFails(Sync) \/ SaveCreditFails(Sync) \/ SaveAdvanceFails(Sync)
    <3>1. UNCHANGED <<memBalance, dbBalance, dbScanned>> /\ s.pc # "setBalance" /\ r.pc = "loop"
      BY <1>0, <2>4
         DEF FetchBlockFails, SaveReceivedFails, Received, AtOutput, SaveCreditFails,
             SaveAdvanceFails, UsesScanBlock, Return, Go, storeVars, ScanRecords
    <3>2. Credited(r) = {}
      BY <3>1 DEF Credited, OutputPCs
    <3> QED BY <1>1, <3>1, <3>2
  <2>5. CASE SkipOutput(Sync)
    <3>1. /\ UNCHANGED <<memBalance, dbBalance, dbScanned>> /\ s.pc = "outputs" /\ r.pc = "outputs"
          /\ r.block = s.block /\ r.pos = s.pos + 1
      BY <1>0, <2>5 DEF SkipOutput, AtOutput, NextOutput, storeVars, ScanRecords
    <3>2. s.pos \notin OwnPositions(s.block)
      BY <2>5, SkippedIsForeign
    <3>3. Credited(r) \subseteq Credited(s)
      BY <2>2, <2>3, <3>1, <3>2 DEF Credited
    <3> QED BY <1>1, <3>1, <3>3
  <2>6. CASE SaveReceived(Sync) \/ AppendReceived(Sync)
    <3>1. /\ UNCHANGED <<memBalance, dbBalance, dbScanned>> /\ s.pc \in {"outputs", "append"}
          /\ r.pc \in {"append", "read"} /\ r.block = s.block /\ r.pos = s.pos
      BY <1>0, <2>6 DEF SaveReceived, Received, AtOutput, AppendReceived, Go, memVars, dbVars, ScanRecords
    <3>2. Credited(r) \subseteq Credited(s)
      BY <3>1 DEF Credited, OutputPCs
    <3> QED BY <1>1, <3>1, <3>2
  <2>7. CASE ReadBalance(Sync)
    <3>1. /\ UNCHANGED <<memBalance, dbBalance, dbScanned>> /\ s.pc = "read"
          /\ r.pc = "saveBalance" /\ r.block = s.block /\ r.pos = s.pos
          /\ r.local = memBalance + Current(Sync).value
      BY <1>0, <2>7 DEF ReadBalance, GoWith, storeVars, ScanRecords
    <3>2. Current(Sync)' = Current(Sync)
      BY <3>1 DEF Current, Block
    <3>3. Credited(r) \subseteq Credited(s)
      BY <3>1 DEF Credited, OutputPCs
    <3>4. Accounted' \subseteq Accounted
      BY <3>1, <3>3 DEF Accounted
    <3> QED BY <3>1, <3>2, <3>4, CreditKept DEF CreditInv
  <2>8. CASE SaveCredit(Sync)
    <3> DEFINE v == Current(Sync).value
               e == <<s.block, s.pos>>
    <3>1. /\ s.pc = "saveBalance" /\ dbBalance' = s.local /\ UNCHANGED <<memBalance, dbScanned>>
          /\ r.pc = "setBalance" /\ r.local = s.local /\ r.block = s.block /\ r.pos = s.pos
      BY <1>0, <2>8 DEF SaveCredit, SaveBalance, Go, memVars, ScanRecords
    <3>2. dbBalance' = dbBalance + v
      BY <3>1 DEF CreditInv
    <3>3. Current(Sync) = Chain[s.block][s.pos] /\ v \in Nat
      BY <1>0, <3>1, CurrentTyped DEF OutputPCs, OutputRecords
    <3>4. dbBalance \in Int /\ dbBalance >= SumFunctionOnSet(Amount, Accounted)
          /\ SumFunctionOnSet(Amount, Accounted) \in Int
      BY AccountedPlaces DEF ScanTypeOK, StoreTypeOK, CreditInv
    <3>5. dbBalance' >= SumFunctionOnSet(Amount, Accounted')
      <4>1. CASE s.pos \notin OwnPositions(s.block)
        <5>1. Credited(r) \subseteq Credited(s)
          BY <3>1, <4>1 DEF Credited, OutputPCs
        <5>2. Accounted' \subseteq Accounted
          BY <3>1, <5>1 DEF Accounted
        <5>3. IsFiniteSet(Accounted) /\ \A p \in Accounted : Amount[p] \in Int /\ Amount[p] >= 0
          BY AccountedPlaces, AmountsTyped
        <5>4. SumFunctionOnSet(Amount, Accounted') <= SumFunctionOnSet(Amount, Accounted)
          BY <5>2, <5>3, SumOfPart
        <5>5. SumFunctionOnSet(Amount, Accounted') \in Int
          <6>1. IsFiniteSet(Accounted')
            BY <5>2, <5>3, FS_Subset
          <6> QED BY <5>2, <5>3, <6>1, SumTyped
        <5> QED BY <3>2, <3>3, <3>4, <5>4, <5>5
      <4>2. CASE s.pos \in OwnPositions(s.block)
        <5>1. Credited(r) = Credited(s) \cup {e}
          BY <2>2, <2>3, <3>1, <4>2 DEF Credited, OutputPCs
        <5>2. Accounted' = Accounted \cup {e}
          BY <3>1, <5>1 DEF Accounted
        <5>3. e \notin Accounted
          <6>1. s.block = dbScanned + 1 /\ dbScanned \in Nat
            BY <3>1, ChainAssumption DEF CatchUpInv, SyncInv, OutputPCs
          <6>2. e \notin PaidPlaces(dbScanned)
            BY <6>1 DEF PaidPlaces
          <6>3. e \notin Credited(s)
            BY <2>2, <3>1 DEF Credited, OutputPCs
          <6> QED BY <6>2, <6>3 DEF Accounted
        <5>4. e \in PaidPlaces(Len(Chain))
          BY <2>2, <4>2 DEF PaidPlaces
        <5>5. Amount[e] = v
          BY <3>3, <5>4 DEF Amount
        <5>6. IsFiniteSet(Accounted) /\ \A p \in Accounted : Amount[p] \in Int
          BY AccountedPlaces, AmountsTyped
        <5> HIDE DEF e, v
        <5>7. SumFunctionOnSet(Amount, Accounted \cup {e}) = SumFunctionOnSet(Amount, Accounted) + v
          BY <3>3, <5>3, <5>5, <5>6, SumAdd
        <5> QED BY <3>2, <3>3, <3>4, <5>2, <5>7
      <4> QED BY <4>1, <4>2
    <3> QED BY <3>1, <3>5 DEF CreditInv
  <2>9. CASE SetCredit(Sync)
    <3>1. /\ s.pc = "setBalance" /\ memBalance' = s.local /\ UNCHANGED <<dbBalance, dbScanned>>
          /\ r.pc = "outputs" /\ r.block = s.block /\ r.pos = s.pos + 1
      BY <1>0, <2>9 DEF SetCredit, SetBalance, NextOutput, dbVars, ScanRecords
    <3>2. Credited(r) \subseteq Credited(s)
      BY <2>2, <2>3, <3>1 DEF Credited, OutputPCs
    <3>3. Accounted' \subseteq Accounted
      BY <3>1, <3>2 DEF Accounted
    <3> QED BY <3>1, <3>3, CreditKept DEF CreditInv
  <2>10. CASE ReadScanned(Sync)
    <3>1. /\ UNCHANGED <<memBalance, dbBalance, dbScanned>> /\ s.pc = "outputs"
          /\ r.pc = "saveScanned" /\ r.block = s.block /\ r.pos = s.pos /\ s.pos > Len(Chain[s.block])
      BY <1>0, <2>10 DEF ReadScanned, GoWith, Block, storeVars, ScanRecords
    <3>2. \A i \in OwnPositions(s.block) : i < s.pos
      BY <2>2, <3>1 DEF OwnPositions
    <3>3. Credited(r) \subseteq Credited(s)
      BY <3>1, <3>2 DEF Credited
    <3> QED BY <1>1, <3>1, <3>3
  <2>11. CASE SaveAdvance(Sync)
    <3>1. /\ UNCHANGED <<memBalance, dbBalance>> /\ s.pc = "saveScanned" /\ dbScanned' = s.local
          /\ r.pc = "setScanned"
      BY <1>0, <2>11 DEF SaveAdvance, SaveScanned, Go, memVars, ScanRecords
    <3>2. s.local = dbScanned + 1 /\ s.block = dbScanned + 1 /\ dbScanned \in Nat
      BY <3>1, ChainAssumption DEF CatchUpInv, SyncInv
    <3>3. 1 .. dbScanned' = (1 .. dbScanned) \cup {s.block}
      BY <3>1, <3>2
    <3>4. PaidPlaces(dbScanned') = PaidPlaces(dbScanned) \cup ({s.block} \X OwnPositions(s.block))
      BY <3>3 DEF PaidPlaces
    <3>5. Credited(s) = {s.block} \X OwnPositions(s.block) /\ Credited(r) = {}
      BY <3>1 DEF Credited, OutputPCs
    <3>6. Accounted' \subseteq Accounted
      BY <3>4, <3>5 DEF Accounted
    <3> QED BY <3>1, <3>6, CreditKept DEF CreditInv
  <2>12. CASE SetAdvance(Sync)
    <3>1. UNCHANGED <<memBalance, dbBalance, dbScanned>> /\ s.pc = "setScanned" /\ r.pc = "loop"
      BY <1>0, <2>12 DEF SetAdvance, Return, Go, dbVars, ScanRecords
    <3>2. Credited(r) = {}
      BY <3>1 DEF Credited, OutputPCs
    <3> QED BY <1>1, <3>1, <3>2
  <2> QED BY <1>3, <2>4, <2>5, <2>6, <2>7, <2>8, <2>9, <2>10, <2>11, <2>12 DEF BlockStep
<1>4. ASSUME Restart PROVE CreditInv'
  <2>1. UNCHANGED <<dbBalance, dbScanned>> /\ memBalance' = dbBalance
    BY <1>4 DEF Restart, dbVars, LoadWallet
  <2>2. r = ThreadAt("count", 0)
    BY <1>0, <1>4 DEF Restart
  <2>3. Credited(r) = {} /\ r.pc = "count"
    BY <2>2 DEF Credited, ThreadAt, OutputPCs
  <2>4. Accounted' \subseteq Accounted
    BY <2>1, <2>3 DEF Accounted
  <2> QED BY <2>1, <2>3, <2>4, CreditKept DEF CreditInv
<1>5. ~MineBlock
  BY ChainAssumption DEF MineBlock, CatchUpInv
<1>6. ASSUME UNCHANGED <<storeVars, scan>> PROVE CreditInv'
  <2>1. UNCHANGED <<memBalance, dbBalance, dbScanned, scan>>
    BY <1>6 DEF storeVars
  <2>2. Accounted' \subseteq Accounted /\ Current(Sync)' = Current(Sync)
    BY <2>1 DEF Accounted, Current, Block
  <2> QED BY <2>1, <2>2, CreditKept DEF CreditInv
<1>7. ASSUME NEW a \in NewAddrs, GetNewAddress(a) PROVE CreditInv'
  BY <1>6, <1>7 DEF GetNewAddress
<1>8. CASE UNCHANGED allScanVars
  BY <1>6, <1>8 DEF allScanVars, scanVars
<1>9. ASSUME NEW t \in Threads, BlockStep(t) \/ Panic(t) PROVE CreditInv'
  BY <1>3, <1>4, <1>9, OnlySyncScans DEF Panic
<1> QED BY <1>2, <1>4, <1>5, <1>7, <1>8, <1>9 DEF ScanNext, Crash

\* During catch-up, with any crashes and failed writes, the durable balance
\* covers what the blocks counted as scanned have paid.
THEOREM CatchUpCreditsAll ==
  ASSUME InitHeight = Len(Chain)
  PROVE  ScanSafety => []NeverUnderCredited
<1>1. ScanInit => CatchUpInv /\ CreditInv
  <2> SUFFICES ASSUME ScanInit PROVE CreditInv
    BY CatchUpInit
  <2>1. scan[Sync].pc = "count" /\ dbScanned = 0 /\ memBalance = 0 /\ dbBalance = 0
    BY SyncIsThread DEF ScanInit, ThreadAt
  <2>2. Accounted = {}
    BY <2>1 DEF Accounted, Credited, PaidPlaces, OutputPCs
  <2> QED BY <2>1, <2>2, SumEmpty DEF CreditInv
<1>2. ScanTypeOK /\ CatchUpInv /\ [ScanNext]_allScanVars => CatchUpInv'
  BY CatchUpInvStep
<1>3. ScanTypeOK /\ ScanTypeOK' /\ CatchUpInv /\ CatchUpInv' /\ CreditInv /\ [ScanNext]_allScanVars
        => CreditInv'
  BY CreditStep
<1>4. ScanTypeOK /\ CatchUpInv /\ CreditInv => NeverUnderCredited
  <2> SUFFICES ASSUME ScanTypeOK, CatchUpInv, CreditInv, dbScanned \in 0 .. Len(Chain)
               PROVE  dbBalance >= PaidUpTo(dbScanned)
    BY DEF NeverUnderCredited
  <2>1. PaidUpTo(dbScanned) = SumFunctionOnSet(Amount, PaidPlaces(dbScanned))
        /\ IsFiniteSet(PaidPlaces(dbScanned)) /\ PaidPlaces(dbScanned) \subseteq PaidPlaces(Len(Chain))
    BY PlacesUpTo
  <2>2. IsFiniteSet(Accounted) /\ (\A p \in Accounted : Amount[p] \in Int /\ Amount[p] >= 0)
        /\ SumFunctionOnSet(Amount, Accounted) \in Int
    BY AccountedPlaces, AmountsTyped
  <2>3. SumFunctionOnSet(Amount, PaidPlaces(dbScanned)) <= SumFunctionOnSet(Amount, Accounted)
    BY <2>2, SumOfPart DEF Accounted
  <2>4. SumFunctionOnSet(Amount, PaidPlaces(dbScanned)) \in Int
    BY <2>1, AmountsTyped, SumTyped
  <2> QED BY <2>1, <2>2, <2>3, <2>4 DEF CreditInv, ScanTypeOK, StoreTypeOK
<1> QED BY <1>1, <1>2, <1>3, <1>4, ScanTyped, PTL DEF ScanSafety

-----------------------------------------------------------------------------
(* NeverOverstated, however many scans overlap: the argument is about what *)
(* the goroutines have listed and not yet read the balance for.            *)

\* What goroutine t has listed and is about to add to the balance it reads.
OwedBy(t) == IF scan[t].pc = "read" THEN Current(t).value ELSE 0
Owed      == SumFunction([t \in Threads |-> OwedBy(t)])

\* The coins cover x together with all that goroutines will add to a balance.
Backed(x) == x + Owed <= UnspentValue(memUtxos)

\* Every balance there is, and every one that a goroutine will write.
BackedInv ==
  /\ Backed(memBalance) /\ Backed(dbBalance)
  /\ \A t \in Threads : scan[t].pc \in {"saveBalance", "setBalance"} => Backed(scan[t].local)

\* No restart, and no output credited that could not be saved.
Sound == crashes = 0 /\ (Node = "core" \/ faults = 0)

\* The sum over the goroutines is a finite one.
LEMMA ThreadsFinite == IsFiniteSet(Threads)
<1>1. IsFiniteSet(1 .. Len(Chain))
  BY ChainAssumption, FS_Interval
<1>2. IsFiniteSet((1 .. Len(Chain)) \X Publishers)
  BY <1>1, NodeAssumption, FS_Product
<1>3. IsFiniteSet({Sync} \cup ((1 .. Len(Chain)) \X Publishers))
  BY <1>2, FS_Singleton, FS_Union
<1> QED BY <1>3 DEF Threads

\* What is owed is a natural number.
LEMMA OwedTyped ==
  ASSUME ScanTypeOK
  PROVE  /\ \A t \in Threads : OwedBy(t) \in Nat
         /\ Owed \in Int /\ Owed >= 0
<1> DEFINE f == [t \in Threads |-> OwedBy(t)]
<1>1. ASSUME NEW t \in Threads PROVE OwedBy(t) \in Nat
  <2>1. scan[t].pc = "read" => Current(t).value \in Nat
    BY CurrentTyped DEF OutputPCs, OutputRecords
  <2> QED BY <2>1 DEF OwedBy
<1>2. Owed = SumFunctionOnSet(f, Threads)
  BY DEF Owed, SumFunction
<1>3. \A t \in Threads : f[t] \in Int /\ f[t] >= 0
  BY <1>1
<1>4. IsFiniteSet(Threads)
  BY ThreadsFinite
<1> HIDE DEF f
<1> QED BY <1>1, <1>2, <1>3, <1>4, SumTyped, SumOfPart

\* Goroutines that stay where they are owe what they owed.
LEMMA OwedSame ==
  ASSUME ScanTypeOK, \A t \in Threads : OwedBy(t)' = OwedBy(t)
  PROVE  Owed' = Owed
<1> DEFINE f == [t \in Threads |-> OwedBy(t)]
           g == [t \in Threads |-> OwedBy(t)']
<1>1. \A t \in Threads : f[t] = g[t]
  OBVIOUS
<1>2. Owed = SumFunctionOnSet(f, Threads) /\ Owed' = SumFunctionOnSet(g, Threads)
  BY DEF Owed, SumFunction
<1> HIDE DEF f, g
<1> QED BY <1>1, <1>2, ThreadsFinite, SumSame

\* One goroutine changes the sum by the difference of what it owes.
LEMMA OwedMoves ==
  ASSUME ScanTypeOK, ScanTypeOK', NEW t \in Threads,
         \A u \in Threads \ {t} : scan'[u] = scan[u]
  PROVE  Owed' = Owed - OwedBy(t) + OwedBy(t)'
<1> DEFINE f == [u \in Threads |-> OwedBy(u)]
           g == [u \in Threads |-> OwedBy(u)']
           R == Threads \ {t}
<1>1. \A u \in R : f[u] = g[u]
  BY DEF OwedBy, Current, Block
<1>2. Owed = SumFunctionOnSet(f, Threads) /\ Owed' = SumFunctionOnSet(g, Threads)
  BY DEF Owed, SumFunction
<1>3. /\ \A u \in Threads : f[u] \in Int
      /\ f[t] = OwedBy(t) /\ g[t] = OwedBy(t)'
  BY OwedTyped
<1>4. \A u \in Threads : g[u] \in Int
  <2>1. ASSUME NEW u \in Threads PROVE OwedBy(u)' \in Int
    <3>1. scan'[u].pc = "read" => Current(u)'.value \in Int
      <4> SUFFICES ASSUME scan'[u].pc = "read" PROVE Current(u)'.value \in Int
        OBVIOUS
      <4>1. /\ scan'[u].block \in 1 .. Len(Chain) /\ scan'[u].pos \in Nat \ {0}
            /\ scan'[u].pos <= Len(Chain[scan'[u].block])
        BY DEF ScanTypeOK, BlockPCs, OutputPCs, Block
      <4>2. Chain[scan'[u].block] \in Seq(OutputRecords)
        BY <4>1, ChainAssumption
      <4>3. Chain[scan'[u].block][scan'[u].pos] \in OutputRecords
        BY <4>1, <4>2
      <4> QED BY <4>3 DEF Current, Block, OutputRecords
    <3> QED BY <3>1 DEF OwedBy
  <2> QED BY <2>1
<1>5. IsFiniteSet(Threads) /\ IsFiniteSet(R) /\ R \subseteq Threads
  BY ThreadsFinite, FS_Subset
<1> HIDE DEF f, g
<1>6. SumFunctionOnSet(f, Threads) = f[t] + SumFunctionOnSet(f, R)
  BY <1>3, <1>5, SumRemove
<1>7. SumFunctionOnSet(g, Threads) = g[t] + SumFunctionOnSet(g, R)
  BY <1>4, <1>5, SumRemove
<1> HIDE DEF R
<1>8. SumFunctionOnSet(f, R) = SumFunctionOnSet(g, R) /\ SumFunctionOnSet(f, R) \in Int
  BY <1>1, <1>3, <1>5, SumSame, SumTyped
<1>9. f[t] \in Int /\ g[t] \in Int
  BY <1>3, <1>4
<1> QED BY <1>2, <1>3, <1>6, <1>7, <1>8, <1>9

\* A step that changes neither the coins nor what is owed, and brings no
\* number into a balance that was not covered.
LEMMA BackedKept ==
  ASSUME BackedInv, UNCHANGED memUtxos, Owed' = Owed,
         Backed(memBalance'), Backed(dbBalance'),
         \A t \in Threads : scan'[t].pc \in {"saveBalance", "setBalance"} => Backed(scan'[t].local)
  PROVE  BackedInv'
BY DEF BackedInv, Backed

\* A step of goroutines that neither come to "read" nor leave it, nor come to
\* write a balance.
LEMMA BackedQuiet ==
  ASSUME ScanTypeOK, BackedInv, UNCHANGED <<memUtxos, memBalance, dbBalance>>,
         \A t \in Threads :
           \/ scan'[t] = scan[t]
           \/ scan[t].pc # "read" /\ scan'[t].pc \notin {"read", "saveBalance", "setBalance"}
  PROVE  BackedInv'
<1>1. \A t \in Threads : OwedBy(t)' = OwedBy(t)
  BY DEF OwedBy, Current, Block
<1>2. Owed' = Owed
  BY <1>1, OwedSame
<1> QED BY <1>2, BackedKept DEF BackedInv

\* Every step of a sound run keeps the balances covered.
LEMMA BackedStep ==
  ASSUME ScanTypeOK, ScanTypeOK', OwnInv, Sound => BackedInv, [ScanNext]_allScanVars, Sound'
  PROVE  BackedInv'
<1>0. /\ scan \in [Threads -> ScanRecords] /\ Sync \in Threads
      /\ height \in Nat /\ faults \in Nat /\ crashes \in Nat
      /\ memBalance \in Int /\ dbBalance \in Int
  BY SyncIsThread DEF ScanTypeOK, ScanRecords, StoreTypeOK
<1>1. BackedInv /\ crashes' # crashes + 1 /\ (Node = "core" \/ ~Fault)
  <2>1. crashes' # crashes + 1 /\ (Node = "core" \/ ~Fault)
    BY <1>0 DEF Sound, Fault
  <2>2. UNCHANGED crashes /\ (faults' = faults \/ Fault)
    BY <2>1 DEF ScanNext, SyncStep, GetBlockCount, GetBlockCountFails, FetchMissingBlock, Subscribe,
        BlockStep, FetchBlockFails, SkipOutput, SaveReceived, SaveReceivedFails, AppendReceived,
        ReadBalance, SaveCredit, SaveCreditFails, SetCredit, ReadScanned, SaveAdvance,
        SaveAdvanceFails, SetAdvance, Panic, Crash, Restart, MineBlock, GetNewAddress,
        allScanVars, scanVars
  <2> QED BY <1>0, <2>1, <2>2 DEF Sound, Fault
<1>2. CASE SyncStep
  <2>1. UNCHANGED storeVars
    BY <1>2 DEF SyncStep, GetBlockCount, GetBlockCountFails, FetchMissingBlock, Subscribe
  <2>2. \A t \in Threads \ {Sync} : scan'[t] = scan[t]
    BY <1>0, <1>2 DEF SyncStep, GetBlockCount, GetBlockCountFails, FetchMissingBlock, Subscribe, Go
  <2>3. scan[Sync].pc \in {"count", "loop"} /\ scan'[Sync].pc \in {"loop", "idle", "outputs"}
    BY <1>0, <1>2 DEF SyncStep, GetBlockCount, GetBlockCountFails, FetchMissingBlock, Subscribe, Go,
                      ThreadAt, ScanRecords
  <2> QED BY <1>1, <2>1, <2>2, <2>3, BackedQuiet DEF storeVars
<1>3. ASSUME NEW t \in Threads, BlockStep(t) PROVE BackedInv'
  <2> DEFINE s == scan[t]
             r == scan'[t]
  <2>1. \A u \in Threads \ {t} : scan'[u] = scan[u]
    BY <1>0, <1>3
       DEF BlockStep, FetchBlockFails, SkipOutput, SaveReceived, SaveReceivedFails, AppendReceived,
           ReadBalance, SaveCredit, SaveCreditFails, SetCredit, ReadScanned, SaveAdvance,
           SaveAdvanceFails, SetAdvance, Go, GoWith, NextOutput, Return
  <2>2. /\ Owed \in Int /\ Owed >= 0 /\ OwedBy(t) \in Int
        /\ Owed' = Owed - OwedBy(t) + OwedBy(t)'
    BY <2>1, OwedTyped, OwedMoves
  <2>3. s.pc \in OutputPCs =>
          Current(t).value \in Nat /\ NewUtxo(Current(t)) \in UtxoRecords
    BY CurrentTyped DEF OutputRecords
  <2>4. CASE FetchBlockFails(t) \/ SkipOutput(t) \/ SaveReceived(t) \/ ReadScanned(t)
    <3>1. UNCHANGED <<memUtxos, memBalance, dbBalance>>
      BY <2>4 DEF FetchBlockFails, SkipOutput, SaveReceived, ReadScanned, storeVars, memVars
    <3>2. s.pc = "outputs" /\ r.pc \in {"loop", "idle", "outputs", "append", "saveScanned"}
      BY <1>0, <2>4
         DEF FetchBlockFails, SkipOutput, SaveReceived, Received, AtOutput, ReadScanned,
             Go, GoWith, NextOutput, Return, ScanRecords
    <3> QED BY <1>1, <2>1, <3>1, <3>2, BackedQuiet
  <2>5. CASE SaveReceivedFails(t)
    <3>1. UNCHANGED storeVars /\ s.pc = "outputs"
      BY <2>5 DEF SaveReceivedFails, Received, AtOutput
    <3>2. UsesScanBlock(t)
      BY <1>1, <2>5 DEF SaveReceivedFails, UsesScanBlock
    <3>3. r.pc \in {"loop", "idle"}
      BY <1>0, <2>5, <3>2 DEF SaveReceivedFails, Return, Go, ScanRecords
    <3> QED BY <1>1, <2>1, <3>1, <3>3, BackedQuiet DEF storeVars
  <2>6. CASE AppendReceived(t)
    <3> DEFINE v == Current(t).value
    <3>1. /\ s.pc = "append" /\ memUtxos' = Append(memUtxos, NewUtxo(Current(t)))
          /\ UNCHANGED <<memBalance, dbBalance>>
          /\ r.pc = "read" /\ r.block = s.block /\ r.pos = s.pos /\ r.local = s.local
      BY <1>0, <2>6 DEF AppendReceived, AppendUtxo, Go, dbVars, ScanRecords
    <3>2. v \in Nat /\ NewUtxo(Current(t)) \in UtxoRecords
      BY <2>3, <3>1 DEF OutputPCs
    <3>3. OwedBy(t) = 0 /\ OwedBy(t)' = v
      BY <3>1 DEF OwedBy, Current, Block
    <3>4. Owed' = Owed + v
      BY <2>2, <3>2, <3>3
    <3>5. /\ UnspentValue(memUtxos) \in Int
          /\ UnspentValue(memUtxos') = UnspentValue(memUtxos) + v
      <4>1. memUtxos \in Seq(UtxoRecords)
        BY DEF ScanTypeOK, StoreTypeOK
      <4>2. ~NewUtxo(Current(t)).spent /\ NewUtxo(Current(t)).value = v
        BY DEF NewUtxo
      <4> QED BY <3>1, <3>2, <4>1, <4>2, UnspentOfAppend
    <3>6. ASSUME NEW x \in Int, Backed(x) PROVE x + Owed' <= UnspentValue(memUtxos')
      <4> HIDE DEF v
      <4> QED BY <2>2, <3>2, <3>4, <3>5, <3>6 DEF Backed
    <3>7. memBalance + Owed' <= UnspentValue(memUtxos') /\ dbBalance + Owed' <= UnspentValue(memUtxos')
      BY <1>0, <1>1, <3>6 DEF BackedInv
    <3>8. ASSUME NEW u \in Threads, scan'[u].pc \in {"saveBalance", "setBalance"}
          PROVE  scan'[u].local + Owed' <= UnspentValue(memUtxos')
      <4>1. scan'[u] = scan[u]
        BY <2>1, <3>1, <3>8
      <4>2. scan[u].local \in Int
        BY <1>0 DEF ScanRecords
      <4> QED BY <1>1, <3>6, <3>8, <4>1, <4>2 DEF BackedInv
    <3> QED BY <3>1, <3>7, <3>8 DEF BackedInv, Backed
  <2>7. CASE ReadBalance(t)
    <3> DEFINE v == Current(t).value
    <3>1. /\ s.pc = "read" /\ UNCHANGED <<memUtxos, memBalance, dbBalance>>
          /\ r.pc = "saveBalance" /\ r.local = memBalance + v
      BY <1>0, <2>7 DEF ReadBalance, GoWith, storeVars, ScanRecords
    <3>2. v \in Nat
      BY <2>3, <3>1 DEF OutputPCs
    <3>3. OwedBy(t) = v /\ OwedBy(t)' = 0
      BY <3>1 DEF OwedBy
    <3>4. Owed' = Owed - v
      BY <2>2, <3>2, <3>3
    <3>5. UnspentValue(memUtxos) \in Int
      BY UnspentTyped DEF ScanTypeOK, StoreTypeOK
    <3>6. ASSUME NEW x \in Int, Backed(x) PROVE x + Owed' <= UnspentValue(memUtxos)
      <4> HIDE DEF v
      <4> QED BY <2>2, <3>2, <3>4, <3>5, <3>6 DEF Backed
    <3>7. r.local + Owed' <= UnspentValue(memUtxos)
      <4>1. Backed(memBalance)
        BY <1>1 DEF BackedInv
      <4> HIDE DEF v
      <4> QED BY <1>0, <2>2, <3>1, <3>2, <3>4, <3>5, <4>1 DEF Backed
    <3>8. memBalance + Owed' <= UnspentValue(memUtxos) /\ dbBalance + Owed' <= UnspentValue(memUtxos)
      BY <1>0, <1>1, <3>6 DEF BackedInv
    <3>9. ASSUME NEW u \in Threads, scan'[u].pc \in {"saveBalance", "setBalance"}
          PROVE  scan'[u].local + Owed' <= UnspentValue(memUtxos)
      <4>1. u # t => scan'[u] = scan[u]
        BY <2>1
      <4>2. scan[u].local \in Int
        BY <1>0 DEF ScanRecords
      <4> QED BY <1>1, <3>6, <3>7, <3>9, <4>1, <4>2 DEF BackedInv
    <3> QED BY <3>1, <3>8, <3>9 DEF BackedInv, Backed
  <2>8. CASE SaveCredit(t) \/ SaveCreditFails(t) \/ SetCredit(t)
    <3>1. /\ s.pc \in {"saveBalance", "setBalance"} /\ UNCHANGED memUtxos
          /\ memBalance' \in {memBalance, s.local} /\ dbBalance' \in {dbBalance, s.local}
          /\ (r.pc = "setBalance" /\ r.local = s.local) \/ r.pc \in {"outputs", "loop", "idle"}
      BY <1>0, <2>8
         DEF SaveCredit, SaveBalance, SaveCreditFails, SetCredit, SetBalance, Go, NextOutput, Return,
             storeVars, memVars, dbVars, ScanRecords
    <3>2. OwedBy(t)' = OwedBy(t)
      BY <3>1 DEF OwedBy
    <3>3. Owed' = Owed
      BY <2>2, <3>2
    <3>4. Backed(s.local) /\ Backed(memBalance) /\ Backed(dbBalance)
      BY <1>1, <3>1 DEF BackedInv
    <3>5. ASSUME NEW u \in Threads, scan'[u].pc \in {"saveBalance", "setBalance"}
          PROVE  Backed(scan'[u].local)
      BY <1>1, <2>1, <3>1, <3>4, <3>5 DEF BackedInv
    <3>6. Backed(memBalance') /\ Backed(dbBalance')
      BY <3>1, <3>4
    <3> QED BY <1>1, <3>1, <3>3, <3>5, <3>6, BackedKept
  <2>9. CASE SaveAdvance(t) \/ SaveAdvanceFails(t) \/ SetAdvance(t)
    <3>1. UNCHANGED <<memUtxos, memBalance, dbBalance>>
      BY <2>9 DEF SaveAdvance, SaveAdvanceFails, SetAdvance, storeVars, memVars, dbVars
    <3>2. s.pc \in {"saveScanned", "setScanned"} /\ r.pc \in {"setScanned", "loop", "idle"}
      BY <1>0, <2>9 DEF SaveAdvance, SaveAdvanceFails, SetAdvance, Go, Return, ScanRecords
    <3> QED BY <1>1, <2>1, <3>1, <3>2, BackedQuiet
  <2> QED BY <1>3, <2>4, <2>5, <2>6, <2>7, <2>8, <2>9 DEF BlockStep
<1>4. CASE MineBlock
  <2>1. UNCHANGED <<memUtxos, memBalance, dbBalance>>
    BY <1>4 DEF MineBlock, storeVars
  <2>2. ASSUME NEW t \in Threads, scan'[t] # scan[t]
        PROVE  scan[t].pc # "read" /\ scan'[t].pc = "outputs"
    <3>1. t[1] = height + 1 /\ scan'[t] = ThreadAt("outputs", height + 1)
      BY <1>4, <2>2 DEF MineBlock
    <3>2. t # Sync
      BY <1>0, <3>1 DEF Sync
    <3>3. scan[t].pc \in BlockPCs => scan[t].block = height + 1 /\ scan[t].block <= height
      BY <3>1, <3>2 DEF ScanTypeOK, OwnInv, ReadsOwn
    <3> QED BY <1>0, <3>1, <3>3 DEF ThreadAt, BlockPCs, OutputPCs
  <2>3. \A t \in Threads :
          \/ scan'[t] = scan[t]
          \/ scan[t].pc # "read" /\ scan'[t].pc \notin {"read", "saveBalance", "setBalance"}
    BY <2>2
  <2> QED BY <1>1, <2>1, <2>3, BackedQuiet
<1>5. ASSUME UNCHANGED <<storeVars, scan>> PROVE BackedInv'
  BY <1>1, <1>5, BackedQuiet DEF storeVars
<1>6. ASSUME NEW a \in NewAddrs, GetNewAddress(a) PROVE BackedInv'
  BY <1>5, <1>6 DEF GetNewAddress
<1>7. CASE UNCHANGED allScanVars
  BY <1>5, <1>7 DEF allScanVars, scanVars
<1>8. ~Restart
  BY <1>1 DEF Restart
<1> QED BY <1>2, <1>3, <1>4, <1>6, <1>7, <1>8 DEF ScanNext, Panic, Crash

\* Without a restart, overlapping scans may lose a credit but never invent
\* one: both balances are covered by the coins that SelectUTXOs can find.
THEOREM ScanNeverOverstates == ScanSafety => []NeverOverstated
<1> DEFINE Inv == Sound => BackedInv
<1>1. ScanInit => Inv
  <2> SUFFICES ASSUME ScanInit PROVE BackedInv
    OBVIOUS
  <2>1. memUtxos = <<>> /\ memBalance = 0 /\ dbBalance = 0
    BY DEF ScanInit
  <2>2. \A t \in Threads : scan[t].pc \in {"count", "idle"}
    BY DEF ScanInit, ThreadAt
  <2>3. Owed = 0
    <3> DEFINE f == [t \in Threads |-> OwedBy(t)]
    <3>1. \A t \in Threads : f[t] = 0
      BY <2>2 DEF OwedBy
    <3>2. Owed = SumFunctionOnSet(f, Threads)
      BY DEF Owed, SumFunction
    <3> HIDE DEF f
    <3> QED BY <3>1, <3>2, ThreadsFinite, SumOfZeros
  <2>4. UnspentValue(memUtxos) = 0
    <3>1. {j \in DOMAIN <<>> : ~(<<>>)[j].spent} = {}
      OBVIOUS
    <3> QED BY <2>1, <3>1, SumEmpty DEF UnspentValue, SumFunction
  <2> QED BY <2>1, <2>2, <2>3, <2>4 DEF BackedInv, Backed
<1>2. ScanTypeOK /\ ScanTypeOK' /\ OwnInv /\ Inv /\ [ScanNext]_allScanVars => Inv'
  BY BackedStep
<1>3. ScanTypeOK /\ Inv => NeverOverstated
  <2> SUFFICES ASSUME ScanTypeOK, BackedInv
               PROVE  /\ memBalance <= UnspentValue(memUtxos)
                      /\ dbBalance <= UnspentValue(memUtxos)
    BY DEF NeverOverstated, Sound
  <2>1. Owed \in Int /\ Owed >= 0
    BY OwedTyped
  <2>2. memBalance \in Int /\ dbBalance \in Int /\ UnspentValue(memUtxos) \in Int
    BY UnspentTyped DEF ScanTypeOK, StoreTypeOK
  <2> QED BY <2>1, <2>2 DEF BackedInv, Backed
<1>4. ScanSafety => []OwnInv
  BY OwnInitially, OwnStep, ScanTyped, PTL DEF ScanSafety
<1> QED BY <1>1, <1>2, <1>3, <1>4, ScanTyped, PTL DEF ScanSafety
=============================================================================
