-------------------------------- MODULE Scan --------------------------------
(***************************************************************************)
(* Block scanning: wallet/scan.go, with the part of wallet/nodeclient.go   *)
(* that starts it.  One goroutine (Sync) catches up with the chain and     *)
(* then subscribes; from then on every block notification starts one more  *)
(* goroutine, <<height, publisher>>, that scans that block.  Nothing       *)
(* orders these goroutines: they share the Wallet fields without a lock    *)
(* around a read and the write computed from it.                           *)
(*                                                                         *)
(* The node is a fixed chain plan (Chain) revealed one block at a time.    *)
(* Only outputs matter, and of an output only its outpoint, value and      *)
(* address.  Heights are relative: 0 is the last block that the wallet had *)
(* scanned, with nothing of its own in it, when the behaviour starts.  (A  *)
(* wallet whose absolute lastScannedBlock is 0 is still being created:     *)
(* LoadWallet then sets the field to the node's height - 10.)              *)
(***************************************************************************)
EXTENDS Store

CONSTANTS
  Chain,        \* Chain[h] is the sequence of outputs of block h
  InitHeight,   \* the node's height when the wallet starts
  InitAddrs,    \* external addresses the wallet has when it starts
  NewAddrs,     \* external addresses it may generate later
  Foreign,      \* an address of somebody else
  Nonstandard,  \* the "address" of an output whose script has none
  Node,         \* "btcd" or "core"
  Publishers,   \* sources of block notifications: one for btcd, one per
                \* entry of GetZmqNotifications for Bitcoin Core
  Spaced,       \* blocks arrive only while no goroutine is scanning
  Lossy,        \* a notification may get lost
  MaxFaults,    \* bound: database and RPC failures
  MaxCrashes    \* bound: crashes out of the blue

OutputRecords == [txid : Nat, vout : Nat, value : Nat,
                  addr : InitAddrs \cup NewAddrs \cup {Foreign, Nonstandard}]

ASSUME ChainAssumption ==
  /\ Chain \in Seq(Seq(OutputRecords))
  /\ InitHeight \in 0 .. Len(Chain)
  /\ \A h \in 1 .. InitHeight : \A i \in DOMAIN Chain[h] : Chain[h][i].addr \notin NewAddrs
ASSUME NodeAssumption ==
  Node \in {"btcd", "core"} /\ Publishers \subseteq Nat \ {0} /\ IsFiniteSet(Publishers)
ASSUME AddrAssumption ==
  /\ InitAddrs \cap NewAddrs = {}
  /\ {Foreign, Nonstandard} \cap (InitAddrs \cup NewAddrs) = {}
ASSUME ScanBoundAssumption ==
  /\ Spaced \in BOOLEAN /\ Lossy \in BOOLEAN
  /\ MaxFaults \in Nat /\ MaxCrashes \in Nat

VARIABLES
  height,       \* the node's best block
  addresses,    \* w.addresses, equal to the external keys in the database
  filter,       \* the addresses btcd was given by loadTxFilter
  subscribed,   \* NotifyBlocks / SubscribeHashBlock has been called
  target,       \* local variable height of scanMissingBlocks
  scan,         \* the scanning goroutines
  faults,       \* failures so far
  crashes       \* restarts so far

scanVars == <<height, addresses, filter, subscribed, target, scan, faults, crashes>>
allScanVars == <<storeVars, scanVars>>

Sync == <<0, 0>>
Threads == {Sync} \cup ((1 .. Len(Chain)) \X Publishers)

OutputPCs == {"append", "read", "saveBalance", "setBalance"}   \* handling an output
BlockPCs  == OutputPCs \cup {"outputs", "saveScanned", "setScanned"}
ScanPCs   == BlockPCs \cup {"idle", "count", "loop"}

\* A goroutine: where it is, the block it scans, the output it is at, and the
\* value it has read and will write (a balance or a block height).
ThreadAt(pc, block) == [pc |-> pc, block |-> block, pos |-> 1, local |-> 0]

-----------------------------------------------------------------------------
(* What a goroutine sees of a block. *)

\* scanBlock is used by Sync and with Bitcoin Core, scanBlockTxs with btcd.
UsesScanBlock(t) == t = Sync \/ Node = "core"

Block(t)    == Chain[scan[t].block]
AtOutput(t) == scan[t].pc = "outputs" /\ scan[t].pos <= Len(Block(t))
Current(t)  == Block(t)[scan[t].pos]

\* OnFilteredBlockConnected only delivers the transactions, with all their
\* outputs, that pay some address of the filter.
Delivered(t) ==
  \/ UsesScanBlock(t)
  \/ \E i \in DOMAIN Block(t) :
        Block(t)[i].txid = Current(t).txid /\ Block(t)[i].addr \in filter

\* The current output is looked up in w.addresses and found.
Received(t) == AtOutput(t) /\ Delivered(t) /\ Current(t).addr \in addresses

Go(t, pc)          == scan' = [scan EXCEPT ![t].pc = pc]
GoWith(t, pc, val) == scan' = [scan EXCEPT ![t].pc = pc, ![t].local = val]
NextOutput(t)      == scan' = [scan EXCEPT ![t].pc = "outputs", ![t].pos = @ + 1]

\* scanBlock and scanBlockTxs return: Sync goes round the loop of
\* scanMissingBlocks, a notification goroutine ends.
Return(t) == Go(t, IF t = Sync THEN "loop" ELSE "idle")

Fault == faults < MaxFaults /\ faults' = faults + 1

-----------------------------------------------------------------------------
(* scanMissingBlocks and the subscription that follows it. *)

GetBlockCount ==
  /\ scan[Sync].pc = "count"
  /\ target' = height
  /\ Go(Sync, "loop")
  /\ UNCHANGED <<storeVars, height, addresses, filter, subscribed, faults, crashes>>

\* scanMissingBlocks gives up when the count fails; its caller goes on to
\* subscribe all the same.
GetBlockCountFails ==
  /\ scan[Sync].pc = "count"
  /\ Fault
  /\ subscribed' = TRUE
  /\ Go(Sync, "idle")
  /\ UNCHANGED <<storeVars, height, addresses, filter, target, crashes>>

\* Mutant: the block after the missing one is fetched.
FetchOneTooFar ==
  /\ scan[Sync].pc = "loop"
  /\ memScanned < target
  /\ memScanned + 1 \in 1 .. height
  /\ scan' = [scan EXCEPT ![Sync] = ThreadAt("outputs", memScanned + 2)]
  /\ UNCHANGED <<storeVars, height, addresses, filter, subscribed, target, faults, crashes>>

\* One turn of the loop: GetBlockHash(lastScannedBlock + 1), and scanBlock is
\* called.  When GetBlockHash fails the loop repeats, nothing has changed.
FetchMissingBlock ==
  /\ scan[Sync].pc = "loop"
  /\ memScanned < target
  /\ memScanned + 1 \in 1 .. height
  /\ scan' = [scan EXCEPT ![Sync] = ThreadAt("outputs", memScanned + 1)]
  /\ UNCHANGED <<storeVars, height, addresses, filter, subscribed, target, faults, crashes>>

\* Mutant: the loop's comparison is off by one.
SubscribeStrict ==
  /\ scan[Sync].pc = "loop"
  /\ memScanned > target
  /\ subscribed' = TRUE
  /\ Go(Sync, "idle")
  /\ UNCHANGED <<storeVars, height, addresses, filter, target, faults, crashes>>

Subscribe ==
  /\ scan[Sync].pc = "loop"
  /\ memScanned >= target
  /\ subscribed' = TRUE
  /\ Go(Sync, "idle")
  /\ UNCHANGED <<storeVars, height, addresses, filter, target, faults, crashes>>

-----------------------------------------------------------------------------
(* The body of scanBlock and scanBlockTxs. *)

\* GetBlockVerboseTx fails, and scanBlock returns.  The block of a notification
\* is not asked for again.
FetchBlockFails(t) ==
  /\ UsesScanBlock(t)
  /\ scan[t].pc = "outputs" /\ scan[t].pos = 1
  /\ Fault
  /\ Return(t)
  /\ UNCHANGED <<storeVars, height, addresses, filter, subscribed, target, crashes>>

\* scanBlockTxs calls String on the nil address of a script it could not parse.
Panics(t) ==
  AtOutput(t) /\ ~UsesScanBlock(t) /\ Delivered(t) /\ Current(t).addr = Nonstandard

\* Mutant: the loop does not advance past an output of somebody else.
SkipWithoutAdvance(t) ==
  /\ AtOutput(t) /\ ~Received(t) /\ ~Panics(t)
  /\ UNCHANGED allScanVars

SkipOutput(t) ==
  /\ AtOutput(t) /\ ~Received(t) /\ ~Panics(t)
  /\ NextOutput(t)
  /\ UNCHANGED <<storeVars, height, addresses, filter, subscribed, target, faults, crashes>>

\* Mutant: the address of the output is not looked up in w.addresses.
SaveAnyReceived(t) ==
  /\ AtOutput(t) /\ Delivered(t)
  /\ SaveUtxo(NewUtxo(Current(t)))
  /\ Go(t, "append")
  /\ UNCHANGED <<memVars, dbBalance, dbScanned,
                 height, addresses, filter, subscribed, target, faults, crashes>>

SaveReceived(t) ==
  /\ Received(t)
  /\ SaveUtxo(NewUtxo(Current(t)))
  /\ Go(t, "append")
  /\ UNCHANGED <<memVars, dbBalance, dbScanned,
                 height, addresses, filter, subscribed, target, faults, crashes>>

\* Mutants: addUTXO appends although saveUTXO failed; scanBlock, too, only
\* logs the error.
AppendThoughSaveFailed(t) ==
  /\ Received(t)
  /\ Fault
  /\ Go(t, "append")
  /\ UNCHANGED <<storeVars, height, addresses, filter, subscribed, target, crashes>>

SaveFailureOnlyLogged(t) ==
  /\ Received(t)
  /\ Fault
  /\ Go(t, "read")
  /\ UNCHANGED <<storeVars, height, addresses, filter, subscribed, target, crashes>>

\* addUTXO fails: scanBlock gives the block up, scanBlockTxs only logs and
\* goes on to credit the value.
SaveReceivedFails(t) ==
  /\ Received(t)
  /\ Fault
  /\ IF UsesScanBlock(t) THEN Return(t) ELSE Go(t, "read")
  /\ UNCHANGED <<storeVars, height, addresses, filter, subscribed, target, crashes>>

\* Mutant: addUTXO appends only when no coin of the same transaction is there.
AppendUnlessTxIsListed(t) ==
  /\ scan[t].pc = "append"
  /\ IF \E i \in DOMAIN memUtxos : memUtxos[i].txid = Current(t).txid
     THEN UNCHANGED memUtxos
     ELSE AppendUtxo(NewUtxo(Current(t)))
  /\ Go(t, "read")
  /\ UNCHANGED <<memBalance, memScanned, dbVars,
                 height, addresses, filter, subscribed, target, faults, crashes>>

AppendReceived(t) ==
  /\ scan[t].pc = "append"
  /\ AppendUtxo(NewUtxo(Current(t)))
  /\ Go(t, "read")
  /\ UNCHANGED <<memBalance, memScanned, dbVars,
                 height, addresses, filter, subscribed, target, faults, crashes>>

\* balance := w.balance + value, read without balanceMtx.
ReadBalance(t) ==
  /\ scan[t].pc = "read"
  /\ GoWith(t, "saveBalance", memBalance + Current(t).value)
  /\ UNCHANGED <<storeVars, height, addresses, filter, subscribed, target, faults, crashes>>

SaveCredit(t) ==
  /\ scan[t].pc = "saveBalance"
  /\ SaveBalance(scan[t].local)
  /\ Go(t, "setBalance")
  /\ UNCHANGED <<memVars, dbUtxos, dbScanned,
                 height, addresses, filter, subscribed, target, faults, crashes>>

\* Mutant: scanBlock only logs that the balance could not be written.
CreditFailureOnlyLogged(t) ==
  /\ scan[t].pc = "saveBalance"
  /\ Fault
  /\ NextOutput(t)
  /\ UNCHANGED <<storeVars, height, addresses, filter, subscribed, target, crashes>>

SaveCreditFails(t) ==
  /\ scan[t].pc = "saveBalance"
  /\ Fault
  /\ IF UsesScanBlock(t) THEN Return(t) ELSE NextOutput(t)
  /\ UNCHANGED <<storeVars, height, addresses, filter, subscribed, target, crashes>>

SetCredit(t) ==
  /\ scan[t].pc = "setBalance"
  /\ SetBalance(scan[t].local)
  /\ NextOutput(t)
  /\ UNCHANGED <<memUtxos, memScanned, dbVars,
                 height, addresses, filter, subscribed, target, faults, crashes>>

\* setLastScannedBlock(w.lastScannedBlock + 1): the argument is the field as
\* it is now, whatever block this goroutine has scanned.
ReadScanned(t) ==
  /\ scan[t].pc = "outputs" /\ scan[t].pos > Len(Block(t))
  /\ GoWith(t, "saveScanned", memScanned + 1)
  /\ UNCHANGED <<storeVars, height, addresses, filter, subscribed, target, faults, crashes>>

SaveAdvance(t) ==
  /\ scan[t].pc = "saveScanned"
  /\ SaveScanned(scan[t].local)
  /\ Go(t, "setScanned")
  /\ UNCHANGED <<memVars, dbUtxos, dbBalance,
                 height, addresses, filter, subscribed, target, faults, crashes>>

\* The error of setLastScannedBlock is dropped by both callers.
SaveAdvanceFails(t) ==
  /\ scan[t].pc = "saveScanned"
  /\ Fault
  /\ Return(t)
  /\ UNCHANGED <<storeVars, height, addresses, filter, subscribed, target, crashes>>

SetAdvance(t) ==
  /\ scan[t].pc = "setScanned"
  /\ SetScanned(scan[t].local)
  /\ Return(t)
  /\ UNCHANGED <<memUtxos, memBalance, dbVars,
                 height, addresses, filter, subscribed, target, faults, crashes>>

-----------------------------------------------------------------------------
(* The environment: the node, the user, and the end of the process. *)

Idle == \A t \in Threads : scan[t].pc = "idle"

\* Mutant: the wallet is notified from the start, before it has caught up.
MineNotifiesAlways ==
  /\ height < Len(Chain)
  /\ \A i \in DOMAIN Chain[height + 1] :
        Chain[height + 1][i].addr \in NewAddrs => Chain[height + 1][i].addr \in addresses
  /\ Spaced => Idle
  /\ height' = height + 1
  /\ \E told \in (IF Lossy THEN SUBSET Publishers ELSE {Publishers}) :
        scan' = [t \in Threads |->
                   IF t[1] = height + 1 /\ t[2] \in told
                   THEN ThreadAt("outputs", height + 1)
                   ELSE scan[t]]
  /\ UNCHANGED <<storeVars, addresses, filter, subscribed, target, faults, crashes>>

\* The node connects the next block of the plan and notifies a subscribed
\* wallet.  Nobody pays an address before the wallet has handed it out.
MineBlock ==
  /\ height < Len(Chain)
  /\ \A i \in DOMAIN Chain[height + 1] :
        Chain[height + 1][i].addr \in NewAddrs => Chain[height + 1][i].addr \in addresses
  /\ Spaced => Idle
  /\ height' = height + 1
  /\ \E told \in (IF Lossy THEN SUBSET Publishers ELSE {Publishers}) :
        scan' = [t \in Threads |->
                   IF subscribed /\ t[1] = height + 1 /\ t[2] \in told
                   THEN ThreadAt("outputs", height + 1)
                   ELSE scan[t]]
  /\ UNCHANGED <<storeVars, addresses, filter, subscribed, target, faults, crashes>>

\* GetNewAddress, seen from here: the new address enters w.addresses (and the
\* database), while the filter that btcd holds is left as it was.
GetNewAddress(a) ==
  /\ a \in NewAddrs \ addresses
  /\ addresses' = addresses \cup {a}
  /\ UNCHANGED <<storeVars, height, filter, subscribed, target, scan, faults, crashes>>

\* The process dies and is started again: LoadWallet reads the database, sends
\* the filter, and SetupBtcdClient / SetupBitcoinCoreClient start Sync.
Restart ==
  /\ LoadWallet
  /\ filter' = addresses
  /\ subscribed' = FALSE
  /\ target' = 0
  /\ scan' = [t \in Threads |-> ThreadAt(IF t = Sync THEN "count" ELSE "idle", 0)]
  /\ crashes' = crashes + 1
  /\ UNCHANGED <<dbVars, height, addresses, faults>>

Crash    == crashes < MaxCrashes /\ Restart
Panic(t) == Panics(t) /\ Restart

-----------------------------------------------------------------------------
ScanInit ==
  /\ memUtxos = <<>> /\ memBalance = 0 /\ memScanned = 0
  /\ dbUtxos = <<>> /\ dbBalance = 0 /\ dbScanned = 0
  /\ height = InitHeight
  /\ addresses = InitAddrs /\ filter = InitAddrs
  /\ subscribed = FALSE /\ target = 0
  /\ scan = [t \in Threads |-> ThreadAt(IF t = Sync THEN "count" ELSE "idle", 0)]
  /\ faults = 0 /\ crashes = 0

SyncStep == GetBlockCount \/ GetBlockCountFails \/ FetchMissingBlock \/ Subscribe

BlockStep(t) ==
  \/ FetchBlockFails(t) \/ SkipOutput(t)
  \/ SaveReceived(t) \/ SaveReceivedFails(t) \/ AppendReceived(t)
  \/ ReadBalance(t) \/ SaveCredit(t) \/ SaveCreditFails(t) \/ SetCredit(t)
  \/ ReadScanned(t) \/ SaveAdvance(t) \/ SaveAdvanceFails(t) \/ SetAdvance(t)

ScanNext ==
  \/ SyncStep
  \/ \E t \in Threads : BlockStep(t) \/ Panic(t)
  \/ MineBlock
  \/ \E a \in NewAddrs : GetNewAddress(a)
  \/ Crash

\* Goroutines run and RPC calls return; the node need not mine, the user need
\* not ask for addresses, and the process need not crash.
ScanFairness ==
  /\ WF_allScanVars(SyncStep)
  /\ \A t \in Threads : WF_allScanVars(BlockStep(t) \/ Panic(t))

ScanSafety == ScanInit /\ [][ScanNext]_allScanVars
ScanSpec   == ScanSafety /\ ScanFairness

-----------------------------------------------------------------------------
(* Properties. *)

\* The outputs of block h that pay the wallet, and their outpoints.
OwnPositions(h) == {i \in DOMAIN Chain[h] : Chain[h][i].addr \in InitAddrs \cup NewAddrs}
OwnOutpoints(h) == {Outpoint(Chain[h][i]) : i \in OwnPositions(h)}

\* The places, block and position, of the outputs of the blocks 1 .. h that
\* pay the wallet, and what they add up to.
PaidPlaces(h) == UNION {{b} \X OwnPositions(b) : b \in 1 .. h}
PaidUpTo(h)   == SumFunction([p \in PaidPlaces(h) |-> Chain[p[1]][p[2]].value])

\* Types of all variables, and what a thread's record can hold: a thread
\* inside a block is on an existing one, and an online goroutine only ever
\* scans the block it was started for.
ScanTypeOK ==
  /\ StoreTypeOK
  /\ height \in 0 .. Len(Chain)
  /\ addresses \in SUBSET (InitAddrs \cup NewAddrs)
  /\ filter \in SUBSET (InitAddrs \cup NewAddrs)
  /\ subscribed \in BOOLEAN
  /\ target \in 0 .. Len(Chain)
  /\ scan \in [Threads -> [pc : ScanPCs, block : 0 .. Len(Chain), pos : Nat \ {0}, local : Int]]
  /\ \A t \in Threads :
        /\ scan[t].pc \in BlockPCs =>
              scan[t].block \in 1 .. Len(Chain) /\ (t # Sync => scan[t].block = t[1])
        /\ scan[t].pc \in OutputPCs => scan[t].pos <= Len(Block(t))
  /\ faults \in Nat /\ crashes \in Nat

\* A block counts as scanned in the database only when every output in it
\* that pays the wallet is saved: the order addUTXO, setBalance,
\* setLastScannedBlock and the early returns of scanBlock see to that
\* whatever crash or failed write comes between them.
ScannedIsRecorded ==
  \A h \in (1 .. dbScanned) \cap DOMAIN Chain : OwnOutpoints(h) \subseteq DOMAIN dbUtxos

\* The promise of Receipts: what is saved stays saved, and the durable scan
\* counter moves by one block at a time, over fully recorded blocks only.
Promise == INSTANCE Receipts WITH
  Top <- Len(Chain), Coins <- [h \in 1 .. Len(Chain) |-> OwnOutpoints(h)],
  recorded <- DOMAIN dbUtxos, horizon <- dbScanned

KeepsPromise == Promise!ReceiptSpec

\* During catch-up a crash or a failed write may credit an output twice,
\* never lose it: the durable balance covers the blocks counted as scanned.
NeverUnderCredited ==
  dbScanned \in 0 .. Len(Chain) => dbBalance >= PaidUpTo(dbScanned)

\* Every coin the wallet holds, in memory and in the database, is an output
\* of a block of the chain that pays one of the addresses it has issued, with
\* the value that output has.
OnlyOwnCoins ==
  \A u \in Range(memUtxos) \cup Range(dbUtxos) :
    \E h \in 1 .. height : \E i \in OwnPositions(h) :
      /\ Chain[h][i].addr \in addresses
      /\ u = NewUtxo(Chain[h][i])

\* Without a restart, overlapping scans may lose a credit but never invent
\* one: the balance that SendToAddress checks is covered by the coins that
\* SelectUTXOs can find.  With Bitcoin Core that also holds when steps fail.
NeverOverstated ==
  crashes = 0 /\ (Node = "core" \/ faults = 0) =>
    /\ memBalance <= UnspentValue(memUtxos)
    /\ dbBalance <= UnspentValue(memUtxos)

\* "setup ZeroMQ notifications for new blocks added": a block is handled once,
\* so no coin is listed twice.
CoinsListedOnce ==
  \A i, j \in DOMAIN memUtxos : Outpoint(memUtxos[i]) = Outpoint(memUtxos[j]) => i = j

\* No block is both caught up with and notified: with one publisher, no
\* failure and no restart, no coin is listed twice.
CaughtUpOrNotified ==
  Cardinality(Publishers) = 1 /\ faults = 0 /\ crashes = 0 => CoinsListedOnce

\* Catch-up ends: once scanMissingBlocks knows the height it goes on until it
\* has subscribed for new blocks, however often single steps fail (unless the
\* process is restarted, which starts the catch-up anew).
CatchesUp == scan[Sync].pc = "loop" ~> scan[Sync].pc \in {"idle", "count"}

\* Every goroutine started for a block ends.
ScansEnd == \A t \in Threads : scan[t].pc = "outputs" ~> scan[t].pc \in {"idle", "loop", "count"}

-----------------------------------------------------------------------------
(* What the comments of the code promise and the code does not keep. *)

\* scanMissingBlocks "will ... scan any missing blocks if needed": when the
\* wallet has caught up, has subscribed and scans nothing, every block of the
\* node's chain is recorded.
NoBlockMissed ==
  subscribed /\ Idle => \A h \in 1 .. height : OwnOutpoints(h) \subseteq DOMAIN dbUtxos

\* Only missing blocks are scanned: catching up after a restart leaves the
\* balance at what the chain paid.
CatchUpCreditsOnce ==
  subscribed /\ Idle /\ faults = 0 => memBalance = PaidUpTo(height)

\* "loadTxFilter ... to be used whenever a new address is generated so that
\* btcd notifcations will add the new address to the filter": an address in
\* w.addresses is eventually in the filter.
NewAddressIsWatched == \A a \in NewAddrs : a \in addresses ~> a \in filter

\* scanBlockTxs "adds UTXOs to wallet and updates balance": when all blocks
\* have been scanned, the balance is the sum of the UTXOs.
BalanceMatchesUtxos ==
  subscribed /\ Idle => memBalance = UnspentValue(memUtxos)
=============================================================================
