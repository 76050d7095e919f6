------------------------------ MODULE Startup ------------------------------
(***************************************************************************)
(* The life of the program around the wallet: -create (CreateWallet),      *)
(* the start with an existing wallet (LoadWallet, from btcw.go), the       *)
(* goroutine Sync that Setup*Client starts before LoadWallet has finished, *)
(* and one goroutine for each notification of a block.  LoadWallet and     *)
(* Sync share the fields client and lastScannedBlock without a lock, and   *)
(* LoadWallet takes a wallet whose counter is zero for a new one.          *)
(*                                                                         *)
(* Blocks are heights, absolute ones as in the database; block 0 exists.   *)
(* What scanBlock does inside a block is the subject of Scan: here a block *)
(* is recorded in one step, or not at all.  Each start may use another     *)
(* node, of the same chain.  With Bitcoin Core there is one subscription   *)
(* per ZeroMQ entry of the node, and a notified block is fetched whole.    *)
(* With btcd there is one, and a notified block brings the transactions    *)
(* that match the filter the node has at that time.                        *)
(***************************************************************************)
EXTENDS Integers

CONSTANTS
  Depth,        \* how far below the node's height a new wallet starts
  InitHeight,   \* the node's height at the start
  Nodes,        \* values of the flag -node: "btcd", "core"
  Entries,      \* entries of GetZmqNotifications at Bitcoin Core, at the most
  MaxHeight,    \* bound: the node's height
  MaxStarts,    \* bound: starts of the program
  MaxFaults     \* bound: database and RPC failures

ASSUME StartupAssumption ==
  /\ Depth \in Nat \ {0} /\ InitHeight \in Nat
  /\ Nodes \subseteq {"btcd", "core"} /\ Entries \in Nat \ {0}
  /\ MaxHeight \in Nat /\ InitHeight <= MaxHeight
  /\ MaxStarts \in Nat /\ MaxFaults \in Nat

VARIABLES
  height,       \* the node's best block
  seed,         \* the stored master seed, 0 while there is no wallet; the
                \* seed that start number n of the program draws is n
  shown,        \* the seeds that have been printed
  dbScanned,    \* key "last_scanned_block" in the database
  recorded,     \* blocks that have been scanned with all that they pay the wallet
  main,         \* where the main goroutine is; "off": no process
  node,         \* the node that this process uses
  newStart,     \* local variable chainHeight of LoadWallet
  client,       \* w.client is set
  memScanned,   \* w.lastScannedBlock
  thread,       \* the scanning goroutines: [pc, target, block, whole, local]
  subscribed,   \* the entries with which NotifyBlocks / SubscribeHashBlock succeeded
  watched,      \* btcd's filter has every address of the wallet
  birth,        \* ghost: the node's height when the first address was handed out
  passed,       \* ghost: blocks that goroutines of notifications have counted
                \* while they were not recorded
  badStart,     \* ghost: a new wallet was served without a start height
  starts, faults

fileVars    == <<seed, dbScanned>>
processVars == <<node, newStart, client>>
nodeVars    == <<subscribed, watched>>
ghostVars   == <<birth, passed, badStart>>
startVars   == <<height, seed, shown, dbScanned, recorded, main, node, newStart,
                 client, memScanned, thread, subscribed, watched, birth, passed, badStart,
                 starts, faults>>

\* The goroutines: Sync, the poller of Polling, and <<height, entry>> for the
\* block of that height, started by a notification of that entry.
Sync    == <<0, 0>>
Poller  == <<1, 0>>
Loopers == {Sync, Poller}
Notices == (InitHeight + 1 .. MaxHeight) \X (1 .. Entries)
Threads == Loopers \cup Notices

CreatePCs == {"prompt", "seed", "init"}
LoadPCs   == {"setup", "client", "filter", "check", "count", "save", "set"}
ThreadPCs == {"idle", "count", "loop", "fetch", "scan", "save", "set", "subscribe"}
PollPCs   == {"cancel", "select", "sendNil", "sendCount", "sendHash"}   \* of Polling

NoNode   == "none"
NoThread == [pc |-> "idle", target |-> 0, block |-> 0, whole |-> TRUE, local |-> 0]
Go(t, pc) == thread' = [thread EXCEPT ![t].pc = pc]

Fault == faults < MaxFaults /\ faults' = faults + 1

\* The process ends: with it its goroutines, its fields and its subscription.
Exit ==
  /\ main' = "off" /\ node' = NoNode /\ client' = FALSE /\ newStart' = 0
  /\ memScanned' = 0 /\ subscribed' = {} /\ watched' = FALSE
  /\ thread' = [t \in Threads |-> NoThread]
  /\ UNCHANGED <<height, seed, shown, dbScanned, recorded, ghostVars, starts>>

-----------------------------------------------------------------------------
(* btcw -create.  For a wallet that exists it only prints an error. *)

CreateWallet ==
  /\ main = "off" /\ starts < MaxStarts /\ seed = 0
  /\ main' = "prompt" /\ starts' = starts + 1
  /\ UNCHANGED <<height, fileVars, shown, recorded, processVars, memScanned, thread,
                 nodeVars, ghostVars, faults>>

\* "y", and the same passphrase twice.
Confirm ==
  /\ main = "prompt"
  /\ main' = "seed"
  /\ UNCHANGED <<height, fileVars, shown, recorded, processVars, memScanned, thread,
                 nodeVars, ghostVars, starts, faults>>

\* "n", a terminal that cannot be read, or passphrases that differ.
Decline == main = "prompt" /\ Exit /\ UNCHANGED faults

\* Mutant: the seed is printed when the wallet has been created.
StoreBeforeShowing ==
  /\ main = "seed"
  /\ main' = "init"
  /\ UNCHANGED <<height, fileVars, shown, recorded, processVars, memScanned, thread,
                 nodeVars, ghostVars, starts, faults>>

\* The seed is drawn and printed before anything is stored.
ShowSeed ==
  /\ main = "seed"
  /\ shown' = shown \cup {starts} /\ main' = "init"
  /\ UNCHANGED <<height, fileVars, recorded, processVars, memScanned, thread,
                 nodeVars, ghostVars, starts, faults>>

\* initWalletBuckets: one transaction creates and fills all buckets, or none.
InitBuckets ==
  /\ main = "init"
  /\ seed' = starts /\ dbScanned' = 0 /\ main' = "off"
  /\ UNCHANGED <<height, shown, recorded, processVars, memScanned, thread,
                 nodeVars, ghostVars, starts, faults>>

InitBucketsFails == main = "init" /\ Fault /\ Exit

Creation == CreateWallet \/ Confirm \/ Decline \/ ShowSeed \/ InitBuckets \/ InitBucketsFails

-----------------------------------------------------------------------------
(* btcw without -create: LoadWallet, up to the RPC server. *)

\* Without a wallet it only prints an error.
LoadWallet ==
  /\ main = "off" /\ starts < MaxStarts /\ seed # 0
  /\ node' \in Nodes /\ memScanned' = dbScanned
  /\ main' = "setup" /\ starts' = starts + 1
  /\ UNCHANGED <<height, fileVars, shown, recorded, newStart, client, thread,
                 nodeVars, ghostVars, faults>>

\* SetupBtcdClient or SetupBitcoinCoreClient returns; Sync is running.
SetupClient ==
  /\ main = "setup"
  /\ main' = "client" /\ Go(Sync, "count")
  /\ UNCHANGED <<height, fileVars, shown, recorded, processVars, memScanned,
                 nodeVars, ghostVars, starts, faults>>

\* The certificate cannot be read, or rpcclient.New fails.
SetupClientFails == main = "setup" /\ Fault /\ Exit

SetClient ==
  /\ main = "client"
  /\ client' = TRUE /\ main' = "filter"
  /\ UNCHANGED <<height, fileVars, shown, recorded, node, newStart, memScanned, thread,
                 nodeVars, ghostVars, starts, faults>>

\* btcd is given the addresses the wallet has; Bitcoin Core has no filter.
LoadTxFilter ==
  /\ main = "filter"
  /\ main' = "check"
  /\ watched' = (node = "btcd")
  /\ UNCHANGED <<height, fileVars, shown, recorded, processVars, memScanned, thread,
                 subscribed, ghostVars, starts, faults>>

LoadTxFilterFails == main = "filter" /\ node = "btcd" /\ Fault /\ Exit

\* if wallet.lastScannedBlock == 0
CheckNew ==
  /\ main = "check"
  /\ main' = IF memScanned = 0 THEN "count" ELSE "serve"
  /\ UNCHANGED <<height, fileVars, shown, recorded, processVars, memScanned, thread,
                 nodeVars, ghostVars, starts, faults>>

CountForNew ==
  /\ main = "count"
  /\ newStart' = height /\ main' = "save"
  /\ UNCHANGED <<height, fileVars, shown, recorded, node, client, memScanned, thread,
                 nodeVars, ghostVars, starts, faults>>

CountForNewFails == main = "count" /\ Fault /\ Exit

\* setLastScannedBlock(chainHeight - 10), database first.
SaveStart ==
  /\ main = "save"
  /\ dbScanned' = newStart - Depth /\ main' = "set"
  /\ UNCHANGED <<height, seed, shown, recorded, processVars, memScanned, thread,
                 nodeVars, ghostVars, starts, faults>>

\* Its error is dropped, the wallet is served as it is.
SaveStartFails ==
  /\ main = "save" /\ Fault
  /\ main' = "serve" /\ badStart' = TRUE
  /\ UNCHANGED <<height, fileVars, shown, recorded, processVars, memScanned, thread,
                 nodeVars, birth, passed, starts>>

\* Mutant: the new wallet starts at the node's height.
SetStartAtTip ==
  /\ main = "set"
  /\ memScanned' = newStart /\ main' = "serve"
  /\ UNCHANGED <<height, fileVars, shown, recorded, processVars, thread,
                 nodeVars, ghostVars, starts, faults>>

SetStart ==
  /\ main = "set"
  /\ memScanned' = newStart - Depth /\ main' = "serve"
  /\ UNCHANGED <<height, fileVars, shown, recorded, processVars, thread,
                 nodeVars, ghostVars, starts, faults>>

Loading ==
  \/ SetupClient \/ SetupClientFails \/ SetClient \/ LoadTxFilter \/ LoadTxFilterFails
  \/ CheckNew \/ CountForNew \/ CountForNewFails \/ SaveStart \/ SaveStartFails \/ SetStart

-----------------------------------------------------------------------------
(* scanMissingBlocks in Sync, and the subscription that follows it. *)

\* Sync calls GetBlockCount on the nil interface that w.client still is.
SyncPanics == thread[Sync].pc = "count" /\ ~client /\ Exit /\ UNCHANGED faults

\* Mutant: a block that is not there yet is waited for.
SyncCountsOneMore ==
  /\ thread[Sync].pc = "count" /\ client
  /\ thread' = [thread EXCEPT ![Sync].pc = "loop", ![Sync].target = height + 1]
  /\ UNCHANGED <<height, fileVars, shown, recorded, main, processVars, memScanned,
                 nodeVars, ghostVars, starts, faults>>

SyncCounts ==
  /\ thread[Sync].pc = "count" /\ client
  /\ thread' = [thread EXCEPT ![Sync].pc = "loop", ![Sync].target = height]
  /\ UNCHANGED <<height, fileVars, shown, recorded, main, processVars, memScanned,
                 nodeVars, ghostVars, starts, faults>>

\* scanMissingBlocks returns, and Sync goes on to subscribe.
SyncCountFails ==
  /\ thread[Sync].pc = "count" /\ client /\ Fault
  /\ Go(Sync, "subscribe")
  /\ UNCHANGED <<height, fileVars, shown, recorded, main, processVars, memScanned,
                 nodeVars, ghostVars, starts>>

\* Where the loop leads when the blocks are scanned.
AfterCatchUp(t) == IF t = Sync THEN "subscribe" ELSE "select"

\* Mutant: the comparison of the loop is off by one.
TestLoopInclusive(t) ==
  /\ thread[t].pc = "loop"
  /\ Go(t, IF memScanned <= thread[t].target THEN "fetch" ELSE AfterCatchUp(t))
  /\ UNCHANGED <<height, fileVars, shown, recorded, main, processVars, memScanned,
                 nodeVars, ghostVars, starts, faults>>

\* for w.lastScannedBlock < height: the field is read here, and again by the
\* call of GetBlockHash.  The poller has the same loop.
TestLoop(t) ==
  /\ thread[t].pc = "loop"
  /\ Go(t, IF memScanned < thread[t].target THEN "fetch" ELSE AfterCatchUp(t))
  /\ UNCHANGED <<height, fileVars, shown, recorded, main, processVars, memScanned,
                 nodeVars, ghostVars, starts, faults>>

\* GetBlockHash(lastScannedBlock + 1)
FetchNext(t) ==
  /\ thread[t].pc = "fetch" /\ memScanned + 1 \in 0 .. height
  /\ thread' = [thread EXCEPT ![t].pc = "scan", ![t].block = memScanned + 1]
  /\ UNCHANGED <<height, fileVars, shown, recorded, main, processVars, memScanned,
                 nodeVars, ghostVars, starts, faults>>

\* There is no such block, or the call fails.
NoHash(t) ==
  /\ thread[t].pc = "fetch"
  /\ \/ memScanned + 1 \notin 0 .. height /\ UNCHANGED faults
     \/ Fault

\* Sync only logs the error; scanBlock is given nil and returns.
SyncFetchFails ==
  /\ NoHash(Sync)
  /\ Go(Sync, "loop")
  /\ UNCHANGED <<height, fileVars, shown, recorded, main, processVars, memScanned,
                 nodeVars, ghostVars, starts>>

\* The entry of the list that the loop of subscribeZeroMQNotifications is at.
\* It is the last one, or the loop goes on; btcd is asked once.
Entry     == thread[Sync].local + 1
LastEntry == IF node = "btcd" THEN 1 ELSE Entries
NextEntry ==
  \/ thread' = [thread EXCEPT ![Sync] = NoThread]
  \/ Entry < LastEntry /\ thread' = [thread EXCEPT ![Sync].local = Entry]

Subscribe ==
  /\ thread[Sync].pc = "subscribe" /\ Entry <= LastEntry
  /\ subscribed' = subscribed \cup {Entry}
  /\ NextEntry
  /\ UNCHANGED <<height, fileVars, shown, recorded, main, processVars, memScanned,
                 watched, ghostVars, starts, faults>>

\* The error of NotifyBlocks is dropped, that of SubscribeHashBlock logged.
SubscribeFails ==
  /\ thread[Sync].pc = "subscribe" /\ Entry <= LastEntry /\ Fault
  /\ NextEntry
  /\ UNCHANGED <<height, fileVars, shown, recorded, main, processVars, memScanned,
                 nodeVars, ghostVars, starts>>

SyncStep ==
  \/ SyncPanics \/ SyncCounts \/ SyncCountFails \/ SyncFetchFails
  \/ Subscribe \/ SubscribeFails

-----------------------------------------------------------------------------
(* scanBlock and scanBlockTxs, one block in one step. *)

\* Back to the loop, or the end of the goroutine of a notification.
Return(t) ==
  thread' = [thread EXCEPT ![t] = [NoThread EXCEPT
               !.pc = IF t \in Loopers THEN "loop" ELSE "idle", !.target = thread[t].target]]

\* The end of a scan: the field is read for lastScannedBlock + 1, whatever the
\* block is.  For Sync and the poller, who scan that block, it is the same.
CountNext(t) ==
  /\ thread' = [thread EXCEPT ![t].pc = "save", ![t].local = memScanned + 1]
  /\ passed' = IF t \in Notices THEN passed \cup ({memScanned + 1} \ recorded') ELSE passed

\* A block that btcd has filtered without all addresses is not recorded.
ScanBlock(t) ==
  /\ thread[t].pc = "scan"
  /\ recorded' = IF thread[t].whole THEN recorded \cup {thread[t].block} ELSE recorded
  /\ CountNext(t)
  /\ UNCHANGED <<height, fileVars, shown, main, processVars, memScanned,
                 nodeVars, birth, badStart, starts, faults>>

\* scanBlockTxs, for the notifications of btcd, logs errors and goes on.
ScansTxs(t) == t \in Notices /\ node = "btcd"

ScanBlockTxsFails(t) ==
  /\ thread[t].pc = "scan" /\ ScansTxs(t) /\ Fault
  /\ recorded' = recorded
  /\ CountNext(t)
  /\ UNCHANGED <<height, fileVars, shown, main, processVars, memScanned,
                 nodeVars, birth, badStart, starts>>

\* Mutant: an early return counts the block.
ScanBlockFailsCounted(t) ==
  /\ thread[t].pc = "scan" /\ ~ScansTxs(t) /\ Fault
  /\ recorded' = recorded
  /\ CountNext(t)
  /\ UNCHANGED <<height, fileVars, shown, main, processVars, memScanned,
                 nodeVars, birth, badStart, starts>>

\* scanBlock returns early.  A notified block is not asked for again.
ScanBlockFails(t) ==
  /\ thread[t].pc = "scan" /\ ~ScansTxs(t) /\ Fault
  /\ Return(t)
  /\ UNCHANGED <<height, fileVars, shown, recorded, main, processVars, memScanned,
                 nodeVars, ghostVars, starts>>

SaveAdvance(t) ==
  /\ thread[t].pc = "save"
  /\ dbScanned' = thread[t].local
  /\ Go(t, "set")
  /\ UNCHANGED <<height, seed, shown, recorded, main, processVars, memScanned,
                 nodeVars, ghostVars, starts, faults>>

\* Mutant: setLastScannedBlock sets the field also when the write failed.
SetThoughSaveFailed(t) ==
  /\ thread[t].pc = "save" /\ Fault
  /\ Go(t, "set")
  /\ UNCHANGED <<height, fileVars, shown, recorded, main, processVars, memScanned,
                 nodeVars, ghostVars, starts>>

\* The error of setLastScannedBlock is dropped.
SaveAdvanceFails(t) ==
  /\ thread[t].pc = "save" /\ Fault
  /\ Return(t)
  /\ UNCHANGED <<height, fileVars, shown, recorded, main, processVars, memScanned,
                 nodeVars, ghostVars, starts>>

SetAdvance(t) ==
  /\ thread[t].pc = "set"
  /\ memScanned' = thread[t].local
  /\ Return(t)
  /\ UNCHANGED <<height, fileVars, shown, recorded, main, processVars,
                 nodeVars, ghostVars, starts, faults>>

ScanStep(t) ==
  \/ TestLoop(t) \/ FetchNext(t)
  \/ ScanBlock(t) \/ ScanBlockTxsFails(t) \/ ScanBlockFails(t)
  \/ SaveAdvance(t) \/ SaveAdvanceFails(t) \/ SetAdvance(t)

-----------------------------------------------------------------------------
(* The node, the user, and the end of the process. *)

\* Each entry tells of the block, or its notification gets lost.  The handler
\* starts a goroutine, which runs at any time.
Mine ==
  /\ height < MaxHeight
  /\ height' = height + 1
  /\ \E told \in SUBSET subscribed :
       thread' = [t \in Threads |->
         IF t \in Notices /\ t[1] = height + 1 /\ t[2] \in told
         THEN [NoThread EXCEPT !.pc = "scan", !.block = height + 1,
                               !.whole = (node = "core" \/ watched)]
         ELSE thread[t]]
  /\ UNCHANGED <<fileVars, shown, recorded, main, processVars, memScanned, nodeVars,
                 ghostVars, starts, faults>>

\* The RPC server is up: somebody asks for an address.  It does not enter
\* btcd's filter.  Of the later ones only the first of a process matters, and
\* that for btcd only.
Nobody == -1
HandOut ==
  /\ main = "serve" /\ (birth = Nobody \/ watched)
  /\ birth' = IF birth = Nobody THEN height ELSE birth
  /\ watched' = FALSE
  /\ UNCHANGED <<height, fileVars, shown, recorded, main, processVars, memScanned, thread,
                 subscribed, passed, badStart, starts, faults>>

\* The process is stopped, or dies.
Stop == main # "off" /\ Exit /\ UNCHANGED faults

StartInit ==
  /\ height = InitHeight
  /\ seed = 0 /\ shown = {} /\ dbScanned = 0 /\ recorded = {}
  /\ main = "off" /\ node = NoNode /\ newStart = 0 /\ client = FALSE /\ memScanned = 0
  /\ thread = [t \in Threads |-> NoThread] /\ subscribed = {} /\ watched = FALSE
  /\ birth = Nobody /\ passed = {} /\ badStart = FALSE
  /\ starts = 0 /\ faults = 0

StartNext ==
  \/ Creation
  \/ LoadWallet \/ Loading \/ SyncStep
  \/ \E t \in Threads \ {Poller} : ScanStep(t)
  \/ Mine \/ HandOut \/ Stop

-----------------------------------------------------------------------------
(* Properties. *)

Heights == 0 .. MaxHeight
Goroutines ==
  [pc : ThreadPCs \cup PollPCs, target : Heights, block : Heights, whole : BOOLEAN,
   local : Int]

StartTypeOK ==
  /\ height \in Heights /\ recorded \in SUBSET Heights /\ passed \in SUBSET Int
  /\ seed \in Nat /\ shown \in SUBSET Nat
  /\ dbScanned \in Int /\ memScanned \in Int /\ newStart \in Heights
  /\ main \in {"off", "serve"} \cup CreatePCs \cup LoadPCs
  /\ node \in Nodes \cup {NoNode} /\ client \in BOOLEAN
  /\ subscribed \in SUBSET (1 .. Entries) /\ watched \in BOOLEAN
  /\ thread \in [Threads -> Goroutines]
  /\ birth \in Heights \cup {Nobody} /\ badStart \in BOOLEAN
  /\ starts \in 0 .. MaxStarts /\ faults \in 0 .. MaxFaults

\* Whatever interrupts -create, there is no wallet whose seed its owner has
\* not been shown: it could not be restored.
SeedWasShown == seed # 0 => seed \in shown

\* The scan counter, in memory, in the database and in the goroutines that
\* are to write it.
Counters ==
  {memScanned, dbScanned} \cup
  {thread[t].local : t \in {u \in Threads : thread[u].pc \in {"save", "set"}}}

\* Only notifications let the counter run ahead of the node: for all that
\* LoadWallet, Sync and the poller overwrite of each other's counts, a block
\* that does not exist yet counts as scanned only if a goroutine of a
\* notification has counted it, in place of the block it was told of.
AheadByNoticesOnly == \A n \in Counters : height + 1 .. n \subseteq passed

\* Only notifications skip blocks: once the first address is out, a block that
\* counts as scanned is recorded, or a goroutine of a notification has counted
\* it instead of its own or unrecorded.  LoadWallet, Sync and the poller pass
\* no block, over any stops, starts and failures: the start height Depth blocks
\* below the node's covers for the block that Sync may skip while LoadWallet
\* moves the counter.  Not so on a chain of no more than Depth blocks, or when
\* the start height was not saved: then the counter may be zero with addresses
\* out, and the next start skips.
OnlyNoticesSkip ==
  InitHeight > Depth /\ birth # Nobody /\ ~badStart =>
    \A n \in Counters : birth + 1 .. n \subseteq recorded \cup passed

\* Sync ends its catch-up, or the process ends.  The counter of a new wallet
\* must not lie below -1 for that.
CatchUpEnds == thread[Sync].pc # "idle" ~> thread[Sync].pc = "idle"

-----------------------------------------------------------------------------
(* What the comments of the code promise and the code does not keep. *)

\* "if this is new wallet, set last scanned block to current height of chain
\* - 10; no need to scan entire blockchain if wallet is new": Sync may have
\* started with block 1.
NewWalletSkipsChain ==
  [][\A h \in recorded' \ recorded : h > InitHeight - Depth]_startVars

\* "if this is new wallet": LoadWallet moves the counter of a wallet only
\* before its first address is out.
OnlyNewWalletSkips == [][main # "count" /\ main' = "count" => birth = Nobody]_startVars

\* "scan any missing blocks if needed": when the catch-up of a wallet in use
\* is over, no block since the first address is missing.
MissingAreScanned ==
  InitHeight > Depth /\ birth # Nobody /\ ~badStart /\ thread[Sync].pc = "subscribe" =>
    birth + 1 .. thread[Sync].target \subseteq recorded

\* "set last scanned block": no counter is ahead of the node.  With two ZeroMQ
\* entries each block counts twice.
CounterNotAhead == \A n \in Counters : n <= height
=============================================================================
