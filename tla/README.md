# btcw in TLA+

A verification project for [btcw](../src/README.md), a Bitcoin testnet wallet in
Go: TLA+ modules of its stateful parts, TLC runs on small instances, and
theorems checked with TLAPS for all instances.

To repeat a run: `tlc -config <Run>.cfg <Module>.tla`. To repeat the proofs:
`tlapm StoreProofs.tla`, `ScanProofs.tla`, `UtxoSelectProofs.tla`, `SpendProofs.tla`,
`WalletProofs.tla`, `KeyChainProofs.tla`, `PollingProofs.tla`, `WalletLockProofs.tla`.

## 1. The system

One process (`btcw`) holds a `Wallet` struct and a bbolt database. It talks to a
node (btcd over a websocket, or Bitcoin Core over HTTP and ZeroMQ) and serves
JSON-RPC to a command line client.

| Component | Source | State | Operations | Correct when |
|---|---|---|---|---|
| Wallet bookkeeping | `wallet/wallet.go`, `wallet/db.go` | UTXO slice, balance, scan counter, in memory and in buckets `utxos`, `wallet_metadata` | `addUTXO`, `setBalance`, `setLastScannedBlock`, `updateUTXO`, `loadUTXOs` | memory never shows what the database would forget |
| Block scanning | `wallet/scan.go` | one goroutine per block, one for the catch-up | `scanMissingBlocks`, `scanBlock`, `scanBlockTxs`, `scanForNewBlocks` | every payment is recorded and credited once |
| Node clients | `wallet/nodeclient.go` | subscription, btcd's address filter | `Setup*Client`, `loadTxFilter`, `subscribeZeroMQNotifications` | no block is missed, none comes twice |
| UTXO selection | `tx/utxo.go` | local to a call | `SelectUTXOs` | unspent coins, once each, that cover the amount, if there are any |
| Sending | `wallet/rpc.go`, `wallet/tx.go`, `tx/tx.go` | three goroutines per transaction | `SendToAddress`, `updateWalletAfterTx`, `markSpentUTXOs`, `addChangeUTXO` | the wallet agrees with the node on what is spent, and on its change |
| HD key chains | `wallet/keys.go`, `wallet/wallet.go` | last index in memory and database, bucket `keys`, address map | `generateNewExternalKeyPair`, `generateNewInternalKeyPair`, `loadExternalAddresses` | addresses are fresh, and spendable after a restart |
| Wallet lock | `wallet/wallet.go`, `wallet/rpc.go` | `locked`, one sleeping goroutine per unlock | `unlock`, `lock`, the check in `SendToAddress` | an unlocked wallet locks again, and stays unlocked as long as asked |
| Start | `wallet/setup.go`, `wallet/nodeclient.go`, `btcw.go` | `client`, start height, the goroutine that catches up | `LoadWallet`, `Setup*Client` | memory equals the database, and the start and the catch-up leave no block after the first address out |
| Polling | `wallet/scan.go`, `wallet/nodeclient.go` | context, ticker, error channel | `scanForNewBlocks` | new blocks are seen without ZeroMQ |
| Creation | `wallet/setup.go`, `wallet/db.go` | seed on paper, seed in the database | `CreateWallet`, `initWalletBuckets` | all buckets or none, and no seed that was not shown |
| RPC server, client, flags, cryptography | `rpcserver`, `cmd`, `btcw.go`, `config.go`, `utils`, `wallet/hd.go` | none of their own | | |

How they interact. `net/rpc` runs every call in a goroutine of its own.
`SendToAddress` reads the lock, the balance and the UTXO slice, selects, takes a
change address from the internal key chain, broadcasts, and leaves three
goroutines behind that write the slice, the database and the balance. Each
block notification starts a goroutine that reads the address map and writes the
same fields. `utxoMtx` and `balanceMtx` protect single assignments, never a read
together with the write computed from it. Each setter is two writes, first the
database and then the field. `Setup*Client` starts the catch-up before `LoadWallet`
has set `client`, the filter of btcd and the start height of a new wallet; both then write
`lastScannedBlock`. Bitcoin Core tells of a block once per ZeroMQ entry, and each scan adds one
to `lastScannedBlock`, whichever block it has scanned. Without ZeroMQ, Bitcoin Core is polled.

What is hard about it: lost updates between these goroutines; crashes and
failed writes between the separate database transactions of one operation;
blocks that arrive around the subscription, several times, or in overlapping
scans; a transaction that is out before anything is stored; several index reads
in one call; timers that nobody stops; a start that has not finished when the
catch-up runs; a cancelled context and a channel without a buffer. `PROJECT.json` lists these hazards at
their lines, with the properties that are about them.

## 2. The modules

| Module | What it is |
|---|---|
| `Store` | The six bookkeeping variables, the two halves of each setter as separate operators, `LoadWallet`. Extended by `Scan` and `Spend`. |
| `Scan` | Scanning and what starts it. `Sync` is the goroutine of `Setup*Client` (catch-up, then subscription); `<<h, p>>` is the goroutine that publisher `p` started for block `h`. A step is one read or one write of shared state. |
| `Receipts` | The abstract specification of the durable part of scanning: recorded coins are never given up, and the counter moves one block at a time, over recorded blocks. `Scan` is mapped to it by `Promise`. |
| `Selection`, `UtxoSelect` | What `SelectUTXOs` may return, as a relation, and the loop that computes it, one turn per step with `rand.Intn` as a choice. `Spend` uses the relation. |
| `Spend` | The handler of each `SendToAddress` with its `marker`, `changer` and `balancer` goroutines, and the node as the set of the wallet's coins that exist and of those that are spent. |
| `Wallet` | `Scan` and `Spend` over one `Store` and one node: blocks bring the coins that sends spend, one crash ends both. The two appends to `w.utxos` exclude each other by `utxoMtx` (`moving` is an append of a scan to a full slice). |
| `Startup` | The life of the program: creation with its prompts, `LoadWallet` step by step, the catch-up goroutine that runs against it, stops at any point. Each start takes btcd or Bitcoin Core. `<<h, e>>` is the goroutine that entry `e` started for block `h`: Bitcoin Core has an entry per line of `GetZmqNotifications`, btcd one. A block is a height and is recorded in one step (what happens inside is in `Scan`), unless btcd has filtered it while it did not have all addresses (`whole`). |
| `Polling` | `Startup` for Bitcoin Core without ZeroMQ: context, receiver, and the poller as a third goroutine that scans. |
| `AddressIssuer` | The abstract specification of a key chain: a durable count that goes up by one, and only the address counted last is handed out, once. `KeyChain` is mapped to it by `Issuer`. |
| `KeyChain` | One chain; `Tracked` tells the external one, whose addresses enter `w.addresses`. A call has the eight places at which it reads or writes the shared state. |
| `WalletLock` | The flag, the calls that clear it, the goroutines that will set it, the check of a send. Time is the time each goroutine has left. |
| `MCScan`, `MCSpend`, `MCWallet`, `MCKeyChain`, `MCWalletLock` | Values for TLC. |
| `StoreProofs`, `ScanProofs`, `UtxoSelectProofs`, `SpendProofs`, `WalletProofs`, `KeyChainProofs`, `PollingProofs`, `WalletLockProofs` | Theorems. |

Correspondence. A `pc` value stands for a place between two accesses to shared
state; local variables are fields of the goroutine's record (`local`, `inputs`,
`idx`, `value`). An error return is an action of its own (`...Fails`), bounded
by `MaxFaults` and its like; a crash or a panic is the restart action, which
keeps the database and sets the fields as `LoadWallet` does. `PROJECT.json`
gives for each definition the lines that it models.

What the modules abstract from:

- Scripts, keys, addresses and hashes are numbers. An output's address is an
  address of the wallet, of somebody else (`Foreign`), or none (`Nonstandard`).
- Heights are relative to the last block scanned before the behaviour starts;
  in `Startup` and `Polling` they are absolute, and `Depth` stands for the 10 of the code.
- Amounts are small integers. The fee is `FeeBase + FeePerInput * inputs`, which
  is the shape of `size * feeRate * 2`.
- The node takes a transaction whose inputs exist unspent and whose change is
  positive. It does not reorganise its chain (btcw has no code for that).
- The data races on the fields are modelled as accesses in some order, one at a
  time. The exception is `append` to a full slice, which is split into the copy
  and the store, because a mark can be lost in between.

## 3. What is checked

All runs end within two minutes. Runs without `Deadlock` checking are those where
the program may stop: a wallet that has scanned every block of the plan, or whose
bounded calls are used up, waits.

Runs that pass:

| Run | Instance | What it shows |
|---|---|---|
| `ScanCatchUp` | two blocks to catch up, two failures, two crashes, one new address | Whatever fails or dies between the writes, a block that counts as scanned is recorded (`ScannedIsRecorded`) and credited at least once (`NeverUnderCredited`); the durable state implements `Receipts`; the catch-up ends. |
| `ScanOnline` | btcd, overlapping and lost notifications, foreign and nonstandard outputs, one failure, one crash | Own coins only, saved before they are shown, and worth at least the balance while nothing fails or restarts; with one publisher, and while nothing fails or restarts, no block is both caught up with and notified, so no coin is listed twice; every scan ends. |
| `SelectLoop` | all lists of up to four coins of three values, spent or not, three amounts | The result is one that `Selections` allows; an error means that the coins do not cover the amount; no draw panics; the loop ends. |
| `SpendOverlap` | two sends of 3, 4 or 12 that overlap, a full slice, one failure, one crash | Marks are true, coins exist, balances are never too small. |
| `WalletSerial` | Bitcoin Core, three blocks, two sends of 4 or 12, one new address, one failure of a scan | With blocks and sends one after the other, the wallet at rest agrees with the node unless a step has failed: coins, marks, both balances, height. Every send ends. |
| `WalletOverlap` | btcd, two blocks, one send, a full slice, one failure of the send, a panic, one crash | No append is lost, and the balance is always some credits less some debits: lost updates, never torn or doubled ones. |
| `KeysOneByOne` | one request at a time, three addresses, two failed writes, two crashes | Fresh, recoverable, without gaps; the chain implements `AddressIssuer`. `net/rpc` does not keep requests apart: what happens when they overlap is in `KeysOverlapPath`. |
| `StartAndPoll` | either node at each of three starts, two ZeroMQ entries or none, `Depth = 2`, a chain of 3 blocks that grows to 4, one failure | A stored seed was shown; only a goroutine of a notification counts a block that does not exist yet (`AheadByNoticesOnly`) or that is not recorded (`OnlyNoticesSkip`), not `LoadWallet`, the catch-up or the poller, although they overwrite one another's counts; the catch-up ends; polling advances over recorded blocks only; a cancelled poller stops. |
| `LockTimers` | two callers, three unlocks for -2, 0, 1 or 2 units, one restart | An unlocked wallet has a goroutine that will lock it; it locks again. |

The bounds are small because the hazards are about orders of steps. Two blocks
and two goroutines make every pair of accesses overlap; two crashes let a crash
hit the recovery from a crash; three addresses let a repeated one be told from
its neighbours on both sides; two ZeroMQ entries have one block counted twice (the safety
properties of `StartAndPoll` also hold with `MaxHeight = 5`, in 3.5 million states); four coins give the selection loop a first, a
middle and a last turn and a last entry. Every property fails when a plausible
mistake is put into the code's model; `PROJECT.json` names one for each.

Runs that show a disagreement of the code with what its own comments say. Each
checks one property, and TLC prints the steps:

| Run | Source | What happens |
|---|---|---|
| `ScanGap` | `scan.go:19` | A block mined between `GetBlockCount` and the subscription is never scanned. |
| `KeysOverlapPath` | `keys.go:82` | An overlapping call stores a key under another key's path. |
| `PollStops` | `nodeclient.go:167` | The goroutine that starts the polling cancels it when it returns, at once: later blocks are not seen until the next start. |

More properties that the code does not have are defined in the modules, without
a configuration of their own. TLC finds each violated at once with the constants of
the run named here, changed as stated:

| Property | Constants | Source | What happens |
|---|---|---|---|
| `CatchUpCreditsOnce` | `ScanGap`, `InitHeight = 2`, `Spaced`, one crash | `scan.go:166` | A crash before the counter is written has the block credited twice. |
| `BalanceMatchesUtxos` | `ScanGap`, `"btcd"`, `InitHeight = 0` | `scan.go:66` | Two scans read the same balance; one credit is lost. |
| `CoinsListedOnce` | `ScanGap`, `Publishers = {1, 2}` | `nodeclient.go:218` | One subscription per ZeroMQ entry: each block is scanned as often. |
| `NewAddressIsWatched` | `ScanOnline` | `rpc.go:21` | A new address never enters btcd's filter while the wallet runs. |
| `OnlyUnspentSelected` | `SelectLoop` | `utxo.go:48` | A single spent UTXO is selected. |
| `MarkIsSaved` | `SpendOverlap` | `tx.go:174` | The database never learns that a coin is spent. |
| `MarksAreTrue` | `SpendOverlap`, `InitCoins <- SameTx` | `tx.go:172` | Of two coins of one transaction the wrong one is marked. |
| `SpentIsMarked` | `SpendOverlap` | `tx.go:177` | A mark set while `append` moves the slice is lost. |
| `BalanceIsReduced` | `SpendOverlap` | `tx.go:162` | Two sends reduce the same balance; one reduction is lost. |
| `ChangeIsKept` | `SpendOverlap` | `rpc.go:76` | A crash after the broadcast loses the change. |
| `FreshAddresses`, `IssuedRecoverable`, `KeysInOrder`, `KeepsOrder` | `KeysOverlapPath` (without `SYMMETRY` for the last) | `keys.go:71` | Overlapping calls return one address twice, and store a key under another one's path. |
| `UnlockLasts` | `LockTimers` | `wallet.go:194` | An earlier timer locks the wallet within a later unlock. |
| `NewWalletSkipsChain` | `StartAndPoll` | `setup.go:185` | The catch-up of a new wallet starts at block 1 before the start height is set. |
| `OnlyNewWalletSkips` | `StartAndPoll` | `setup.go:180` | The start height was not saved, addresses are out, and the next start moves the counter again. |
| `CatchUpEnds` | `StartAndPoll`, `InitHeight = 0` | `setup.go:185` | The counter is negative, and the loop asks for a block that does not exist, for ever. |
| `CounterNotAhead` | `StartAndPoll` | `nodeclient.go:218` | Each ZeroMQ entry has a block counted: the counter passes the node's height. |
| `MissingAreScanned` | `StartAndPoll` | `setup.go:173` | A block that btcd filtered before it had the addresses, or that pays a later one, is counted unrecorded. |
| `MissingAreScanned` | `StartAndPoll`, `Nodes = {"core"}`, `Entries = 1`, `MaxHeight = 5`, no failure | `scan.go:176` | Two blocks are mined, the notification of the first is lost or its goroutine is late. The goroutine of the second counts the first; the catch-up of the next start begins after it and never scans it. |
| `OnlyNoticesSkip` without `InitHeight > Depth` | `StartAndPoll`, `InitHeight = 2` | `setup.go:180` | The start height is zero, so that a wallet with addresses is taken for new at the next start, which skips blocks. |
| `OnlyNoticesSkip` without `~badStart` | `StartAndPoll`, `MaxHeight = 5` | `setup.go:185` | The same after the start height was not saved. |
| `PollerEnds` | `StartAndPoll` | `scan.go:99` | After an error the poller waits for a receiver that is gone. |
| `NeverOverstated` without `faults = 0` | `ScanOnline` | `scan.go:62` | The coin was not saved; its value is credited all the same. |
| `SignsUnlocked` | `LockTimers` | `rpc.go:31` | The wallet is locked between the check and the signing. |

Fairness. Goroutines that can run do run, and RPC and database calls return, with
an answer or an error: weak fairness of the steps of each goroutine. Nothing
is assumed of the node (it need not mine), of users (they need not call), or of
crashes (they need not happen). In `WalletLock` time passes and a goroutine
whose sleep is over wakes some time later. `CatchesUp` needs failures to be
finitely many, which their bound gives; with a node that always fails the loop
of `scanMissingBlocks` runs for ever. In `Polling` the clock ticks, and `SelectDone`
has strong fairness: Go's `select` takes one of the ready cases at random, so a
context that stays cancelled is noticed at last even if a tick is ready each time.

## 4. What is proved

Assumptions are the named `ASSUME`s of each module, which TLC evaluates in the
runs. They bound nothing: any chain, any number of addresses, publishers,
coins, calls, failures and crashes. (Amounts are natural numbers, and a node has
finitely many publishers.) Further hypotheses are those of the theorem's
statement; each is one without which the property is false, as section 3 shows.

- `StoreProofs` has the lemmas about the setters and the load, and those about
  sums over finite sets that every statement about a balance needs: a sum is a
  number, depends only on the values it adds, grows by what an element adds, splits, is
  monotone, and can be renumbered. The library defines a sum by recursion over
  the set. The lemmas do not use induction, which the provers cannot
  instantiate: each takes the set of subsets for which it fails, and a
  smallest one of them, by the well-foundedness of strict inclusion.
- `ScanProofs`. `ScanTyped` and `ScanAppendedIsSaved` hold for both nodes and for
  scans that overlap. The second needs to know that a goroutine at `append` has
  saved the coin that it is about to append; the coin cannot disappear, since no
  step removes a record. `CatchUpRecordsAll`, `CatchUpKeepsPromise` and
  `CatchUpCreditsAll` assume
  `InitHeight = Len(Chain)`: the chain does not grow, so only `Sync` scans.
  Without this they are false (`ScanGap`; also, notification goroutines count
  blocks instead of naming them). The inductive invariant says that `Sync` has
  recorded every own output before the one it is at, that its block is the one
  after the counter, and that the counters in memory and database differ only
  between the two writes of `setLastScannedBlock`. From it each step maps to
  `Record`, to `Advance`, or to no change of `Receipts`. `CreditInv` adds what the
  balances hold: the payments of the counted blocks and those that `Sync` is past,
  in the value it is about to write before the database and in the database
  before the field, so that a crash at any place loses no credit.
  `ScanListsOwnCoins`: what a goroutine holds at `append` is an output of a mined
  block that pays an issued address, and stays one (`OwnInv`).
  `ScanListsOnce` is for chains whose outputs have different outpoints. `OnceInv`
  says that `Sync` and the notifications do not scan at the same time, that with one
  publisher a block has one goroutine, and that no output that some goroutine may
  still append is listed.
  `ScanNeverOverstates`: every balance that is or will be written, with what the
  goroutines at `read` are about to add (`Owed`), is covered by the listed coins;
  a coin is listed before its value is added, and a lost update only makes the
  balance smaller (`BackedInv`).
- `UtxoSelectProofs`. `SelectNeverPanics`: at the head of the loop at least two
  entries are left, and the last entry of the list is one of them; each turn
  removes another one. `SelectIsRight`: the amount that is left is the amount
  asked for less the values selected, and entries that are neither left nor selected
  are spent. So the result is one of the `Selections` that `Spend` relies on, and an error
  means that the coins do not cover the amount.
- `SpendProofs`, for any number of calls at any stage. `SpendListsCoins`: the
  change of a call exists at the node before the call updates the wallet, and is
  listed once, by itself or in the copy of a full slice that will replace it
  (`CoinInv`). `SpendMarksTruly` assumes that the coins are of different transactions
  (`OneCoinPerTx`), since the loop of `markSpentUTXOs` compares the transaction's hash
  only; then the position found is that of the input, and remains so although the
  slice moves. `SpendHidesNoMoney`: every balance that is or will be written is
  at least what the node has plus the costs of the transactions that are out and
  not yet taken off (`Due`); the cost of one is taken off where `Due` loses it.
- `WalletProofs`, for scans and sends that overlap in any way. `WalletTyped` is not the
  conjunction of the two types: `marker[i].at` must stay within a slice that scans
  also replace, so it needs the discipline of `utxoMtx`. `MutexInv` says that at most one
  goroutine has a copy of the slice, that the copy has the coins of the slice at their
  places and one more (`Extension`), and that nobody appends in between.
  `WalletKeepsAppends` follows from it: a store adds to what is listed.
  `WalletBalanceIsWhole` assumes one publisher. The sum is over places, block
  and position: a goroutine is past a place once it has read the balance for it
  (`Past`), and every balance that is or will be written is the worth of some of the
  places past and of some calls that are over (`Wholes`). A credit counts once
  because the goroutine that is about to read is the only one that gets to its
  place: `Sync` takes the blocks in their order and subscribes last, and each later
  block has a goroutine of its own (`InOrder`).
  `WalletAgreesExactly` proves `WalletExact`, from two hypotheses. `EachIsTold`: there is
  one publisher, it loses nothing, and it tells of every payment, as Bitcoin Core does,
  and btcd as long as no address is generated that its filter does not have. (A block that
  is not told is not counted; one that is told twice is listed twice.) `DistinctPayments`:
  the payments to the wallet are outputs of different transactions, none of them its own,
  since `markSpentUTXOs` compares the transaction's hash only. The constants of
  `WalletSerial` have both. `WalletExact` speaks of the wallet at rest, so the inductive
  invariant `CalmInv` must speak of every state on the way: while nothing has overlapped,
  failed or restarted, the wallet rests (`Resting`), or one goroutine scans the last
  block (`Receiving`), or one call is under way with its goroutines (`Sending`). In the
  second case the list lacks the payments from the place of the goroutine on (`ToList`)
  and the balance their value (`ToCredit`); in the third the list lacks the change
  (`ToAdd`) and the marks of the inputs not reached yet (`ToMark`), and the balance is too
  large by the cost until the goroutine that writes it is done (`TakesCost`). `Agrees` compares
  a list with the node up to what is yet to do, and has one lemma for each way to do
  a part of it. Each step does one part, and when nothing is left the wallet rests.
  TLC has checked `CalmInv` on the constants of `WalletSerial`, for btcd, and for full slices.
- `KeyChainProofs`. `KeyTyped` holds for calls that overlap. The others assume
  `OneAtATime`, which `net/rpc` does not guarantee, and are false without (section 3). They cover both chains, `Tracked`
  or not, while the run has the external one. The invariant ties the
  fields of the call to the index by its place in the code: until `SaveIdx` the
  indices in memory and database agree and are the key and the path; after it
  the database is one ahead, and the key is the one just below. Every address that
  was handed out lies below the stored index, and below the key of a call that
  has moved the index and not returned: so the next one is fresh, after a crash
  as well.
  `ChainKeepsOrder` maps each step to `Count` (`SaveIdx`), to `HandOver`
  (`ReturnAddress`) or to no change of `AddressIssuer`; the invariant gives that
  the address handed over is the one counted last.
- `PollingProofs`, for `PollSafety`: the start, the catch-up, the notifications and
  the poller together. `PollTyped` is the type. `SeedAlwaysShown` needs that the seed about to be stored is
  the one printed in the same start. `AheadOnlyByNotices` needs that the goroutines take
  turns: `Sync` is done with its loop before a notification can come, and hands over to the
  poller or to the subscription, not to both. So until then no other goroutine moves the
  counter between `GetBlockHash` and `setLastScannedBlock`; `LoadWallet` does, but
  only to a height below the node's, since `Depth` is positive. Goroutines of notifications
  read the counter while others are about to write it, and each of them counts on: what they
  count above the node's height or unrecorded is in `passed`, and every counter is the
  node's height at the most but for blocks of `passed` (`NotAhead`). `PollingLosesNone`
  adds what the poller holds at each of its steps. It assumes `InitHeight > 0`,
  since `newStart = 0` says that `LoadWallet` has not asked for the height only if
  the height is not 0.
  `NoticesAloneSkip`: once an address is out and the start height saved, the counter
  stays above zero, in the database before it does in the field, so that `LoadWallet`
  never takes the wallet for a new one (`CounterSet`). Every block from the first
  address up to a height that is a counter, or that a goroutine is about to make one,
  is recorded or in `passed` (`NothingLost`). That this is the most there is to say, with
  several entries, with btcd, on a short chain or after a start height that was not saved,
  is shown in section 3.
- `WalletLockProofs`. `RelockAlways`: whoever clears the flag has yet to start a
  goroutine, a goroutine that is there keeps a time of zero or more, and the step
  that ends it sets the flag. `LockTyped` is the type, for any number of callers and unlocks.

Only model-checked: every liveness property (`CatchesUp`, `ScansEnd`,
`SelectEnds`, `SendsEnd`, `LocksAgain`, `CatchUpEnds`, `PollerStops`), since
fairness and `ENABLED` are out of reach of the prover. All invariants and
action properties of the passing runs are theorems.

## 5. What is not modelled, and the plan

Not modelled because there is no behaviour to explore: cryptography and HD
derivation (pure functions; distinct indices give distinct keys), the command line
client, the parsing of flags, the accept loop of the RPC server, the methods of the
two clients that pass a call on. `validateSignedTransaction` and `EstimateFee` are
never called. Two processes on one database are not modelled: the second waits for
the file lock in `bolt.Open` and has no state until it gets it. A reorganisation of
the chain is not modelled because no code looks at one.

Next: `TxBuild`, outputs, fee and change of `createRawTransaction` and what
`extractTxInfo` makes of them, over bounded amounts, the negative change included.
