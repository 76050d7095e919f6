--------------------------- MODULE PollingProofs ---------------------------
(* The start of the wallet and the polling, for any heights, any depth of  *)
(* a new wallet, both nodes, and any numbers of ZeroMQ entries, starts and *)
(* failures.                                                               *)
EXTENDS Polling, TLAPS

\* A seed that is being stored, or is stored, has been printed.
SeedInv ==
  /\ main = "init" => starts \in shown
  /\ SeedWasShown

\* Where a goroutine holds a height it has computed from the counter.
Holding == {"scan", "save", "set"}

\* Two loops never scan at a time, nor a loop and a notification: Sync hands
\* over to the notifications or to the poller, never to both, and before its
\* start there is none.  It subscribes to the entries one by one.  The loops
\* scan whole blocks.
TakesTurns ==
  /\ main \in {"off", "setup"} \cup CreatePCs =>
       subscribed = {} /\ \A t \in Threads : thread[t].pc = "idle"
  /\ subscribed # {} =>
       thread[Poller].pc = "idle" /\ thread[Sync].pc \in {"idle", "subscribe"}
  /\ \A t \in Notices : thread[t].pc # "idle" => subscribed # {}
  /\ thread[Poller].pc # "idle" => thread[Sync].pc \in {"idle", "cancel"}
  /\ thread[Sync].pc \in {"idle", "count", "loop", "fetch"} => thread[Sync].local = 0
  /\ thread[Sync].pc = "subscribe" =>
       thread[Sync].local >= 0 /\ subscribed \subseteq 1 .. thread[Sync].local
  /\ \A t \in Loopers : thread[t].whole = TRUE

\* Up to n, the blocks that do not exist yet have been passed.
NotAhead(n) == height + 1 .. n \subseteq passed

\* Both counters, and every height on its way to them; the loops scan, and
\* what is recorded are, blocks of the node.
HeightsInv ==
  /\ NotAhead(memScanned) /\ NotAhead(dbScanned)
  /\ \A t \in Threads : thread[t].pc \in {"save", "set"} => NotAhead(thread[t].local)
  /\ main \in {"save", "set"} => newStart <= height
  /\ \A t \in Loopers : thread[t].pc = "scan" => memScanned < height
  /\ \A t \in Threads : thread[t].pc = "scan" => thread[t].block <= height
  /\ \A h \in recorded : h <= height

PollInv == PollTypeOK /\ SeedInv /\ TakesTurns /\ HeightsInv

\* What the poller holds, in a wallet that is not a new one: the block that
\* follows the counter, recorded before it is saved, saved before it counts.
PollerInv ==
  /\ height >= InitHeight
  /\ main \in {"save", "set"} => newStart >= InitHeight
  /\ newStart = 0 =>
       /\ thread[Poller].pc = "scan" => thread[Poller].block = memScanned + 1
       /\ thread[Poller].pc \in {"save", "set"} =>
            thread[Poller].local = memScanned + 1 /\ memScanned + 1 \in recorded
       /\ thread[Poller].pc = "set" => dbScanned = memScanned + 1

-----------------------------------------------------------------------------
(* The types. *)

\* Sync and the poller are not goroutines of notifications.
LEMMA ThreadIds ==
  /\ Sync \in Threads /\ Poller \in Threads /\ Sync # Poller
  /\ Sync \in Loopers /\ Poller \in Loopers
  /\ Threads = {Sync, Poller} \cup Notices
  /\ \A t \in Loopers : t = Sync \/ t = Poller
  /\ Sync \notin Notices /\ Poller \notin Notices
<1>1. Sync # Poller
  BY DEF Sync, Poller
<1>2. \A t \in Notices : t[2] \in 1 .. Entries
  BY DEF Notices
<1>3. Sync[2] = 0 /\ Poller[2] = 0
  BY DEF Sync, Poller
<1>4. Sync \notin Notices /\ Poller \notin Notices
  BY <1>2, <1>3, StartupAssumption
<1> QED
  BY <1>1, <1>4 DEF Threads, Loopers

\* The goroutines that a new block starts.
LEMMA NoticesTyped ==
  ASSUME StartTypeOK, Mine
  PROVE  /\ height + 1 \in Heights /\ height' = height + 1
         /\ \A t \in Threads :
              \/ thread'[t] = thread[t]
              \/ /\ t \in Notices /\ subscribed # {} /\ thread'[t] \in Goroutines
                 /\ thread'[t].pc = "scan" /\ thread'[t].block = height + 1
         /\ thread' \in [Threads -> Goroutines]
<1>1. height + 1 \in Heights /\ height' = height + 1
  BY StartupAssumption DEF Mine, StartTypeOK, Heights
<1> DEFINE New == [NoThread EXCEPT !.pc = "scan", !.block = height + 1,
                                   !.whole = (node = "core" \/ watched)]
<1>2. (node = "core" \/ watched) \in BOOLEAN
  BY DEF StartTypeOK
<1>3. New \in Goroutines /\ New.pc = "scan" /\ New.block = height + 1
  <2>1. "scan" \in ThreadPCs \cup PollPCs /\ 0 \in Heights /\ 0 \in Int
    BY StartupAssumption DEF ThreadPCs, Heights
  <2>2. PICK w \in BOOLEAN : w = (node = "core" \/ watched)
    BY <1>2
  <2>3. New = [NoThread EXCEPT !.pc = "scan", !.block = height + 1, !.whole = w]
    BY <2>2, Zenon
  <2> HIDE DEF New
  <2>4. New = [pc |-> "scan", target |-> 0, block |-> height + 1, whole |-> w, local |-> 0]
    BY <2>3 DEF NoThread
  <2> QED
    BY <1>1, <2>1, <2>2, <2>4 DEF Goroutines
<1> HIDE DEF New
<1>4. PICK told \in SUBSET subscribed :
        thread' = [t \in Threads |->
          IF t \in Notices /\ t[1] = height + 1 /\ t[2] \in told THEN New ELSE thread[t]]
  BY DEF Mine, New
<1>5. thread \in [Threads -> Goroutines]
  BY DEF StartTypeOK
<1> QED
  BY <1>1, <1>3, <1>4, <1>5

\* The steps that end the process, all of them with Exit.
LEMMA EndsWithExit ==
  ASSUME Decline \/ InitBucketsFails \/ SetupClientFails \/ LoadTxFilterFails
           \/ CountForNewFails \/ SyncPanics \/ Stop
  PROVE  Exit /\ (UNCHANGED faults \/ Fault)
  BY DEF Decline, InitBucketsFails, SetupClientFails, LoadTxFilterFails,
         CountForNewFails, SyncPanics, Stop

\* A failure is counted within its bound.
LEMMA FaultTyped ==
  ASSUME faults \in 0 .. MaxFaults, Fault \/ UNCHANGED faults
  PROVE  faults' \in 0 .. MaxFaults
  BY StartupAssumption DEF Fault

\* A goroutine at rest, and one that has moved on, are goroutines.
LEMMA GoroutineTyped ==
  /\ NoThread \in Goroutines
  /\ \A g \in Goroutines, pc \in ThreadPCs \cup PollPCs :
       [g EXCEPT !.pc = pc] \in Goroutines
  BY StartupAssumption DEF NoThread, Goroutines, ThreadPCs, Heights

\* Go only moves one goroutine on.
LEMMA GoTyped ==
  ASSUME thread \in [Threads -> Goroutines],
         NEW t \in Threads, NEW pc \in ThreadPCs \cup PollPCs, Go(t, pc)
  PROVE  thread' \in [Threads -> Goroutines]
  BY DEF Go, Goroutines

\* PollInit establishes the type of the state.
LEMMA PollInitTyped == PollInit => PollTypeOK
<1> SUFFICES ASSUME PollInit PROVE PollTypeOK
  OBVIOUS
<1> USE StartupAssumption DEF PollInit, StartInit
<1>1. /\ height \in Heights /\ newStart \in Heights
      /\ recorded \in SUBSET Heights /\ passed \in SUBSET Int
  BY DEF Heights
<1>2. thread \in [Threads -> Goroutines]
  BY GoroutineTyped
<1>3. starts \in 0 .. MaxStarts /\ faults \in 0 .. MaxFaults
  OBVIOUS
<1>4. dbScanned \in Int /\ memScanned \in Int /\ seed \in Nat
  OBVIOUS
<1> QED
  BY <1>1, <1>2, <1>3, <1>4 DEF PollTypeOK, StartTypeOK

\* The end of the process keeps the type.
LEMMA ExitTyped ==
  ASSUME StartTypeOK, Exit, Fault \/ UNCHANGED faults PROVE StartTypeOK'
<1>1. newStart' \in Heights
  BY StartupAssumption DEF Exit, Heights
<1>2. thread' \in [Threads -> Goroutines]
  BY GoroutineTyped DEF Exit
<1>3. faults' \in 0 .. MaxFaults
  BY FaultTyped DEF StartTypeOK
<1>4. dbScanned' \in Int /\ memScanned' \in Int
  BY DEF Exit, StartTypeOK
<1> QED
  BY <1>1, <1>2, <1>3, <1>4 DEF Exit, StartTypeOK, ghostVars

\* Every step of the main goroutine, of the node and of the user keeps the type.
LEMMA MainStepTyped ==
  ASSUME StartTypeOK, Creation \/ LoadWallet \/ Loading \/ Mine \/ HandOut \/ Stop
  PROVE  StartTypeOK'
<1> USE DEF StartTypeOK, fileVars, processVars, nodeVars, ghostVars
<1>1. CASE CreateWallet \/ LoadWallet
  <2>1. starts' \in 0 .. MaxStarts
    BY <1>1, StartupAssumption DEF CreateWallet, LoadWallet
  <2> QED
    BY <1>1, <2>1 DEF CreateWallet, LoadWallet, CreatePCs, LoadPCs
<1>2. CASE Confirm \/ ShowSeed \/ InitBuckets
  <2>1. seed' \in Nat /\ shown' \in SUBSET Nat
    <3>1. starts \in Nat
      BY StartupAssumption
    <3> QED
      BY <1>2, <3>1 DEF Confirm, ShowSeed, InitBuckets
  <2>2. dbScanned' \in Int
    BY <1>2 DEF Confirm, ShowSeed, InitBuckets
  <2> QED
    BY <1>2, <2>1, <2>2 DEF Confirm, ShowSeed, InitBuckets, CreatePCs
<1>3. CASE SetClient \/ LoadTxFilter \/ CheckNew \/ CountForNew
  BY <1>3 DEF SetClient, LoadTxFilter, CheckNew, CountForNew, LoadPCs
<1>4. CASE SetupClient
  <2>1. thread' \in [Threads -> Goroutines]
    BY <1>4, GoTyped, ThreadIds DEF SetupClient, ThreadPCs
  <2> QED
    BY <1>4, <2>1 DEF SetupClient, LoadPCs
<1>5. CASE SaveStart \/ SetStart
  <2>1. newStart - Depth \in Int
    BY StartupAssumption DEF Heights
  <2> QED
    BY <1>5, <2>1 DEF SaveStart, SetStart, LoadPCs
<1>6. CASE SaveStartFails
  BY <1>6, FaultTyped DEF SaveStartFails
<1>7. CASE Mine
  BY <1>7, NoticesTyped DEF Mine
<1>8. CASE HandOut
  BY <1>8 DEF HandOut
<1> QED
  BY <1>1, <1>2, <1>3, <1>4, <1>5, <1>6, <1>7, <1>8, EndsWithExit, ExitTyped
  DEF Creation, Loading

\* Every step of Sync keeps the type.
LEMMA SyncStepTyped == ASSUME StartTypeOK, TakesTurns, SyncStep PROVE StartTypeOK'
<1> USE DEF StartTypeOK, fileVars, processVars, nodeVars, ghostVars
<1>0. Sync \in Threads
  BY ThreadIds
<1>1. CASE SyncPanics
  BY <1>1, EndsWithExit, ExitTyped
<1>2. CASE SyncCounts
  <2>1. thread' \in [Threads -> Goroutines]
    BY <1>0, <1>2 DEF SyncCounts, Goroutines, ThreadPCs
  <2> QED
    BY <1>2, <2>1 DEF SyncCounts
<1>3. CASE SyncCountFails \/ SyncFetchFails
  <2>1. thread' \in [Threads -> Goroutines]
    BY <1>0, <1>3, GoTyped DEF SyncCountFails, SyncFetchFails, ThreadPCs
  <2>2. faults' \in 0 .. MaxFaults
    BY <1>3, FaultTyped DEF SyncCountFails, SyncFetchFails, NoHash
  <2> QED
    BY <1>3, <2>1, <2>2 DEF SyncCountFails, SyncFetchFails
<1>4. CASE Subscribe \/ SubscribeFails
  <2>1. thread' \in [Threads -> Goroutines]
    <3>1. Entry \in Int /\ NoThread \in Goroutines
      BY <1>0, GoroutineTyped DEF Entry, Goroutines
    <3>2. [thread[Sync] EXCEPT !.local = Entry] \in Goroutines
      BY <1>0, <3>1 DEF Goroutines
    <3> QED
      BY <1>4, <3>1, <3>2 DEF Subscribe, SubscribeFails, NextEntry
  <2>2. faults' \in 0 .. MaxFaults
    BY <1>4, FaultTyped DEF Subscribe, SubscribeFails
  <2>3. subscribed' \in SUBSET (1 .. Entries)
    <3>1. CASE Subscribe
      <4>0. LastEntry <= Entries /\ LastEntry \in Int /\ Entries \in Int
        BY StartupAssumption DEF LastEntry
      <4>1. thread[Sync].local \in Int /\ Entry \in Int /\ Entry <= Entries
        BY <1>0, <3>1, <4>0 DEF Subscribe, Entry, Goroutines
      <4>2. Entry \in 1 .. Entries
        <5>1. thread[Sync].local >= 0
          BY <3>1 DEF TakesTurns, Subscribe
        <5> QED
          BY <4>1, <5>1 DEF Entry
      <4> QED
        BY <3>1, <4>2 DEF Subscribe
    <3>2. CASE SubscribeFails
      BY <3>2 DEF SubscribeFails
    <3> QED
      BY <1>4, <3>1, <3>2
  <2> QED
    BY <1>4, <2>1, <2>2, <2>3 DEF Subscribe, SubscribeFails
<1> QED
  BY <1>1, <1>2, <1>3, <1>4 DEF SyncStep

\* Every step of a scan keeps the type, whoever scans.
LEMMA ScanStepTyped ==
  ASSUME StartTypeOK, NEW t \in Threads, ScanStep(t) PROVE StartTypeOK'
<1> USE DEF StartTypeOK, fileVars, processVars, nodeVars, ghostVars
<1>1. Return(t) => thread' \in [Threads -> Goroutines]
  <2>1. thread[t].target \in Heights
    BY DEF Goroutines
  <2>2. \A pc \in {"loop", "idle"} :
          [NoThread EXCEPT !.pc = pc, !.target = thread[t].target] \in Goroutines
    BY <2>1, GoroutineTyped DEF NoThread, Goroutines, ThreadPCs
  <2> QED
    BY <2>2 DEF Return
<1>2. CASE TestLoop(t)
  <2>1. thread' \in [Threads -> Goroutines]
    BY <1>2, GoTyped DEF TestLoop, AfterCatchUp, ThreadPCs, PollPCs
  <2> QED
    BY <1>2, <2>1 DEF TestLoop
<1>3. CASE FetchNext(t)
  <2>1. memScanned + 1 \in Heights
    BY <1>3, StartupAssumption DEF FetchNext, Heights
  <2>2. thread' \in [Threads -> Goroutines]
    BY <1>3, <2>1 DEF FetchNext, Goroutines, ThreadPCs
  <2> QED
    BY <1>3, <2>2 DEF FetchNext
<1>4. CASE ScanBlock(t) \/ ScanBlockTxsFails(t)
  <2>1. thread' \in [Threads -> Goroutines]
    <3>1. thread[t] \in Goroutines /\ memScanned + 1 \in Int
      OBVIOUS
    <3>2. [thread[t] EXCEPT !.pc = "save", !.local = memScanned + 1] \in Goroutines
      BY <3>1 DEF Goroutines, ThreadPCs
    <3> QED
      BY <1>4, <3>2 DEF ScanBlock, ScanBlockTxsFails, CountNext
  <2>2. thread[t].block \in Heights /\ memScanned + 1 \in Int
    BY DEF Goroutines
  <2>3. recorded' \in SUBSET Heights /\ passed' \in SUBSET Int
    BY <1>4, <2>2 DEF ScanBlock, ScanBlockTxsFails, CountNext
  <2>4. faults' \in 0 .. MaxFaults
    BY <1>4, FaultTyped DEF ScanBlock, ScanBlockTxsFails
  <2> QED
    BY <1>4, <2>1, <2>3, <2>4 DEF ScanBlock, ScanBlockTxsFails
<1>5. CASE ScanBlockFails(t) \/ SaveAdvanceFails(t)
  <2>1. thread[t].block \in Heights
    BY DEF Goroutines
  <2>2. faults' \in 0 .. MaxFaults
    BY <1>5, FaultTyped DEF ScanBlockFails, SaveAdvanceFails
  <2> QED
    BY <1>1, <1>5, <2>1, <2>2 DEF ScanBlockFails, SaveAdvanceFails
<1>6. CASE SaveAdvance(t)
  <2>1. thread' \in [Threads -> Goroutines]
    BY <1>6, GoTyped DEF SaveAdvance, ThreadPCs
  <2>2. thread[t].local \in Int
    BY DEF Goroutines
  <2> QED
    BY <1>6, <2>1, <2>2 DEF SaveAdvance
<1>7. CASE SetAdvance(t)
  <2>1. thread[t].local \in Int
    BY DEF Goroutines
  <2> QED
    BY <1>1, <1>7, <2>1 DEF SetAdvance
<1> QED
  BY <1>2, <1>3, <1>4, <1>5, <1>6, <1>7 DEF ScanStep

\* Every step of the polling keeps the type.
LEMMA PollingTyped ==
  ASSUME PollTypeOK, NoZeroMQ \/ Cancel \/ PollerStep PROVE PollTypeOK'
<1> USE DEF PollTypeOK, StartTypeOK, fileVars, processVars, nodeVars, ghostVars, pollVars
<1>0. /\ Sync \in Threads /\ Poller \in Threads
      /\ PollPCs \subseteq ThreadPCs \cup PollPCs
  BY ThreadIds
<1>1. CASE NoZeroMQ \/ Cancel
  <2>1. thread' \in [Threads -> Goroutines]
    <3>1. /\ [NoThread EXCEPT !.pc = "cancel"] \in Goroutines
          /\ [thread[Poller] EXCEPT !.pc = "select"] \in Goroutines
      BY <1>0, GoroutineTyped DEF PollPCs
    <3>2. NoThread \in Goroutines
      BY GoroutineTyped
    <3>3. CASE NoZeroMQ
      BY <1>0, <3>1, <3>3, ThreadIds DEF NoZeroMQ
    <3>4. CASE Cancel
      BY <3>2, <3>4 DEF Cancel
    <3> QED
      BY <1>1, <3>3, <3>4
  <2> QED
    BY <1>1, <2>1 DEF NoZeroMQ, Cancel
<1>2. CASE SelectDone \/ SelectTick
  <2>1. thread' \in [Threads -> Goroutines]
    BY <1>0, <1>2, GoTyped DEF SelectDone, SelectTick, Poll, ThreadPCs, PollPCs
  <2> QED
    BY <1>2, <2>1 DEF SelectDone, SelectTick
<1>3. CASE PollCounts
  <2>1. thread' \in [Threads -> Goroutines]
    BY <1>0, <1>3 DEF PollCounts, Goroutines, ThreadPCs
  <2> QED
    BY <1>3, <2>1 DEF PollCounts
<1>4. CASE PollCountFails \/ PollFetchFails
  <2>1. thread' \in [Threads -> Goroutines]
    BY <1>0, <1>4, GoTyped DEF PollCountFails, PollFetchFails, Poll, ThreadPCs, PollPCs
  <2>2. faults' \in 0 .. MaxFaults
    BY <1>4, FaultTyped DEF PollCountFails, PollFetchFails, NoHash
  <2> QED
    BY <1>4, <2>1, <2>2 DEF PollCountFails, PollFetchFails
<1>5. CASE SendNil \/ SendCount \/ SendHash
  <2>1. thread' \in [Threads -> Goroutines]
    <3>1. [thread[Poller] EXCEPT !.pc = "loop"] \in Goroutines
      BY <1>0 DEF Goroutines, ThreadPCs
    <3> QED
      BY <1>5, <3>1, GoroutineTyped DEF SendNil, SendCount, SendHash, Send
  <2> QED
    BY <1>5, <2>1 DEF SendNil, SendCount, SendHash, Send
<1> QED
  BY <1>1, <1>2, <1>3, <1>4, <1>5 DEF PollerStep

\* Every step keeps the type.
LEMMA PollStepTyped ==
  PollTypeOK /\ TakesTurns /\ [PollNext]_allPollVars => PollTypeOK'
<1> SUFFICES ASSUME PollTypeOK, TakesTurns, [PollNext]_allPollVars PROVE PollTypeOK'
  OBVIOUS
<1>1. ASSUME PollingGoesOn, StartTypeOK' PROVE PollTypeOK'
  BY <1>1 DEF PollingGoesOn, NoPolling, PollTypeOK, pollVars
<1>2. CASE StartNext /\ PollingGoesOn
  BY <1>1, <1>2, MainStepTyped, SyncStepTyped, ScanStepTyped
  DEF StartNext, PollTypeOK
<1>3. CASE ScanStep(Poller) /\ PollingGoesOn
  BY <1>1, <1>3, ScanStepTyped, ThreadIds DEF PollTypeOK
<1>4. CASE UNCHANGED allPollVars
  BY <1>4
  DEF PollTypeOK, StartTypeOK, allPollVars, startVars, fileVars, processVars,
      ghostVars, pollVars
<1> QED
  BY <1>2, <1>3, <1>4, PollingTyped DEF PollNext

-----------------------------------------------------------------------------
(* What the steps leave alone. *)

\* The scanning goroutines leave the node, the stored seed, the main goroutine
\* and the user alone, unless they end the process.
LEMMA GoroutineFrame ==
  ASSUME SyncStep \/ (\E t \in Threads : ScanStep(t)) \/ NoZeroMQ \/ Cancel \/ PollerStep,
         ~Exit
  PROVE  UNCHANGED <<height, seed, shown, main, newStart, client, starts, birth, badStart>>
<1> USE DEF fileVars, processVars, nodeVars, ghostVars
<1>1. CASE SyncStep
  BY <1>1 DEF SyncStep, SyncPanics, SyncCounts, SyncCountFails, SyncFetchFails,
              Subscribe, SubscribeFails
<1>2. ASSUME NEW t \in Threads, ScanStep(t)
      PROVE  UNCHANGED <<height, seed, shown, main, newStart, client, starts, birth,
                         badStart>>
  BY <1>2 DEF ScanStep, TestLoop, FetchNext, ScanBlock, ScanBlockTxsFails,
              ScanBlockFails, SaveAdvance, SaveAdvanceFails, SetAdvance
<1>3. CASE NoZeroMQ \/ Cancel
  BY <1>3 DEF NoZeroMQ, Cancel
<1>4. CASE PollerStep
  BY <1>4 DEF PollerStep, SelectDone, SelectTick, PollCounts, PollCountFails,
              PollFetchFails, SendNil, SendCount, SendHash, Send
<1> QED
  BY <1>1, <1>2, <1>3, <1>4

\* The main goroutine, with its setup behind it, and the user leave the
\* scanning goroutines and the subscription alone.
LEMMA MainFrame ==
  ASSUME Creation \/ LoadWallet \/ Loading \/ HandOut \/ Stop, ~Exit, ~SetupClient
  PROVE  UNCHANGED <<height, thread, subscribed>>
  BY EndsWithExit
  DEF Creation, CreateWallet, Confirm, ShowSeed, InitBuckets, LoadWallet, Loading,
      SetClient, LoadTxFilter, CheckNew, CountForNew, SaveStart, SaveStartFails,
      SetStart, HandOut, nodeVars

\* A step of a scan moves one goroutine, and leaves the subscription alone.
LEMMA ScanFrame ==
  ASSUME StartTypeOK, NEW t \in Threads, ScanStep(t)
  PROVE  /\ subscribed' = subscribed
         /\ thread[t].pc \notin {"idle", "cancel"}
         /\ \A u \in Threads \ {t} : thread'[u] = thread[u]
  BY
  DEF StartTypeOK, ScanStep, TestLoop, FetchNext, ScanBlock, ScanBlockTxsFails,
      ScanBlockFails, SaveAdvance, SaveAdvanceFails, SetAdvance, CountNext, Return, Go,
      nodeVars

\* So does a step of the poller.
LEMMA PollerFrame ==
  ASSUME StartTypeOK, PollerStep
  PROVE  /\ UNCHANGED <<subscribed, memScanned, dbScanned, recorded>>
         /\ thread[Poller].pc # "idle"
         /\ thread'[Poller].pc \notin Holding
         /\ \A u \in Threads \ {Poller} : thread'[u] = thread[u]
  BY ThreadIds
  DEF StartTypeOK, PollerStep, SelectDone, SelectTick, PollCounts, PollCountFails,
         PollFetchFails, NoHash, SendNil, SendCount, SendHash, Send, Poll, Go,
         Holding, Goroutines, NoThread, fileVars, nodeVars, ThreadPCs

-----------------------------------------------------------------------------
(* The seed. *)

\* Every step keeps the stored seed, and the one being stored, printed.
LEMMA SeedStep == SeedInv /\ [PollNext]_allPollVars => SeedInv'
<1> SUFFICES ASSUME SeedInv, [PollNext]_allPollVars PROVE SeedInv'
  OBVIOUS
<1> USE DEF SeedInv, SeedWasShown, fileVars
<1>1. CASE Exit
  BY <1>1 DEF Exit
<1>2. CASE CreateWallet \/ Confirm \/ ShowSeed \/ InitBuckets
  BY <1>2 DEF CreateWallet, Confirm, ShowSeed, InitBuckets
<1>3. CASE LoadWallet \/ SetupClient \/ SetClient \/ LoadTxFilter \/ CheckNew
  BY <1>3 DEF LoadWallet, SetupClient, SetClient, LoadTxFilter, CheckNew
<1>4. CASE CountForNew \/ SaveStart \/ SaveStartFails \/ SetStart
  BY <1>4 DEF CountForNew, SaveStart, SaveStartFails, SetStart
<1>5. CASE Mine \/ HandOut
  BY <1>5 DEF Mine, HandOut
<1>6. CASE UNCHANGED allPollVars
  BY <1>6 DEF allPollVars, startVars
<1>7. ASSUME ~Exit,
             \/ SyncStep \/ (\E t \in Threads : ScanStep(t))
             \/ NoZeroMQ \/ Cancel \/ PollerStep
      PROVE  SeedInv'
  BY <1>7, GoroutineFrame
<1> QED
  BY <1>1, <1>2, <1>3, <1>4, <1>5, <1>6, <1>7, EndsWithExit, ThreadIds
  DEF PollNext, StartNext, Creation, Loading

-----------------------------------------------------------------------------
(* The goroutines take turns. *)

\* A step of a loop, of Sync or of the poller.
LEMMA LoopStep ==
  ASSUME StartTypeOK, TakesTurns, NEW t \in Loopers, ScanStep(t)
  PROVE  /\ thread[t].pc \in {"loop", "fetch", "scan", "save", "set"}
         /\ thread'[t].whole = TRUE
         /\ thread'[t].pc \notin {"idle", "count"}
         /\ t = Sync /\ thread'[t].pc \in {"loop", "fetch", "subscribe"} =>
              thread'[t].local = 0
<1>0. thread \in [Threads -> Goroutines] /\ t \in Threads /\ thread[t].whole = TRUE
  BY ThreadIds DEF StartTypeOK, TakesTurns
<1>1. CASE TestLoop(t) \/ FetchNext(t)
  <2>1. /\ thread[t].pc \in {"loop", "fetch"}
        /\ thread'[t].pc \in {"fetch", "scan", "subscribe", "select"}
        /\ thread'[t].whole = thread[t].whole /\ thread'[t].local = thread[t].local
    BY <1>0, <1>1 DEF TestLoop, FetchNext, Go, AfterCatchUp, Goroutines
  <2> QED
    BY <1>0, <2>1 DEF TakesTurns
<1>2. CASE ScanBlock(t) \/ ScanBlockTxsFails(t) \/ SaveAdvance(t)
  BY <1>0, <1>2
  DEF ScanBlock, ScanBlockTxsFails, SaveAdvance, CountNext, Go, Goroutines
<1>3. CASE ScanBlockFails(t) \/ SaveAdvanceFails(t) \/ SetAdvance(t)
  BY <1>0, <1>3 DEF ScanBlockFails, SaveAdvanceFails, SetAdvance, Return, NoThread
<1> QED
  BY <1>1, <1>2, <1>3 DEF ScanStep

\* Every step keeps the order in which the goroutines take their turns.
LEMMA TurnsStep ==
  PollTypeOK /\ TakesTurns /\ [PollNext]_allPollVars => TakesTurns'
<1> SUFFICES ASSUME PollTypeOK, TakesTurns, [PollNext]_allPollVars PROVE TakesTurns'
  OBVIOUS
<1>0. StartTypeOK
  BY DEF PollTypeOK
<1>1. CASE Exit
  BY <1>1, ThreadIds DEF Exit, TakesTurns, NoThread
<1>2. CASE SetupClient
  <2>1. subscribed = {} /\ \A t \in Threads : thread[t].pc = "idle"
    BY <1>2 DEF SetupClient, TakesTurns
  <2>2. UNCHANGED subscribed /\ main' = "client"
    BY <1>2 DEF SetupClient, nodeVars
  <2>3. /\ \A t \in Threads \ {Sync} : thread'[t] = thread[t]
        /\ thread'[Sync].pc = "count" /\ thread'[Sync].whole = thread[Sync].whole
        /\ thread'[Sync].local = thread[Sync].local
    BY <1>0, <1>2, ThreadIds DEF SetupClient, Go, StartTypeOK, Goroutines
  <2>4. thread[Sync].local = 0
    BY <2>1, ThreadIds DEF TakesTurns
  <2> QED
    BY <2>1, <2>2, <2>3, <2>4, ThreadIds DEF TakesTurns, CreatePCs
<1>3. ASSUME Creation \/ LoadWallet \/ Loading \/ HandOut, ~Exit, ~SetupClient
      PROVE  TakesTurns'
  <2>1. UNCHANGED <<thread, subscribed>>
    BY <1>3, MainFrame
  <2>2. main' \in {"off", "setup"} \cup CreatePCs =>
           main \in {"off", "setup"} \cup CreatePCs
    BY <1>3, EndsWithExit
    DEF Creation, CreateWallet, Confirm, ShowSeed, InitBuckets, LoadWallet, Loading,
        SetClient, LoadTxFilter, CheckNew, CountForNew, SaveStart, SaveStartFails,
        SetStart, HandOut, CreatePCs
  <2> QED
    BY <2>1, <2>2 DEF TakesTurns
<1>4. CASE Mine
  <2>1. UNCHANGED <<main, subscribed>>
    BY <1>4 DEF Mine, nodeVars
  <2> QED
    BY <1>0, <1>4, <2>1, NoticesTyped, ThreadIds DEF TakesTurns
<1>5. ASSUME SyncStep, ~Exit PROVE TakesTurns'
  <2>1. main' = main
    BY <1>5, GoroutineFrame
  <2>2. /\ thread[Sync].pc # "idle" /\ thread[Poller].pc = "idle"
        /\ main \notin {"off", "setup"} \cup CreatePCs
    BY <1>5, EndsWithExit, ThreadIds
    DEF SyncStep, SyncCounts, SyncCountFails, SyncFetchFails, Subscribe, SubscribeFails,
        NoHash, TakesTurns
  <2>3. CASE SyncCounts \/ SyncCountFails \/ SyncFetchFails
    <3>1. /\ thread'[Sync].pc \in {"loop", "subscribe"} /\ thread[Sync].pc \in {"count", "fetch"}
          /\ thread'[Sync].local = thread[Sync].local
          /\ thread'[Sync].whole = thread[Sync].whole
          /\ \A t \in Threads \ {Sync} : thread'[t] = thread[t]
      BY <1>0, <2>3, ThreadIds
      DEF SyncCounts, SyncCountFails, SyncFetchFails, NoHash, Go, StartTypeOK, Goroutines
    <3>2. subscribed' = subscribed /\ subscribed = {} /\ thread[Sync].local = 0
      BY <2>3, <3>1
      DEF SyncCounts, SyncCountFails, SyncFetchFails, TakesTurns, nodeVars
    <3> QED
      BY <2>1, <2>2, <3>1, <3>2, ThreadIds DEF TakesTurns
  <2>4. CASE Subscribe \/ SubscribeFails
    <3>1. /\ thread[Sync].pc = "subscribe" /\ thread[Sync].local \in Int
          /\ thread[Sync].local >= 0 /\ subscribed \subseteq 1 .. thread[Sync].local
          /\ thread[Sync].whole = TRUE
      BY <1>0, <2>4, ThreadIds
      DEF Subscribe, SubscribeFails, StartTypeOK, Goroutines, TakesTurns
    <3>2. subscribed \subseteq subscribed' /\ subscribed' \subseteq 1 .. thread[Sync].local + 1
      BY <2>4, <3>1 DEF Subscribe, SubscribeFails, Entry, nodeVars
    <3>3. \A t \in Threads \ {Sync} : thread'[t] = thread[t]
      BY <1>0, <2>4 DEF Subscribe, SubscribeFails, NextEntry, StartTypeOK
    <3>4. \/ thread'[Sync] = NoThread
          \/ /\ thread'[Sync].pc = "subscribe"
             /\ thread'[Sync].local = thread[Sync].local + 1 /\ thread'[Sync].whole = TRUE
      BY <1>0, <2>4, <3>1, ThreadIds
      DEF Subscribe, SubscribeFails, NextEntry, Entry, StartTypeOK, Goroutines
    <3>5. /\ NoThread.pc = "idle" /\ NoThread.whole = TRUE /\ NoThread.local = 0
      BY DEF NoThread
    <3>6. \A t \in Notices : thread'[t].pc # "idle" => subscribed' # {}
      BY <3>2, <3>3, ThreadIds DEF TakesTurns
    <3>7. \A t \in Loopers : thread'[t].whole = TRUE
      BY <3>3, <3>4, <3>5, ThreadIds DEF TakesTurns
    <3> QED
      BY <2>1, <2>2, <3>1, <3>2, <3>3, <3>4, <3>5, <3>6, <3>7, ThreadIds DEF TakesTurns
  <2> QED
    BY <1>5, <2>3, <2>4, EndsWithExit DEF SyncStep
<1>6. ASSUME NEW t \in Threads, ScanStep(t), ~Exit PROVE TakesTurns'
  <2>1. main' = main
    BY <1>6, GoroutineFrame
  <2>2. /\ subscribed' = subscribed /\ thread[t].pc \notin {"idle", "cancel"}
        /\ \A u \in Threads \ {t} : thread'[u] = thread[u]
    BY <1>0, <1>6, ScanFrame
  <2>3. CASE t \in Notices
    BY <2>1, <2>2, <2>3, ThreadIds DEF TakesTurns
  <2>4. CASE t \in Loopers
    <3>1. /\ thread[t].pc \in {"loop", "fetch", "scan", "save", "set"}
          /\ thread'[t].whole = TRUE
          /\ thread'[t].pc \notin {"idle", "count"}
          /\ t = Sync /\ thread'[t].pc \in {"loop", "fetch", "subscribe"} =>
               thread'[t].local = 0
      BY <1>0, <1>6, <2>4, LoopStep
    <3>2. thread[t].pc \notin {"idle", "subscribe", "cancel"}
      BY <3>1
    <3>3. subscribed = {}
      BY <2>4, <3>2, ThreadIds DEF TakesTurns
    <3>4. CASE t = Sync
      BY <2>1, <2>2, <3>1, <3>2, <3>3, <3>4, ThreadIds DEF TakesTurns
    <3>5. CASE t = Poller
      BY <2>1, <2>2, <3>1, <3>2, <3>3, <3>5, ThreadIds DEF TakesTurns
    <3> QED
      BY <2>4, <3>4, <3>5, ThreadIds
  <2> QED
    BY <2>3, <2>4, ThreadIds
<1>7. ASSUME NoZeroMQ \/ Cancel, ~Exit PROVE TakesTurns'
  <2>1. UNCHANGED <<main, subscribed>>
    BY <1>7 DEF NoZeroMQ, Cancel, nodeVars
  <2>2. \A t \in Notices : thread'[t] = thread[t]
    BY <1>0, <1>7, ThreadIds DEF NoZeroMQ, Cancel, StartTypeOK
  <2>3. CASE NoZeroMQ
    <3>1. subscribed = {} /\ main \notin {"off", "setup"} \cup CreatePCs
      BY <2>3, ThreadIds DEF NoZeroMQ, TakesTurns
    <3>2. /\ thread'[Sync].pc = "cancel" /\ thread'[Poller].pc = "select"
          /\ thread'[Sync].whole = TRUE /\ thread'[Poller].whole = thread[Poller].whole
      BY <1>0, <2>3, ThreadIds DEF NoZeroMQ, StartTypeOK, Goroutines, NoThread
    <3> QED
      BY <2>1, <2>2, <3>1, <3>2, ThreadIds DEF TakesTurns
  <2>4. CASE Cancel
    <3>1. subscribed = {} /\ main \notin {"off", "setup"} \cup CreatePCs
      BY <2>4, ThreadIds DEF Cancel, TakesTurns
    <3>2. /\ thread'[Sync].pc = "idle" /\ thread'[Sync].whole = TRUE
          /\ thread'[Sync].local = 0 /\ thread'[Poller] = thread[Poller]
      BY <1>0, <2>4, ThreadIds DEF Cancel, StartTypeOK, NoThread
    <3> QED
      BY <2>1, <2>2, <3>1, <3>2, ThreadIds DEF TakesTurns
  <2> QED
    BY <1>7, <2>3, <2>4
<1>8. ASSUME PollerStep, ~Exit PROVE TakesTurns'
  <2>1. main' = main
    BY <1>8, GoroutineFrame
  <2>2. thread'[Poller].whole = TRUE
    BY <1>0, <1>8, ThreadIds
    DEF PollerStep, SelectDone, SelectTick, PollCounts, PollCountFails, PollFetchFails,
        SendNil, SendCount, SendHash, Send, Poll, Go, StartTypeOK, Goroutines, NoThread,
        TakesTurns
  <2> QED
    BY <1>0, <1>8, <2>1, <2>2, PollerFrame, ThreadIds DEF TakesTurns
<1>9. CASE UNCHANGED allPollVars
  BY <1>9 DEF allPollVars, startVars, TakesTurns
<1> QED
  BY <1>1, <1>2, <1>3, <1>4, <1>5, <1>6, <1>7, <1>8, <1>9, EndsWithExit, ThreadIds
  DEF PollNext, StartNext

-----------------------------------------------------------------------------
(* The scan counter. *)

\* While a loop scans, no other goroutine holds a height.
LEMMA OneHolds ==
  ASSUME TakesTurns, NEW t \in Loopers, NEW u \in Threads,
         thread[t].pc \in Holding, thread[u].pc \in Holding
  PROVE  t = u
<1>1. thread[t].pc \notin {"idle", "subscribe", "cancel"} /\ thread[u].pc \notin {"idle", "cancel"}
  BY DEF Holding
<1>2. subscribed = {}
  BY <1>1, ThreadIds DEF TakesTurns
<1>3. u \notin Notices
  BY <1>1, <1>2 DEF TakesTurns
<1> QED
  BY <1>1, <1>3, ThreadIds DEF TakesTurns

\* The steps of Sync and of the poller that are not those of a scan: no
\* counter moves, and no goroutine comes to hold a height.
LEMMA HandlersFrame ==
  ASSUME StartTypeOK, SyncStep \/ NoZeroMQ \/ Cancel \/ PollerStep, ~Exit
  PROVE  /\ UNCHANGED <<height, main, newStart, memScanned, dbScanned, recorded,
                        birth, passed, badStart>>
         /\ \A t \in Threads : thread'[t].pc \in Holding => thread'[t] = thread[t]
<1>1. UNCHANGED <<height, main, newStart, memScanned, dbScanned, recorded,
                  birth, passed, badStart>>
  <2>1. CASE PollerStep
    BY <2>1, PollerFrame, GoroutineFrame
    DEF PollerStep, SelectDone, SelectTick, PollCounts, PollCountFails,
        PollFetchFails, SendNil, SendCount, SendHash, Send, ghostVars
  <2>2. CASE SyncStep \/ NoZeroMQ \/ Cancel
    BY <2>2, GoroutineFrame, EndsWithExit
    DEF SyncStep, SyncCounts, SyncCountFails, SyncFetchFails, Subscribe, SubscribeFails,
        NoZeroMQ, Cancel, fileVars, ghostVars
  <2> QED
    BY <2>1, <2>2
<1>2. \A t \in Threads : thread'[t].pc \in Holding => thread'[t] = thread[t]
  <2>1. CASE PollerStep
    BY <2>1, PollerFrame
  <2>2. CASE NoZeroMQ
    BY <2>2, ThreadIds DEF NoZeroMQ, StartTypeOK, NoThread, Holding
  <2>3. CASE Cancel \/ Subscribe \/ SubscribeFails
    <3>1. CASE thread' = [thread EXCEPT ![Sync] = NoThread]
      BY <3>1 DEF StartTypeOK, NoThread, Holding
    <3>2. CASE thread' = [thread EXCEPT ![Sync].local = Entry] /\ thread[Sync].pc = "subscribe"
      BY <3>2 DEF StartTypeOK, Goroutines, Holding
    <3> QED
      BY <2>3, <3>1, <3>2 DEF Cancel, Subscribe, SubscribeFails, NextEntry
  <2>4. CASE SyncCounts
    BY <2>4 DEF SyncCounts, StartTypeOK, Holding
  <2>5. CASE SyncCountFails \/ SyncFetchFails
    <3>1. \E pc \in {"subscribe", "loop"} : Go(Sync, pc)
      BY <2>5 DEF SyncCountFails, SyncFetchFails
    <3> QED
      BY <3>1 DEF Go, StartTypeOK, Holding
  <2> QED
    BY <2>1, <2>2, <2>3, <2>4, <2>5, EndsWithExit DEF SyncStep
<1> QED
  BY <1>1, <1>2

\* A block that is counted at the end of a scan exists, or has been passed.
LEMMA CountedNotAhead ==
  ASSUME StartTypeOK, TakesTurns, HeightsInv, NEW t \in Threads,
         ScanBlock(t) \/ ScanBlockTxsFails(t)
  PROVE  /\ thread[t].pc = "scan" /\ thread'[t].pc = "save"
         /\ thread'[t].local = memScanned + 1
         /\ UNCHANGED <<memScanned, dbScanned>> /\ passed \subseteq passed'
         /\ recorded \subseteq recorded' /\ \A h \in recorded' : h <= height
         /\ t \in Loopers => memScanned < height /\ thread[t].block \in recorded'
         /\ t \notin Loopers => memScanned + 1 \in recorded' \cup passed'
         /\ height + 1 .. memScanned + 1 \subseteq passed'
<1>0. height \in Nat /\ memScanned \in Int /\ thread[t] \in Goroutines
  BY StartupAssumption DEF StartTypeOK, Heights
<1>1. /\ thread[t].pc = "scan" /\ thread'[t].pc = "save"
      /\ thread'[t].local = memScanned + 1
  BY <1>0 DEF ScanBlock, ScanBlockTxsFails, CountNext, StartTypeOK, Goroutines
<1>2. UNCHANGED <<memScanned, dbScanned>>
  BY DEF ScanBlock, ScanBlockTxsFails, fileVars
<1>3. passed \subseteq passed' /\ recorded \subseteq recorded'
  BY DEF ScanBlock, ScanBlockTxsFails, CountNext
<1>4. \A h \in recorded' : h <= height
  <2>1. thread[t].block <= height
    BY <1>1 DEF HeightsInv
  <2>2. recorded' \subseteq recorded \cup {thread[t].block}
    BY DEF ScanBlock, ScanBlockTxsFails
  <2> QED
    BY <2>1, <2>2 DEF HeightsInv
<1>5. ASSUME t \in Loopers PROVE memScanned < height /\ thread[t].block \in recorded'
  <2>1. memScanned < height /\ thread[t].whole = TRUE
    BY <1>1, <1>5 DEF HeightsInv, TakesTurns
  <2>2. ~ScanBlockTxsFails(t)
    BY <1>5, ThreadIds DEF ScanBlockTxsFails, ScansTxs
  <2> QED
    BY <2>1, <2>2 DEF ScanBlock
<1>6. ASSUME t \notin Loopers PROVE memScanned + 1 \in recorded' \cup passed'
  <2>1. t \in Notices
    BY <1>6, ThreadIds
  <2>2. passed' = passed \cup ({memScanned + 1} \ recorded')
    BY <2>1 DEF ScanBlock, ScanBlockTxsFails, CountNext
  <2> QED
    BY <2>2
<1>7. height + 1 .. memScanned + 1 \subseteq passed'
  <2> SUFFICES ASSUME NEW h \in height + 1 .. memScanned + 1 PROVE h \in passed'
    OBVIOUS
  <2>1. CASE h = memScanned + 1
    <3>1. t \notin Loopers
      BY <1>0, <1>5, <2>1
    <3>2. memScanned + 1 \notin recorded'
      BY <1>0, <1>4, <2>1
    <3> QED
      BY <1>6, <2>1, <3>1, <3>2
  <2>2. CASE h # memScanned + 1
    <3>1. h \in height + 1 .. memScanned
      BY <1>0, <2>2
    <3> QED
      BY <1>3, <3>1 DEF HeightsInv, NotAhead
  <2> QED
    BY <2>1, <2>2
<1> QED
  BY <1>1, <1>2, <1>3, <1>4, <1>5, <1>6, <1>7

\* Every step keeps the counters, and what is to become one, from running
\* ahead of the node without a notification.
LEMMA HeightsStep ==
  PollTypeOK /\ TakesTurns /\ HeightsInv /\ [PollNext]_allPollVars => HeightsInv'
<1> SUFFICES ASSUME PollTypeOK, TakesTurns, HeightsInv, [PollNext]_allPollVars
             PROVE  HeightsInv'
  OBVIOUS
<1>0. /\ StartTypeOK
      /\ height \in Nat /\ newStart \in Nat /\ memScanned \in Int /\ dbScanned \in Int
      /\ \A t \in Threads : thread[t].local \in Int /\ thread[t].block \in Int
      /\ \A h \in recorded : h \in Int
  BY StartupAssumption DEF PollTypeOK, StartTypeOK, Heights, Goroutines
<1>n. \A n \in Int : n <= height => NotAhead(n)
  BY <1>0 DEF NotAhead
<1> USE DEF nodeVars, ghostVars
<1>1. CASE Exit
  <2>1. /\ UNCHANGED <<height, passed, recorded, dbScanned>>
        /\ memScanned' = 0 /\ main' = "off" /\ \A t \in Threads : thread'[t].pc = "idle"
    BY <1>1 DEF Exit, NoThread
  <2>2. height + 1 .. 0 \subseteq passed
    BY <1>0
  <2> QED
    BY <2>1, <2>2, ThreadIds DEF HeightsInv, NotAhead
<1>2. ASSUME Creation \/ LoadWallet \/ Loading \/ HandOut, ~Exit, ~SetupClient
      PROVE  HeightsInv'
  <2>1. UNCHANGED <<height, thread>>
    BY <1>2, MainFrame
  <2>2. main' \in {"save", "set"} => newStart' <= height
    BY <1>0, <1>2, EndsWithExit
    DEF Creation, CreateWallet, Confirm, ShowSeed, InitBuckets, LoadWallet, Loading,
        SetClient, LoadTxFilter, CheckNew, CountForNew, SaveStart, SaveStartFails,
        SetStart, HandOut, HeightsInv, processVars
  <2>3. dbScanned' \in Int /\ (dbScanned' = dbScanned \/ dbScanned' <= height)
    BY <1>0, <1>2, EndsWithExit, StartupAssumption
    DEF Creation, CreateWallet, Confirm, ShowSeed, InitBuckets, LoadWallet, Loading,
        SetClient, LoadTxFilter, CheckNew, CountForNew, SaveStart, SaveStartFails,
        SetStart, HandOut, HeightsInv, fileVars
  <2>4. UNCHANGED <<passed, recorded>>
    BY <1>2, EndsWithExit
    DEF Creation, CreateWallet, Confirm, ShowSeed, InitBuckets, LoadWallet, Loading,
        SetClient, LoadTxFilter, CheckNew, CountForNew, SaveStart, SaveStartFails,
        SetStart, HandOut
  <2>5. NotAhead(dbScanned')
    BY <1>n, <2>3 DEF HeightsInv
  <2>6. CASE LoadWallet
    <3>1. \A t \in Threads : thread[t].pc = "idle"
      BY <2>6 DEF LoadWallet, TakesTurns
    <3>2. memScanned' = dbScanned
      BY <2>6 DEF LoadWallet
    <3> QED
      BY <2>1, <2>2, <2>4, <2>5, <3>1, <3>2, ThreadIds DEF HeightsInv, NotAhead
  <2>7. CASE SetStart
    <3>1. memScanned' \in Int /\ memScanned' < height /\ memScanned' <= height
      BY <1>0, <2>7, StartupAssumption DEF SetStart, HeightsInv
    <3>2. NotAhead(memScanned')
      BY <1>n, <3>1
    <3> QED
      BY <1>0, <2>1, <2>2, <2>4, <2>5, <3>1, <3>2 DEF HeightsInv, NotAhead
  <2>8. ASSUME ~LoadWallet, ~SetStart PROVE memScanned' = memScanned
    BY <1>2, <2>8, EndsWithExit
    DEF Creation, CreateWallet, Confirm, ShowSeed, InitBuckets, LoadWallet, Loading,
        SetClient, LoadTxFilter, CheckNew, CountForNew, SaveStart, SaveStartFails,
        SetStart, HandOut
  <2> QED
    BY <2>1, <2>2, <2>4, <2>5, <2>6, <2>7, <2>8 DEF HeightsInv, NotAhead
<1>3. CASE SetupClient
  <2>1. UNCHANGED <<height, passed, recorded, dbScanned, memScanned, newStart>>
    BY <1>3 DEF SetupClient, fileVars, processVars
  <2>2. main' = "client" /\ \A t \in Threads : thread[t].pc = "idle"
    BY <1>3 DEF SetupClient, TakesTurns
  <2>3. \A t \in Threads : thread'[t].pc \in {"idle", "count"}
    BY <1>0, <1>3, <2>2 DEF SetupClient, Go, StartTypeOK, Goroutines
  <2> QED
    BY <2>1, <2>2, <2>3, ThreadIds DEF HeightsInv, NotAhead
<1>4. CASE Mine
  <2>1. /\ height' = height + 1
        /\ UNCHANGED <<dbScanned, memScanned, main, newStart, passed, recorded>>
    BY <1>4 DEF Mine, fileVars, processVars
  <2>2. \A t \in Threads :
          \/ thread'[t] = thread[t]
          \/ t \in Notices /\ thread'[t].pc = "scan" /\ thread'[t].block = height + 1
    BY <1>0, <1>4, NoticesTyped
  <2>3. \A n \in Int : NotAhead(n) => height' + 1 .. n \subseteq passed'
    <3>1. \A n \in Int : height' + 1 .. n \subseteq height + 1 .. n
      BY <1>0, <2>1
    <3> QED
      BY <2>1, <3>1 DEF NotAhead
  <2>4. height' + 1 .. memScanned' \subseteq passed' /\ height' + 1 .. dbScanned' \subseteq passed'
    BY <1>0, <2>1, <2>3 DEF HeightsInv
  <2>5. \A t \in Threads : thread'[t].pc \in {"save", "set"} =>
           height' + 1 .. thread'[t].local \subseteq passed'
    BY <1>0, <2>2, <2>3 DEF HeightsInv
  <2>6. \A t \in Loopers : thread'[t].pc = "scan" => memScanned' < height'
    BY <1>0, <2>1, <2>2, ThreadIds DEF HeightsInv
  <2>7. \A t \in Threads : thread'[t].pc = "scan" => thread'[t].block <= height'
    BY <1>0, <2>1, <2>2 DEF HeightsInv
  <2>8. \A h \in recorded' : h <= height'
    BY <1>0, <2>1 DEF HeightsInv
  <2>9. main' \in {"save", "set"} => newStart' <= height'
    BY <1>0, <2>1 DEF HeightsInv
  <2> QED
    BY <2>4, <2>5, <2>6, <2>7, <2>8, <2>9 DEF HeightsInv, NotAhead
<1>5. ASSUME SyncStep \/ NoZeroMQ \/ Cancel \/ PollerStep, ~Exit PROVE HeightsInv'
  BY <1>0, <1>5, HandlersFrame, ThreadIds DEF HeightsInv, NotAhead, Holding
<1>6. ASSUME NEW t \in Threads, ScanStep(t), ~Exit PROVE HeightsInv'
  <2> USE <1>0, <1>6
  <2>0. UNCHANGED <<height, main, newStart>>
    BY GoroutineFrame
  <2>1. \A u \in Threads \ {t} : thread'[u] = thread[u]
    BY ScanFrame
  <2>2. ASSUME passed \subseteq passed', height + 1 .. dbScanned' \subseteq passed',
               height + 1 .. memScanned' \subseteq passed',
               t \in Loopers /\ thread'[t].pc = "scan" => memScanned' < height,
               thread'[t].pc = "scan" => thread'[t].block <= height,
               thread'[t].pc \in {"save", "set"} =>
                 height + 1 .. thread'[t].local \subseteq passed',
               \A h \in recorded' : h <= height,
               \/ memScanned' = memScanned
               \/ \A u \in Loopers \ {t} : thread[u].pc \notin Holding
        PROVE  HeightsInv'
    <3>1. \A u \in Threads : thread'[u].pc \in {"save", "set"} =>
             height + 1 .. thread'[u].local \subseteq passed'
      BY <2>1, <2>2 DEF HeightsInv, NotAhead
    <3>2. \A u \in Loopers : thread'[u].pc = "scan" => memScanned' < height
      BY <2>1, <2>2, ThreadIds DEF HeightsInv, Holding
    <3>3. \A u \in Threads : thread'[u].pc = "scan" => thread'[u].block <= height
      BY <2>1, <2>2 DEF HeightsInv
    <3> QED
      BY <2>0, <2>2, <3>1, <3>2, <3>3 DEF HeightsInv, NotAhead
  <2>s. /\ height + 1 .. memScanned \subseteq passed /\ height + 1 .. dbScanned \subseteq passed
        /\ thread[t].pc \in {"save", "set"} => height + 1 .. thread[t].local \subseteq passed
        /\ \A h \in recorded : h <= height
    BY DEF HeightsInv, NotAhead
  <2>3. CASE TestLoop(t)
    <3>1. thread'[t].pc \notin Holding
      BY <2>3 DEF TestLoop, Go, AfterCatchUp, Holding, StartTypeOK, Goroutines
    <3>2. UNCHANGED <<memScanned, dbScanned, passed, recorded>>
      BY <2>3 DEF TestLoop, fileVars
    <3> QED
      BY <2>s, <2>2, <3>1, <3>2 DEF Holding
  <2>4. CASE FetchNext(t)
    <3>1. thread'[t].pc = "scan" /\ thread'[t].block = memScanned + 1 /\ memScanned < height
      BY <2>4 DEF FetchNext, StartTypeOK, Goroutines
    <3>2. UNCHANGED <<memScanned, dbScanned, passed, recorded>>
      BY <2>4 DEF FetchNext, fileVars
    <3> QED
      BY <2>s, <2>2, <3>1, <3>2
  <2>5. CASE ScanBlock(t) \/ ScanBlockTxsFails(t)
    BY <2>s, <2>2, <2>5, CountedNotAhead
  <2>6. CASE ScanBlockFails(t) \/ SaveAdvanceFails(t)
    <3>1. thread'[t].pc \notin Holding
      BY <2>6
      DEF ScanBlockFails, SaveAdvanceFails, Return, NoThread, Holding, StartTypeOK
    <3>2. UNCHANGED <<memScanned, dbScanned, passed, recorded>>
      BY <2>6 DEF ScanBlockFails, SaveAdvanceFails, fileVars
    <3> QED
      BY <2>s, <2>2, <3>1, <3>2 DEF Holding
  <2>7. CASE SaveAdvance(t)
    <3>1. /\ thread'[t].pc = "set" /\ thread'[t].local = thread[t].local
          /\ thread[t].pc = "save" /\ dbScanned' = thread[t].local
      BY <2>7 DEF SaveAdvance, Go, StartTypeOK, Goroutines
    <3>2. UNCHANGED <<memScanned, passed, recorded>>
      BY <2>7 DEF SaveAdvance
    <3> QED
      BY <2>s, <2>2, <3>1, <3>2
  <2>8. CASE SetAdvance(t)
    <3>1. \A u \in Loopers \ {t} : thread[u].pc \notin Holding
      BY <2>8, OneHolds, ThreadIds DEF SetAdvance, Holding
    <3>2. /\ thread'[t].pc \notin Holding /\ thread[t].pc = "set"
          /\ memScanned' = thread[t].local
      BY <2>8 DEF SetAdvance, Return, NoThread, Holding, StartTypeOK
    <3>3. UNCHANGED <<dbScanned, passed, recorded>>
      BY <2>8 DEF SetAdvance, fileVars
    <3> QED
      BY <2>s, <2>2, <3>1, <3>2, <3>3 DEF Holding
  <2> QED
    BY <2>3, <2>4, <2>5, <2>6, <2>7, <2>8 DEF ScanStep
<1>7. CASE UNCHANGED allPollVars
  BY <1>7 DEF allPollVars, startVars, HeightsInv, NotAhead
<1> QED
  BY <1>1, <1>2, <1>3, <1>4, <1>5, <1>6, <1>7, EndsWithExit, ThreadIds
  DEF PollNext, StartNext

-----------------------------------------------------------------------------
(* The theorems about the state. *)

\* PollInit establishes the inductive invariant.
LEMMA PollInvInit == PollInit => PollInv
<1> SUFFICES ASSUME PollInit PROVE PollInv
  OBVIOUS
<1>1. \A t \in Threads : thread[t].pc = "idle"
  BY DEF PollInit, StartInit, NoThread
<1>2. HeightsInv
  <2>1. height + 1 .. 0 = {}
    BY StartupAssumption DEF PollInit, StartInit
  <2> QED
    BY <1>1, <2>1, ThreadIds DEF PollInit, StartInit, HeightsInv, NotAhead
<1>3. TakesTurns
  BY <1>1, ThreadIds DEF PollInit, StartInit, TakesTurns, NoThread
<1> QED
  BY <1>1, <1>2, <1>3, PollInitTyped
  DEF PollInv, PollInit, StartInit, SeedInv, SeedWasShown

\* Every step keeps the inductive invariant.
LEMMA PollInvStep == PollInv /\ [PollNext]_allPollVars => PollInv'
  BY PollStepTyped, SeedStep, TurnsStep, HeightsStep DEF PollInv

\* The inductive invariant holds throughout.
LEMMA PollInvAlways == PollSafety => []PollInv
  BY PollInvInit, PollInvStep, PTL DEF PollSafety

\* The state of the start and of the polling keeps its type.
THEOREM PollTyped == PollSafety => []PollTypeOK
  BY PollInvAlways, PTL DEF PollInv

\* There is no wallet whose seed its owner has not been shown, wherever the
\* creation is interrupted and however often the program is started.
THEOREM SeedAlwaysShown == PollSafety => []SeedWasShown
<1>1. PollInv => SeedWasShown
  BY DEF PollInv, SeedInv
<1> QED
  BY <1>1, PollInvAlways, PTL

\* LoadWallet, Sync and the poller never let a counter run ahead of the node,
\* whatever they overwrite of each other's counts, with any number of entries:
\* a block that counts as scanned before it exists has been counted by a
\* goroutine of a notification (scan.go, scanBlock; nodeclient.go, the loop
\* over the ZeroMQ entries).
THEOREM AheadOnlyByNotices == PollSafety => []AheadByNoticesOnly
<1>1. PollInv => AheadByNoticesOnly
  BY DEF PollInv, HeightsInv, NotAhead, AheadByNoticesOnly, Counters
<1> QED
  BY <1>1, PollInvAlways, PTL

-----------------------------------------------------------------------------
(* The steps of the poller. *)

\* Only the poller touches what the poller holds, in a wallet that is not new.
LEMMA PollerKeeps ==
  ASSUME PollInv, PollerInv, InitHeight > 0, newStart' = 0, ~Exit,
         thread[Poller].pc \in Holding,
         \/ Creation \/ LoadWallet \/ Loading \/ HandOut \/ Mine
         \/ SyncStep \/ NoZeroMQ \/ Cancel \/ PollerStep
         \/ \E t \in Threads \ {Poller} : ScanStep(t)
  PROVE  /\ UNCHANGED <<memScanned, dbScanned>> /\ recorded \subseteq recorded'
         /\ thread'[Poller] = thread[Poller] \/ thread'[Poller].pc \notin Holding
<1>0. /\ StartTypeOK /\ TakesTurns /\ height \in Nat /\ newStart \in Nat
      /\ Poller \in Threads
  BY StartupAssumption, ThreadIds DEF PollInv, PollTypeOK, StartTypeOK, Heights
<1>1. main \notin {"off", "setup"} \cup CreatePCs
  BY <1>0 DEF TakesTurns, Holding
<1>2. ASSUME Creation \/ LoadWallet \/ Loading \/ HandOut
      PROVE  UNCHANGED <<memScanned, dbScanned, recorded, thread>>
  <2>1. /\ ~CreateWallet /\ ~Confirm /\ ~ShowSeed /\ ~InitBuckets
        /\ ~LoadWallet /\ ~SetupClient
    BY <1>1
    DEF CreateWallet, Confirm, ShowSeed, InitBuckets, LoadWallet, SetupClient, CreatePCs
  <2>2. ~SaveStart /\ ~SetStart
    BY <1>0, StartupAssumption DEF SaveStart, SetStart, processVars, PollerInv
  <2> QED
    BY <1>2, <2>1, <2>2, EndsWithExit
    DEF Creation, Loading, SetClient, LoadTxFilter, CheckNew, CountForNew,
        SaveStartFails,
        HandOut, fileVars
<1>3. CASE Mine
  <2>1. thread'[Poller] = thread[Poller]
    BY <1>0, <1>3, NoticesTyped, ThreadIds
  <2> QED
    BY <1>3, <2>1 DEF Mine, fileVars
<1>4. ~SyncStep
  BY <1>0, EndsWithExit
  DEF SyncStep, SyncCounts, SyncCountFails, SyncFetchFails, NoHash, Subscribe,
      SubscribeFails, TakesTurns, Holding
<1>5. CASE NoZeroMQ \/ Cancel
  BY <1>0, <1>5 DEF NoZeroMQ, Cancel, TakesTurns, Holding, StartTypeOK, fileVars
<1>6. CASE PollerStep
  BY <1>0, <1>6, PollerFrame
<1>7. ASSUME NEW t \in Threads \ {Poller}, ScanStep(t)
      PROVE  UNCHANGED <<memScanned, dbScanned, recorded, thread[Poller]>>
  <2>1. thread[t].pc \notin Holding
    BY <1>0, <1>7, OneHolds, ThreadIds
  <2>2. TestLoop(t) \/ FetchNext(t)
    BY <1>7, <2>1
    DEF ScanStep, ScanBlock, ScanBlockTxsFails, ScanBlockFails, SaveAdvance,
        SaveAdvanceFails, SetAdvance, Holding
  <2> QED
    BY <1>0, <1>7, <2>2, ScanFrame DEF TestLoop, FetchNext, fileVars
<1> QED
  BY <1>2, <1>3, <1>4, <1>5, <1>6, <1>7

\* No step but its own makes the poller hold a height.
LEMMA PollerAcquires ==
  ASSUME PollInv, ~ScanStep(Poller), [PollNext]_allPollVars,
         thread'[Poller].pc \in Holding
  PROVE  thread[Poller].pc \in Holding /\ ~Exit
<1>0. StartTypeOK /\ Poller \in Threads
  BY ThreadIds DEF PollInv, PollTypeOK
<1>1. ~Exit
  BY <1>0 DEF Exit, NoThread, Holding
<1> SUFFICES thread[Poller].pc \in Holding
  BY <1>1
<1>2. CASE Creation \/ LoadWallet \/ Loading \/ HandOut \/ Stop
  <2>1. CASE SetupClient
    BY <1>0, <2>1 DEF SetupClient, Go, StartTypeOK, Holding
  <2>2. CASE ~SetupClient
    BY <1>1, <1>2, <2>2, MainFrame
  <2> QED
    BY <2>1, <2>2
<1>3. CASE Mine
  BY <1>0, <1>3, NoticesTyped, ThreadIds
<1>4. CASE SyncStep
  BY <1>0, <1>1, <1>4, EndsWithExit, ThreadIds
  DEF SyncStep, SyncCounts, SyncCountFails, SyncFetchFails, Subscribe, SubscribeFails,
      NextEntry, Go, StartTypeOK
<1>5. CASE NoZeroMQ \/ Cancel
  <2>1. CASE NoZeroMQ
    BY <1>0, <2>1 DEF NoZeroMQ, StartTypeOK, Holding
  <2>2. CASE Cancel
    BY <1>0, <2>2, ThreadIds DEF Cancel, StartTypeOK
  <2> QED
    BY <1>5, <2>1, <2>2
<1>6. CASE PollerStep
  BY <1>0, <1>6, PollerFrame
<1>7. ASSUME NEW t \in Threads \ {Poller}, ScanStep(t)
      PROVE  thread'[Poller] = thread[Poller]
  BY <1>0, <1>7, ScanFrame
<1>8. CASE UNCHANGED allPollVars
  BY <1>8 DEF allPollVars, startVars
<1> QED
  BY <1>1, <1>2, <1>3, <1>4, <1>5, <1>6, <1>7, <1>8 DEF PollNext, StartNext

\* The node's height and the start height of a new wallet do not go below
\* the height at the start.
LEMMA HeightsGrow ==
  ASSUME PollInv, PollerInv, [PollNext]_allPollVars
  PROVE  /\ height' >= InitHeight
         /\ main' \in {"save", "set"} => newStart' >= InitHeight
         /\ newStart' = newStart \/ Exit \/ newStart' >= InitHeight
<1>0. height \in Nat /\ height >= InitHeight
  BY StartupAssumption DEF PollInv, PollTypeOK, StartTypeOK, Heights, PollerInv
<1>1. CASE Exit
  BY <1>0, <1>1 DEF Exit
<1>2. ASSUME Creation \/ LoadWallet \/ Loading \/ HandOut, ~Exit
      PROVE  /\ height' = height
             /\ main' \in {"save", "set"} => newStart' >= InitHeight
             /\ newStart' = newStart \/ newStart' >= InitHeight
  BY <1>0, <1>2, EndsWithExit
  DEF Creation, CreateWallet, Confirm, ShowSeed, InitBuckets, LoadWallet, Loading,
        SetClient, LoadTxFilter, CheckNew, CountForNew, SaveStart, SaveStartFails,
        SetStart, HandOut, SetupClient, PollerInv, processVars
<1>3. CASE Mine
  BY <1>0, <1>3, StartupAssumption DEF Mine, processVars, PollerInv
<1>4. ASSUME ~Exit,
             \/ SyncStep \/ (\E t \in Threads : ScanStep(t))
             \/ NoZeroMQ \/ Cancel \/ PollerStep
      PROVE  UNCHANGED <<height, main, newStart>>
  BY <1>4, GoroutineFrame
<1>5. CASE UNCHANGED allPollVars
  BY <1>5 DEF allPollVars, startVars, PollerInv
<1> QED
  BY <1>0, <1>1, <1>2, <1>3, <1>4, <1>5, EndsWithExit, ThreadIds
  DEF PollNext, StartNext, PollerInv

\* The poller's own steps: what it holds is the block after the counter.
LEMMA PollerScans ==
  ASSUME PollInv, PollerInv, newStart = 0, ScanStep(Poller)
  PROVE  /\ thread'[Poller].pc = "scan" => thread'[Poller].block = memScanned' + 1
         /\ thread'[Poller].pc \in {"save", "set"} =>
              thread'[Poller].local = memScanned' + 1 /\ memScanned' + 1 \in recorded'
         /\ thread'[Poller].pc = "set" => dbScanned' = memScanned' + 1
<1>0. StartTypeOK /\ Poller \in Threads
  BY ThreadIds DEF PollInv, PollTypeOK
<1> USE DEF StartTypeOK, PollerInv, fileVars
<1>1. CASE TestLoop(Poller)
  BY <1>0, <1>1 DEF TestLoop, Go, AfterCatchUp, Loopers
<1>2. CASE FetchNext(Poller)
  BY <1>0, <1>2 DEF FetchNext
<1>3. CASE ScanBlock(Poller) \/ ScanBlockTxsFails(Poller)
  <2>1. /\ thread[Poller].pc = "scan" /\ thread'[Poller].pc = "save"
        /\ thread'[Poller].local = memScanned + 1 /\ UNCHANGED memScanned
        /\ thread[Poller].block \in recorded'
    BY <1>0, <1>3, CountedNotAhead, ThreadIds DEF PollInv
  <2> QED
    BY <2>1
<1>4. CASE SaveAdvance(Poller)
  BY <1>0, <1>4 DEF SaveAdvance, Go
<1>5. CASE ScanBlockFails(Poller) \/ SaveAdvanceFails(Poller) \/ SetAdvance(Poller)
  <2>1. Return(Poller)
    BY <1>5 DEF ScanBlockFails, SaveAdvanceFails, SetAdvance
  <2> QED
    BY <1>0, <2>1 DEF Return, NoThread, Loopers
<1> QED
  BY <1>1, <1>2, <1>3, <1>4, <1>5 DEF ScanStep

\* Every step keeps what the poller holds right.
LEMMA PollerInvStep ==
  InitHeight > 0 /\ PollInv /\ PollerInv /\ [PollNext]_allPollVars => PollerInv'
<1> SUFFICES ASSUME InitHeight > 0, PollInv, PollerInv, [PollNext]_allPollVars
             PROVE  PollerInv'
  OBVIOUS
<1>1. CASE thread'[Poller].pc \notin Holding
  BY <1>1, HeightsGrow DEF PollerInv, Holding
<1>2. CASE newStart' # 0
  BY <1>2, HeightsGrow DEF PollerInv
<1>3. ASSUME newStart' = 0, thread'[Poller].pc \in Holding PROVE PollerInv'
  <2>1. ~Exit
    BY <1>3, ThreadIds DEF Exit, NoThread, Holding
  <2>2. newStart = 0
    BY <1>3, <2>1, HeightsGrow, StartupAssumption
  <2>3. CASE ScanStep(Poller)
    BY <2>2, <2>3, HeightsGrow, PollerScans DEF PollerInv
  <2>4. CASE UNCHANGED allPollVars
    BY <2>4 DEF allPollVars, startVars, PollerInv
  <2>5. ASSUME ~ScanStep(Poller), PollNext PROVE PollerInv'
    <3>1. thread[Poller].pc \in Holding
      BY <1>3, <2>5, PollerAcquires
    <3>2. /\ UNCHANGED <<memScanned, dbScanned>> /\ recorded \subseteq recorded'
          /\ thread'[Poller] = thread[Poller]
      BY <1>3, <2>1, <2>5, <3>1, PollerKeeps, EndsWithExit
      DEF PollNext, StartNext
    <3> QED
      BY <2>2, <3>2, HeightsGrow DEF PollerInv
  <2> QED
    BY <2>3, <2>4, <2>5
<1> QED
  BY <1>1, <1>2, <1>3

\* The counter of a wallet that is not new moves, while the poller runs, only
\* with the poller, which has recorded and saved the block before.
LEMMA PollerMovesCounter ==
  ASSUME InitHeight > 0, PollInv, PollerInv, [PollNext]_allPollVars,
         thread[Poller].pc # "idle", newStart = 0, main' # "off",
         memScanned' # memScanned
  PROVE  /\ memScanned' = memScanned + 1 /\ memScanned' \in recorded
         /\ dbScanned = memScanned'
<1>0. StartTypeOK /\ TakesTurns /\ Poller \in Threads
  BY ThreadIds DEF PollInv, PollTypeOK
<1>1. ~Exit
  BY DEF Exit
<1>2. ~LoadWallet /\ ~SetStart
  BY <1>0, StartupAssumption DEF LoadWallet, SetStart, TakesTurns, PollerInv
<1>3. ~Creation /\ ~Loading /\ ~HandOut /\ ~Mine /\ ~UNCHANGED allPollVars
  BY <1>1, <1>2, EndsWithExit
  DEF Creation, CreateWallet, Confirm, ShowSeed, InitBuckets, Loading, SetupClient,
      SetClient,
      LoadTxFilter, CheckNew, CountForNew, SaveStart, SaveStartFails, HandOut, Mine,
      allPollVars, startVars
<1>4. ~SyncStep /\ ~NoZeroMQ /\ ~Cancel /\ ~PollerStep
  BY <1>0, <1>1, PollerFrame, EndsWithExit
  DEF SyncStep, SyncCounts, SyncCountFails, SyncFetchFails, Subscribe, SubscribeFails,
      NoZeroMQ, Cancel
<1>5. PICK t \in Threads : SetAdvance(t)
  BY <1>1, <1>2, <1>3, <1>4, EndsWithExit, ThreadIds
  DEF PollNext, StartNext, ScanStep, TestLoop, FetchNext, ScanBlock,
      ScanBlockTxsFails, ScanBlockFails, SaveAdvance, SaveAdvanceFails, CountNext
<1>6. t = Poller
  BY <1>0, <1>5 DEF SetAdvance, TakesTurns, Threads, Loopers
<1> QED
  BY <1>5, <1>6 DEF SetAdvance, PollerInv

\* The poller loses no block, whatever fails, in a wallet that is not a new
\* one.  On a chain of which only block 0 exists LoadWallet cannot be told
\* from one that has not counted, hence the assumption.
THEOREM PollingLosesNone == ASSUME InitHeight > 0 PROVE PollSafety => PollAdvances
<1>1. PollInit => PollerInv
  BY StartupAssumption, ThreadIds DEF PollInit, StartInit, PollerInv, NoThread
<1>2. PollInv /\ PollerInv /\ [PollNext]_allPollVars =>
        [ /\ thread[Poller].pc # "idle" /\ newStart = 0 /\ main' # "off"
          /\ memScanned' # memScanned
          => /\ memScanned' = memScanned + 1 /\ memScanned' \in recorded
             /\ dbScanned = memScanned' ]_allPollVars
  BY PollerMovesCounter
<1>3. PollInv /\ PollerInv /\ [PollNext]_allPollVars => PollerInv'
  BY PollerInvStep
<1> QED
  BY <1>1, <1>2, <1>3, PollInvAlways, PTL DEF PollSafety, PollAdvances

-----------------------------------------------------------------------------
(* What is skipped. *)

\* While a wallet is created there is none; one that is loaded, or has given
\* an address away, is stored.
WalletStored ==
  /\ main \in CreatePCs => seed = 0 /\ starts > 0
  /\ main \in {"serve"} \cup LoadPCs \/ birth # Nobody => seed # 0

\* An address is out, of a wallet whose start height was saved.
InUse == birth # Nobody /\ ~badStart

\* Once the start height is saved the counter stays above zero, in the
\* database before it does in the field: LoadWallet does not take a wallet in
\* use for a new one.
CounterSet ==
  /\ dbScanned >= 0 /\ memScanned >= 0
  /\ \A t \in Threads :
       /\ thread[t].pc \in {"save", "set"} => thread[t].local > 0
       /\ thread[t].pc = "set" => dbScanned > 0
  /\ main = "set" => dbScanned > 0
  /\ memScanned > 0 => dbScanned > 0
  /\ main \in {"off"} \cup CreatePCs => memScanned = 0
  /\ main = "serve" /\ ~badStart => dbScanned > 0
  /\ InUse =>
       /\ dbScanned > 0 /\ main \notin {"count", "save", "set"}
       /\ main \in {"setup", "client", "filter", "check"} => memScanned > 0

\* Every block after the first address, up to block n, is accounted for.
Seen == recorded \cup passed
SeenUpTo(n) == birth + 1 .. n \subseteq Seen

\* What the counters and the goroutines stand for: the blocks up to a height
\* that is a counter or is to become one have been seen, and a loop scans the
\* block after the counter.
NothingLost ==
  InUse =>
    /\ SeenUpTo(memScanned) /\ SeenUpTo(dbScanned)
    /\ \A t \in Threads : thread[t].pc \in {"save", "set"} => SeenUpTo(thread[t].local)
    /\ \A t \in Loopers : thread[t].pc = "scan" =>
         memScanned < birth \/ thread[t].block = memScanned + 1

LossInv == WalletStored /\ CounterSet /\ NothingLost

\* Every step keeps the wallet in use stored.
LEMMA StoredStep ==
  starts \in Nat /\ WalletStored /\ [PollNext]_allPollVars => WalletStored'
<1> SUFFICES ASSUME starts \in Nat, WalletStored, [PollNext]_allPollVars
             PROVE  WalletStored'
  OBVIOUS
<1> USE DEF WalletStored, fileVars, ghostVars, CreatePCs, LoadPCs
<1>1. CASE Exit
  BY <1>1 DEF Exit
<1>2. CASE CreateWallet \/ Confirm \/ ShowSeed \/ InitBuckets
  BY <1>2 DEF CreateWallet, Confirm, ShowSeed, InitBuckets
<1>3. CASE LoadWallet \/ SetupClient \/ SetClient \/ LoadTxFilter \/ CheckNew
  BY <1>3 DEF LoadWallet, SetupClient, SetClient, LoadTxFilter, CheckNew
<1>4. CASE CountForNew \/ SaveStart \/ SaveStartFails \/ SetStart
  BY <1>4 DEF CountForNew, SaveStart, SaveStartFails, SetStart
<1>5. CASE Mine \/ HandOut
  BY <1>5 DEF Mine, HandOut
<1>6. CASE UNCHANGED allPollVars
  BY <1>6 DEF allPollVars, startVars
<1>7. ASSUME ~Exit,
             \/ SyncStep \/ (\E t \in Threads : ScanStep(t))
             \/ NoZeroMQ \/ Cancel \/ PollerStep
      PROVE  WalletStored'
  BY <1>7, GoroutineFrame
<1> QED
  BY <1>1, <1>2, <1>3, <1>4, <1>5, <1>6, <1>7, EndsWithExit, ThreadIds
  DEF PollNext, StartNext, Creation, Loading

\* Every step keeps the counter of a wallet in use above zero, on a chain of
\* more than Depth blocks.
LEMMA CounterSetStep ==
  ASSUME InitHeight > Depth, PollInv, PollerInv, WalletStored, CounterSet,
         [PollNext]_allPollVars
  PROVE  CounterSet'
<1>0. /\ StartTypeOK /\ TakesTurns
      /\ height \in Nat /\ newStart \in Nat /\ memScanned \in Int /\ dbScanned \in Int
      /\ \A t \in Threads : thread[t].local \in Int
      /\ InitHeight \in Nat /\ Depth \in Nat
  BY StartupAssumption DEF PollInv, PollTypeOK, StartTypeOK, Heights, Goroutines
<1>t. memScanned' \in Int /\ dbScanned' \in Int
  BY PollStepTyped DEF PollInv, PollTypeOK, StartTypeOK
<1> USE DEF fileVars, processVars, nodeVars, ghostVars, InUse
<1>1. CASE Exit
  BY <1>0, <1>1 DEF Exit, CounterSet, NoThread, CreatePCs
<1>2. CASE CreateWallet \/ Confirm \/ ShowSeed
  BY <1>2 DEF CreateWallet, Confirm, ShowSeed, CounterSet, CreatePCs
<1>3. CASE InitBuckets
  <2>1. memScanned = 0 /\ birth = Nobody /\ \A t \in Threads : thread[t].pc = "idle"
    BY <1>0, <1>3 DEF InitBuckets, CounterSet, WalletStored, TakesTurns, CreatePCs
  <2> QED
    BY <1>0, <1>3, <2>1 DEF InitBuckets, CounterSet
<1>4. CASE LoadWallet
  <2>1. \A t \in Threads : thread[t].pc = "idle"
    BY <1>0, <1>4 DEF LoadWallet, TakesTurns
  <2> QED
    BY <1>0, <1>4, <2>1 DEF LoadWallet, CounterSet, CreatePCs
<1>5. CASE SetupClient
  BY <1>0, <1>5 DEF SetupClient, Go, StartTypeOK, CounterSet, CreatePCs
<1>6. CASE SetClient \/ LoadTxFilter \/ CheckNew
  BY <1>0, <1>6 DEF SetClient, LoadTxFilter, CheckNew, CounterSet, CreatePCs
<1>7. CASE CountForNew \/ SaveStartFails
  BY <1>7 DEF CountForNew, SaveStartFails, CounterSet, CreatePCs
<1>8. CASE SaveStart \/ SetStart
  <2>1. newStart - Depth > 0
    BY <1>0, <1>8 DEF SaveStart, SetStart, PollerInv
  <2> QED
    BY <1>0, <1>8, <2>1 DEF SaveStart, SetStart, CounterSet, CreatePCs
<1>9. CASE HandOut
  BY <1>9 DEF HandOut, CounterSet, CreatePCs
<1>10. CASE Mine
  <2>1. \A t \in Threads : thread'[t] = thread[t] \/ thread'[t].pc = "scan"
    BY <1>0, <1>10 DEF Mine, StartTypeOK, NoThread
  <2> QED
    BY <1>10, <2>1 DEF Mine, CounterSet
<1>11. ASSUME SyncStep \/ NoZeroMQ \/ Cancel \/ PollerStep, ~Exit PROVE CounterSet'
  BY <1>0, <1>11, HandlersFrame DEF CounterSet, Holding
<1>12. ASSUME NEW t \in Threads, ScanStep(t), ~Exit PROVE CounterSet'
  <2>1. UNCHANGED <<main, birth, badStart>> /\ main \notin {"off"} \cup CreatePCs
    <3>1. main \notin {"off"} \cup CreatePCs
      BY <1>0, <1>12, ScanFrame DEF TakesTurns
    <3> QED
      BY <1>12, <3>1, GoroutineFrame
      DEF ScanStep, TestLoop, FetchNext, ScanBlock, ScanBlockTxsFails, ScanBlockFails,
          SaveAdvance, SaveAdvanceFails, SetAdvance
  <2>2. \A u \in Threads \ {t} : thread'[u] = thread[u]
    BY <1>0, <1>12, ScanFrame
  <2>3. ASSUME thread'[t].pc \in {"save", "set"} => thread'[t].local > 0,
               thread'[t].pc = "set" => dbScanned' > 0,
               dbScanned' = dbScanned \/ dbScanned' > 0,
               memScanned' = memScanned \/ (memScanned' > 0 /\ dbScanned' > 0)
        PROVE  CounterSet'
    BY <1>0, <1>t, <2>1, <2>2, <2>3 DEF CounterSet
  <2> USE DEF StartTypeOK
  <2>4. CASE TestLoop(t) \/ FetchNext(t)
    <3>1. thread'[t].pc \notin {"save", "set"}
      <4>1. CASE TestLoop(t)
        BY <1>0, <4>1 DEF TestLoop, Go, AfterCatchUp
      <4>2. CASE FetchNext(t)
        BY <1>0, <4>2 DEF FetchNext
      <4> QED
        BY <2>4, <4>1, <4>2
    <3>2. UNCHANGED <<memScanned, dbScanned>>
      BY <2>4 DEF TestLoop, FetchNext
    <3> QED
      BY <2>3, <3>1, <3>2
  <2>5. CASE ScanBlock(t) \/ ScanBlockTxsFails(t)
    <3>1. /\ thread'[t].pc = "save" /\ thread'[t].local = memScanned + 1
          /\ UNCHANGED <<memScanned, dbScanned>>
      BY <1>0, <2>5, CountedNotAhead DEF PollInv
    <3>2. memScanned + 1 > 0
      BY <1>0 DEF CounterSet
    <3> QED
      BY <2>3, <3>1, <3>2
  <2>6. CASE ScanBlockFails(t) \/ SaveAdvanceFails(t)
    <3>1. thread'[t].pc \notin {"save", "set"}
      BY <1>0, <2>6 DEF ScanBlockFails, SaveAdvanceFails, Return, NoThread
    <3>2. UNCHANGED <<memScanned, dbScanned>>
      BY <2>6 DEF ScanBlockFails, SaveAdvanceFails
    <3> QED
      BY <2>3, <3>1, <3>2
  <2>7. CASE SaveAdvance(t)
    <3>1. thread'[t].pc = "set" /\ thread'[t].local = thread[t].local
      BY <1>0, <2>7 DEF SaveAdvance, Go
    <3> QED
      BY <1>0, <2>3, <2>7, <3>1 DEF SaveAdvance, CounterSet
  <2>8. CASE SetAdvance(t)
    <3>1. thread'[t].pc \notin {"save", "set"}
      BY <1>0, <2>8 DEF SetAdvance, Return, NoThread
    <3> QED
      BY <1>0, <2>3, <2>8, <3>1 DEF SetAdvance, CounterSet
  <2> QED
    BY <1>12, <2>4, <2>5, <2>6, <2>7, <2>8 DEF ScanStep
<1>13. CASE UNCHANGED allPollVars
  BY <1>13 DEF allPollVars, startVars, CounterSet
<1> QED
  BY <1>1, <1>2, <1>3, <1>4, <1>5, <1>6, <1>7, <1>8, <1>9, <1>10, <1>11, <1>12, <1>13,
     EndsWithExit, ThreadIds
  DEF PollNext, StartNext, Creation, Loading

\* The scan of a goroutine loses no block of a wallet in use.
LEMMA ScanLosesNothing ==
  ASSUME PollInv, InUse, NothingLost, NEW t \in Threads, ScanStep(t), ~Exit
  PROVE  NothingLost'
<1>0. /\ StartTypeOK /\ TakesTurns /\ HeightsInv /\ InUse
      /\ height \in Int /\ memScanned \in Int /\ dbScanned \in Int /\ birth \in Nat
      /\ thread[t] \in Goroutines /\ thread[t].block \in Int /\ thread[t].target \in Int
      /\ thread[t].local \in Int
  BY StartupAssumption
  DEF PollInv, PollTypeOK, StartTypeOK, Heights, Goroutines, InUse
<1>1. UNCHANGED <<height, birth, badStart, subscribed>>
  BY <1>0, GoroutineFrame, ScanFrame
<1>2. \A u \in Threads \ {t} : thread'[u] = thread[u]
  BY <1>0, ScanFrame
<1>3. recorded \subseteq recorded' /\ passed \subseteq passed'
  <2>1. CASE ScanBlock(t) \/ ScanBlockTxsFails(t)
    BY <1>0, <2>1, CountedNotAhead
  <2>2. CASE ~ScanBlock(t) /\ ~ScanBlockTxsFails(t)
    BY <2>2
    DEF ScanStep, TestLoop, FetchNext, ScanBlockFails, SaveAdvance, SaveAdvanceFails,
        SetAdvance, ghostVars
  <2> QED
    BY <2>1, <2>2
<1>4. \A n : SeenUpTo(n) => birth' + 1 .. n \subseteq Seen'
  BY <1>1, <1>3 DEF SeenUpTo, Seen
<1>5. ASSUME birth + 1 .. memScanned' \subseteq Seen',
             birth + 1 .. dbScanned' \subseteq Seen',
             thread'[t].pc \in {"save", "set"} =>
               birth + 1 .. thread'[t].local \subseteq Seen',
             t \in Loopers /\ thread'[t].pc = "scan" =>
               thread'[t].block = memScanned' + 1,
             \/ memScanned' = memScanned
             \/ \A u \in Loopers \ {t} : thread[u].pc \notin Holding
      PROVE  NothingLost'
  <2>1. \A u \in Threads : thread'[u].pc \in {"save", "set"} =>
           birth + 1 .. thread'[u].local \subseteq Seen'
    BY <1>0, <1>1, <1>2, <1>4, <1>5 DEF NothingLost
  <2>2. \A u \in Loopers : thread'[u].pc = "scan" =>
           memScanned' < birth \/ thread'[u].block = memScanned' + 1
    BY <1>0, <1>2, <1>5, ThreadIds DEF NothingLost, Holding
  <2> QED
    BY <1>1, <1>5, <2>1, <2>2 DEF NothingLost, SeenUpTo
<1>6. SeenUpTo(memScanned) /\ SeenUpTo(dbScanned)
  BY <1>0 DEF NothingLost
<1>7. thread[t].pc \in {"save", "set"} => SeenUpTo(thread[t].local)
  BY <1>0 DEF NothingLost
<1> USE DEF StartTypeOK, fileVars, nodeVars, ghostVars
<1>8. CASE TestLoop(t)
  <2>1. thread'[t].pc \notin {"scan", "save", "set"}
    BY <1>0, <1>8 DEF TestLoop, Go, AfterCatchUp, Goroutines
  <2>2. UNCHANGED <<memScanned, dbScanned>>
    BY <1>8 DEF TestLoop
  <2> QED
    BY <1>1, <1>4, <1>5, <1>6, <2>1, <2>2
<1>9. CASE FetchNext(t)
  <2>1. thread'[t].pc = "scan" /\ thread'[t].block = memScanned + 1
    BY <1>0, <1>9 DEF FetchNext, Goroutines
  <2>2. UNCHANGED <<memScanned, dbScanned>>
    BY <1>9 DEF FetchNext
  <2> QED
    BY <1>1, <1>4, <1>5, <1>6, <2>1, <2>2
<1>10. CASE ScanBlock(t) \/ ScanBlockTxsFails(t)
  <2>1. /\ thread[t].pc = "scan" /\ thread'[t].pc = "save"
        /\ thread'[t].local = memScanned + 1
        /\ UNCHANGED <<memScanned, dbScanned>>
        /\ t \in Loopers => thread[t].block \in recorded'
        /\ t \notin Loopers => memScanned + 1 \in recorded' \cup passed'
    BY <1>0, <1>10, CountedNotAhead
  <2>2. memScanned + 1 <= birth \/ memScanned + 1 \in Seen'
    <3>1. CASE t \in Loopers
      BY <1>0, <2>1, <3>1 DEF NothingLost, Seen
    <3>2. CASE t \notin Loopers
      BY <2>1, <3>2 DEF Seen
    <3> QED
      BY <3>1, <3>2
  <2>3. birth + 1 .. memScanned + 1 \subseteq Seen'
    <3>1. \A h \in birth + 1 .. memScanned + 1 :
             h \in birth + 1 .. memScanned \/ h = memScanned + 1
      BY <1>0
    <3>2. birth + 1 .. memScanned \subseteq Seen'
      BY <1>1, <1>4, <1>6
    <3>3. memScanned + 1 \in birth + 1 .. memScanned + 1 => memScanned + 1 \in Seen'
      BY <1>0, <2>2
    <3> QED
      BY <3>1, <3>2, <3>3
  <2> QED
    BY <1>1, <1>4, <1>5, <1>6, <2>1, <2>3
<1>11. CASE ScanBlockFails(t) \/ SaveAdvanceFails(t)
  <2>1. thread'[t].pc \in {"loop", "idle"}
    BY <1>0, <1>11 DEF ScanBlockFails, SaveAdvanceFails, Return, NoThread
  <2>2. UNCHANGED <<memScanned, dbScanned>>
    BY <1>11 DEF ScanBlockFails, SaveAdvanceFails
  <2> QED
    BY <1>1, <1>4, <1>5, <1>6, <2>1, <2>2
<1>12. CASE SaveAdvance(t)
  <2>1. /\ thread'[t].pc = "set" /\ thread'[t].local = thread[t].local
        /\ thread[t].pc = "save" /\ dbScanned' = thread[t].local
    BY <1>0, <1>12 DEF SaveAdvance, Go, Goroutines
  <2>2. UNCHANGED memScanned
    BY <1>12 DEF SaveAdvance
  <2> QED
    BY <1>1, <1>4, <1>5, <1>6, <1>7, <2>1, <2>2
<1>13. CASE SetAdvance(t)
  <2>1. /\ thread'[t].pc \in {"loop", "idle"} /\ thread[t].pc = "set"
        /\ memScanned' = thread[t].local /\ UNCHANGED dbScanned
    BY <1>0, <1>13 DEF SetAdvance, Return, NoThread
  <2>2. \A u \in Loopers \ {t} : thread[u].pc \notin Holding
    BY <1>0, <2>1, OneHolds DEF Holding
  <2> QED
    BY <1>1, <1>4, <1>5, <1>6, <1>7, <2>1, <2>2
<1> QED
  BY <1>8, <1>9, <1>10, <1>11, <1>12, <1>13 DEF ScanStep

\* Every step loses no block of a wallet in use.
LEMMA NothingLostStep ==
  ASSUME InitHeight > Depth, PollInv, LossInv, [PollNext]_allPollVars
  PROVE  NothingLost'
<1> SUFFICES ASSUME InUse' PROVE NothingLost'
  BY DEF NothingLost
<1>0. /\ StartTypeOK /\ TakesTurns /\ HeightsInv
      /\ height \in Int /\ memScanned \in Int /\ dbScanned \in Int
      /\ \A t \in Threads : thread[t] \in Goroutines /\ thread[t].local \in Int
      /\ WalletStored /\ CounterSet /\ NothingLost
  BY StartupAssumption
  DEF PollInv, PollTypeOK, StartTypeOK, Heights, Goroutines, LossInv
<1> USE DEF fileVars, processVars, nodeVars, ghostVars
<1>1. ASSUME HandOut, birth = Nobody PROVE NothingLost'
  <2>1. /\ birth' = height
        /\ UNCHANGED <<memScanned, dbScanned, recorded, passed, thread>>
    BY <1>1 DEF HandOut
  <2>2. \A n : NotAhead(n) => birth' + 1 .. n \subseteq Seen'
    BY <2>1 DEF NotAhead, Seen
  <2>3. /\ birth' + 1 .. memScanned \subseteq Seen' /\ birth' + 1 .. dbScanned \subseteq Seen'
        /\ \A t \in Threads : thread[t].pc \in {"save", "set"} =>
             birth' + 1 .. thread[t].local \subseteq Seen'
        /\ \A t \in Loopers : thread[t].pc = "scan" => memScanned < birth'
    BY <1>0, <2>1, <2>2 DEF HeightsInv
  <2> QED
    BY <2>1, <2>3 DEF NothingLost, SeenUpTo
<1>2. ASSUME InUse, Exit PROVE NothingLost'
  <2>1. birth \in Nat
    BY <1>0, <1>2, StartupAssumption DEF StartTypeOK, Heights, InUse
  <2>2. birth + 1 .. 0 = {}
    BY <2>1
  <2>3. /\ UNCHANGED <<birth, dbScanned, recorded, passed>> /\ memScanned' = 0
        /\ \A t \in Threads : thread'[t] = NoThread
    BY <1>2 DEF Exit
  <2> QED
    BY <1>0, <1>2, <2>2, <2>3, ThreadIds DEF NothingLost, SeenUpTo, Seen, NoThread
<1>3. ASSUME ~(HandOut /\ birth = Nobody) PROVE InUse
  <2>1. ~SaveStartFails => UNCHANGED <<birth, badStart>>
    BY <1>3, GoroutineFrame, EndsWithExit, ThreadIds
    DEF PollNext, StartNext, Creation, CreateWallet, Confirm, ShowSeed, InitBuckets,
        Loading, LoadWallet, SetupClient, SetClient, LoadTxFilter, CheckNew,
        CountForNew, SaveStart, SetStart, Mine, HandOut, allPollVars, startVars, Exit
  <2>2. ~SaveStartFails
    BY DEF SaveStartFails, InUse
  <2> QED
    BY <2>1, <2>2 DEF InUse
<1>4. ASSUME InUse, Creation \/ LoadWallet \/ Loading, ~Exit PROVE NothingLost'
  <2>1. main \notin CreatePCs \cup {"count", "save", "set"} /\ seed # 0
    BY <1>0, <1>4 DEF InUse, WalletStored, CounterSet
  <2>2. \/ LoadWallet \/ SetupClient \/ SetClient \/ LoadTxFilter \/ CheckNew
    BY <1>4, <2>1, EndsWithExit
    DEF Creation, CreateWallet, Confirm, ShowSeed, InitBuckets, Loading, CountForNew,
        SaveStart, SaveStartFails, SetStart, CreatePCs
  <2>3. CASE LoadWallet
    <3>1. /\ memScanned' = dbScanned
          /\ UNCHANGED <<birth, dbScanned, recorded, passed, thread>>
      BY <2>3 DEF LoadWallet
    <3>2. \A t \in Threads : thread[t].pc = "idle"
      BY <1>0, <2>3 DEF LoadWallet, TakesTurns
    <3> QED
      BY <1>0, <1>4, <3>1, <3>2, ThreadIds DEF NothingLost, SeenUpTo, Seen
  <2>4. CASE SetupClient
    <3>1. UNCHANGED <<birth, memScanned, dbScanned, recorded, passed>>
      BY <2>4 DEF SetupClient
    <3>2. /\ \A t \in Threads \ {Sync} : thread'[t] = thread[t]
          /\ thread'[Sync].pc = "count"
      BY <1>0, <2>4, ThreadIds DEF SetupClient, Go, StartTypeOK, Goroutines
    <3> QED
      BY <1>0, <1>4, <3>1, <3>2, ThreadIds DEF NothingLost, SeenUpTo, Seen
  <2>5. CASE SetClient \/ LoadTxFilter \/ CheckNew
    <3>1. UNCHANGED <<birth, memScanned, dbScanned, recorded, passed, thread>>
      BY <2>5 DEF SetClient, LoadTxFilter, CheckNew
    <3> QED
      BY <1>0, <1>4, <3>1 DEF NothingLost, SeenUpTo, Seen
  <2> QED
    BY <2>2, <2>3, <2>4, <2>5
<1>5. ASSUME InUse, Mine PROVE NothingLost'
  <2>1. UNCHANGED <<birth, memScanned, dbScanned, recorded, passed>>
    BY <1>5 DEF Mine
  <2>2. \A t \in Threads :
          thread'[t] = thread[t] \/ (t \in Notices /\ thread'[t].pc = "scan")
    BY <1>0, <1>5, NoticesTyped
  <2> QED
    BY <1>0, <1>5, <2>1, <2>2, ThreadIds DEF NothingLost, SeenUpTo, Seen
<1>6. ASSUME InUse, SyncStep \/ NoZeroMQ \/ Cancel \/ PollerStep, ~Exit PROVE NothingLost'
  <2>1. /\ UNCHANGED <<birth, memScanned, dbScanned, recorded, passed>>
        /\ \A t \in Threads : thread'[t].pc \in Holding => thread'[t] = thread[t]
    BY <1>0, <1>6, HandlersFrame
  <2> QED
    BY <1>0, <1>6, <2>1, ThreadIds DEF NothingLost, SeenUpTo, Seen, Holding
<1>7. ASSUME InUse, NEW t \in Threads, ScanStep(t), ~Exit PROVE NothingLost'
  BY <1>0, <1>7, ScanLosesNothing
<1>8. CASE UNCHANGED allPollVars
  BY <1>0, <1>8 DEF allPollVars, startVars, NothingLost, SeenUpTo, Seen, InUse
<1>9. ASSUME InUse, HandOut, birth # Nobody PROVE NothingLost'
  <2>1. UNCHANGED <<birth, memScanned, dbScanned, recorded, passed, thread>>
    BY <1>9 DEF HandOut
  <2> QED
    BY <1>0, <1>9, <2>1 DEF NothingLost, SeenUpTo, Seen
<1> QED
  BY <1>1, <1>2, <1>3, <1>4, <1>5, <1>6, <1>7, <1>8, <1>9, EndsWithExit, ThreadIds
  DEF PollNext, StartNext

\* Every step keeps the invariant.
LEMMA LossInvStep ==
  ASSUME InitHeight > Depth, PollInv, PollerInv, LossInv, [PollNext]_allPollVars
  PROVE  LossInv'
<1>1. starts \in Nat
  BY StartupAssumption DEF PollInv, PollTypeOK, StartTypeOK
<1> QED
  BY <1>1, StoredStep, CounterSetStep, NothingLostStep DEF LossInv

\* LoadWallet, Sync and the poller skip no block of a wallet in use, on a
\* chain of more than Depth blocks and if the start height was saved, with any
\* number of entries, starts and failures: a block after the first address
\* that counts as scanned is recorded, or a goroutine of a notification has
\* counted it (scan.go, scanMissingBlocks and scanBlock; setup.go, LoadWallet).
THEOREM NoticesAloneSkip == PollSafety => []OnlyNoticesSkip
<1>1. CASE InitHeight > Depth
  <2>1. InitHeight > 0
    BY <1>1, StartupAssumption
  <2>2. PollInit => PollerInv
    BY StartupAssumption, ThreadIds DEF PollInit, StartInit, PollerInv, NoThread
  <2>3. PollInit => LossInv
    BY StartupAssumption
    DEF PollInit, StartInit, LossInv, WalletStored, CounterSet, NothingLost,
        InUse, NoThread, CreatePCs, LoadPCs, Nobody
  <2>4. PollInv /\ PollerInv /\ [PollNext]_allPollVars => PollerInv'
    BY <2>1, PollerInvStep
  <2>5. PollInv /\ PollerInv /\ LossInv /\ [PollNext]_allPollVars => LossInv'
    BY <1>1, LossInvStep
  <2>6. LossInv => OnlyNoticesSkip
    BY DEF LossInv, NothingLost, OnlyNoticesSkip, Counters, InUse, Seen, SeenUpTo
  <2> QED
    BY <2>2, <2>3, <2>4, <2>5, <2>6, PollInvAlways, PTL DEF PollSafety
<1>2. CASE ~(InitHeight > Depth)
  <2>1. OnlyNoticesSkip
    BY <1>2 DEF OnlyNoticesSkip
  <2> QED
    BY <2>1, PTL
<1> QED
  BY <1>1, <1>2
=============================================================================
