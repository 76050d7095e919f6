------------------------------ MODULE Polling ------------------------------
(***************************************************************************)
(* Bitcoin Core without ZeroMQ: SetupBitcoinCoreClient (nodeclient.go)     *)
(* starts a goroutine that receives one error, scanForNewBlocks (scan.go)  *)
(* one that polls.  The polling is bound to a context, and the goroutine   *)
(* that has made it cancels it when it returns, which it does at once.     *)
(* The poller sends on a channel without a buffer, of which one value is   *)
(* received at most.                                                       *)
(***************************************************************************)
EXTENDS Startup

VARIABLES
  cancelled,    \* the context is done
  receiver      \* err = <-errChan: "none", "waiting", "gotNil" or "gotErr"

pollVars    == <<cancelled, receiver>>
allPollVars == <<startVars, pollVars>>

Poll(pc) == Go(Poller, pc)

\* Without a process there is no poller; these variables start anew.
NoPolling == cancelled' = FALSE /\ receiver' = "none"

-----------------------------------------------------------------------------
(* The goroutine of SetupBitcoinCoreClient. *)

\* GetZmqNotifications fails or lists nothing: the receiver and the poller
\* are started.
NoZeroMQ ==
  /\ node = "core" /\ thread[Sync].pc = "subscribe" /\ thread[Sync].local = 0
  /\ thread' = [thread EXCEPT ![Sync] = [NoThread EXCEPT !.pc = "cancel"],
                              ![Poller].pc = "select"]
  /\ receiver' = "waiting"
  /\ UNCHANGED <<height, fileVars, shown, recorded, main, processVars, memScanned,
                 nodeVars, ghostVars, starts, faults, cancelled>>

\* Mutant: the context is cancelled only when the process ends.
NeverCancel ==
  /\ thread[Sync].pc = "cancel"
  /\ thread' = [thread EXCEPT ![Sync] = NoThread]
  /\ UNCHANGED <<height, fileVars, shown, recorded, main, processVars, memScanned,
                 nodeVars, ghostVars, starts, faults, pollVars>>

\* defer cancel(): the goroutine has nothing more to do.
Cancel ==
  /\ thread[Sync].pc = "cancel"
  /\ cancelled' = TRUE
  /\ thread' = [thread EXCEPT ![Sync] = NoThread]
  /\ UNCHANGED <<height, fileVars, shown, recorded, main, processVars, memScanned,
                 nodeVars, ghostVars, starts, faults, receiver>>

-----------------------------------------------------------------------------
(* The goroutine of scanForNewBlocks. *)

SelectDone ==
  /\ thread[Poller].pc = "select" /\ cancelled
  /\ Poll("sendNil")
  /\ UNCHANGED <<height, fileVars, shown, recorded, main, processVars, memScanned,
                 nodeVars, ghostVars, starts, faults, pollVars>>

\* Thirty seconds have passed.
SelectTick ==
  /\ thread[Poller].pc = "select"
  /\ Poll("count")
  /\ UNCHANGED <<height, fileVars, shown, recorded, main, processVars, memScanned,
                 nodeVars, ghostVars, starts, faults, pollVars>>

PollCounts ==
  /\ thread[Poller].pc = "count"
  /\ thread' = [thread EXCEPT ![Poller].pc = "loop", ![Poller].target = height]
  /\ UNCHANGED <<height, fileVars, shown, recorded, main, processVars, memScanned,
                 nodeVars, ghostVars, starts, faults, pollVars>>

PollCountFails ==
  /\ thread[Poller].pc = "count" /\ Fault
  /\ Poll("sendCount")
  /\ UNCHANGED <<height, fileVars, shown, recorded, main, processVars, memScanned,
                 nodeVars, ghostVars, starts, pollVars>>

\* GetBlockHash fails: the error is to be sent, and the loop goes on.
PollFetchFails ==
  /\ NoHash(Poller)
  /\ Poll("sendHash")
  /\ UNCHANGED <<height, fileVars, shown, recorded, main, processVars, memScanned,
                 nodeVars, ghostVars, starts, pollVars>>

\* errChan has no buffer: a send waits for the receiver, who takes one value.
Send(pc, got, next) ==
  /\ thread[Poller].pc = pc /\ receiver = "waiting"
  /\ receiver' = got
  /\ thread' = [thread EXCEPT ![Poller] = next]
  /\ UNCHANGED <<height, fileVars, shown, recorded, main, processVars, memScanned,
                 nodeVars, ghostVars, starts, faults, cancelled>>

\* Mutant: no return after errChan <- nil.
SendNilGoesOn == Send("sendNil", "gotNil", [NoThread EXCEPT !.pc = "select"])

\* After these two sends the poller returns.
SendNil == Send("sendNil", "gotNil", NoThread)

SendCount == Send("sendCount", "gotErr", NoThread)

\* Then scanBlock(nil) fails, and the loop takes its next turn.
SendHash == Send("sendHash", "gotErr", [thread[Poller] EXCEPT !.pc = "loop"])

PollerStep ==
  \/ SelectDone \/ SelectTick \/ PollCounts \/ PollCountFails \/ PollFetchFails
  \/ SendNil \/ SendCount \/ SendHash

-----------------------------------------------------------------------------
\* The steps of Startup leave the polling alone, until the process ends.
PollingGoesOn == IF main' = "off" THEN NoPolling ELSE UNCHANGED pollVars

PollInit == StartInit /\ cancelled = FALSE /\ receiver = "none"
PollNext ==
  \/ StartNext /\ PollingGoesOn
  \/ ScanStep(Poller) /\ PollingGoesOn
  \/ NoZeroMQ \/ Cancel \/ PollerStep

\* A goroutine goes on if it can, and the clock ticks.  Of two ready cases
\* select takes either, at random: one that is ready at every turn is taken
\* at last.
PollFairness ==
  /\ WF_allPollVars(Loading /\ PollingGoesOn)
  /\ WF_allPollVars((SyncStep \/ ScanStep(Sync)) /\ PollingGoesOn)
  /\ WF_allPollVars(NoZeroMQ \/ Cancel)
  /\ WF_allPollVars((\E t \in Notices : ScanStep(t)) /\ PollingGoesOn)
  /\ WF_allPollVars(ScanStep(Poller) /\ PollingGoesOn)
  /\ WF_allPollVars(PollerStep)
  /\ SF_allPollVars(SelectDone)

PollSafety == PollInit /\ [][PollNext]_allPollVars
PollSpec   == PollSafety /\ PollFairness

-----------------------------------------------------------------------------
(* Properties. *)

PollTypeOK ==
  /\ StartTypeOK
  /\ cancelled \in BOOLEAN
  /\ receiver \in {"none", "waiting", "gotNil", "gotErr"}

\* While the poller runs, in a wallet that LoadWallet has not taken for a new
\* one, the scan counter goes up by one block at a time, over blocks that are
\* recorded, and the database has it first: polling loses no block, whatever
\* fails.
PollAdvances ==
  [][ /\ thread[Poller].pc # "idle" /\ newStart = 0 /\ main' # "off"
      /\ memScanned' # memScanned
      => /\ memScanned' = memScanned + 1 /\ memScanned' \in recorded
         /\ dbScanned = memScanned' ]_allPollVars

\* A cancelled poller ends and leaves the receiver with nil, unless it had an
\* error to send before; a poller that has sent one may wait for ever for
\* somebody to receive the next.
PollerStops ==
  cancelled ~> thread[Poller].pc = "idle" \/ receiver = "gotErr"

-----------------------------------------------------------------------------
(* What the comments of the code promise and the code does not keep. *)

\* "if err with ZeroMQ notifcations, sync manually": a wallet that has no
\* notifications and fails in nothing sees a block that is mined, if it runs
\* on.
NewBlocksArePolled ==
  \A h \in 0 .. MaxHeight :
    thread[Poller].pc # "idle" /\ height = h ~> main = "off" \/ h \in recorded

\* scanForNewBlocks has one receiver in mind: a cancelled poller ends.  Not so
\* once it has sent an error: nobody takes the next one, or the nil of its end.
PollerEnds == cancelled ~> thread[Poller].pc = "idle"
=============================================================================
