----------------------------- MODULE WalletLock -----------------------------
(***************************************************************************)
(* The lock of the wallet: WalletPassphrase, WalletLock and the check of   *)
(* SendToAddress (wallet/rpc.go) on the field w.locked (wallet/wallet.go). *)
(* An accepted passphrase clears the field and starts a goroutine that     *)
(* sleeps for the duration asked for and locks.  No goroutine is ever      *)
(* stopped, and none knows of the others.  A refused passphrase changes    *)
(* nothing and is not a step.                                              *)
(***************************************************************************)
EXTENDS Integers

CONSTANTS
  Calls,        \* WalletPassphrase calls that can run at a time
  Sends,        \* SendToAddress calls that can run at a time
  Durations,    \* durations a client asks for; the server takes any
  MaxUnlocks,   \* bound: passphrases accepted in one run of the program
  MaxStarts     \* bound: restarts of the program

ASSUME WalletLockAssumption ==
  Durations \subseteq Int /\ MaxUnlocks \in Nat /\ MaxStarts \in Nat

VARIABLES
  locked,       \* w.locked
  passphrase,   \* the WalletPassphrase calls: [pc, duration, number]
  sleep,        \* the goroutines of unlock by number: time left, or Gone
  accepted,     \* passphrases accepted since the program started
  send,         \* the SendToAddress calls: "idle" or "past" the check
  lockCalls,    \* ghost: the unlocks after which WalletLock was called
  starts

lockVars == <<locked, passphrase, sleep, accepted, send, lockCalls, starts>>

Gone      == -1
Unlocks   == 1 .. MaxUnlocks
NoRequest == [pc |-> "idle", duration |-> 0, number |-> 0]

\* Mutant: a duration below zero never runs out.
SleepTimeAsGiven(d) == d

\* time.Sleep returns at once for a duration that is zero or negative.
SleepTime(d) == IF d > 0 THEN d ELSE 0

-----------------------------------------------------------------------------
\* VerifyPassphrase accepts.
AcceptPassphrase(c, d) ==
  /\ passphrase[c].pc = "idle" /\ accepted < MaxUnlocks
  /\ accepted' = accepted + 1
  /\ passphrase' = [passphrase EXCEPT
                      ![c] = [pc |-> "unlock", duration |-> d, number |-> accepted + 1]]
  /\ UNCHANGED <<locked, sleep, send, lockCalls, starts>>

\* unlock: the field, then the goroutine.
ClearLocked(c) ==
  /\ passphrase[c].pc = "unlock"
  /\ locked' = FALSE
  /\ passphrase' = [passphrase EXCEPT ![c].pc = "go"]
  /\ UNCHANGED <<sleep, accepted, send, lockCalls, starts>>

\* Mutant: no goroutine for a duration that is not positive.
GoSleepPositive(c) ==
  /\ passphrase[c].pc = "go"
  /\ sleep' = IF passphrase[c].duration > 0
              THEN [sleep EXCEPT ![passphrase[c].number] = passphrase[c].duration]
              ELSE sleep
  /\ passphrase' = [passphrase EXCEPT ![c] = NoRequest]
  /\ UNCHANGED <<locked, accepted, send, lockCalls, starts>>

GoSleep(c) ==
  /\ passphrase[c].pc = "go"
  /\ sleep' = [sleep EXCEPT ![passphrase[c].number] = SleepTime(passphrase[c].duration)]
  /\ passphrase' = [passphrase EXCEPT ![c] = NoRequest]
  /\ UNCHANGED <<locked, accepted, send, lockCalls, starts>>

Tick ==
  /\ \E u \in Unlocks : sleep[u] > 0
  /\ sleep' = [u \in Unlocks |-> IF sleep[u] > 0 THEN sleep[u] - 1 ELSE sleep[u]]
  /\ UNCHANGED <<locked, passphrase, accepted, send, lockCalls, starts>>

\* Mutant: a goroutine leaves the field alone once another passphrase was
\* accepted, also when the goroutine of that one is gone.
WakeLast(u) ==
  /\ sleep[u] = 0
  /\ locked' = (locked \/ ~ \E v \in Unlocks \ {u} : v <= accepted)
  /\ sleep' = [sleep EXCEPT ![u] = Gone]
  /\ UNCHANGED <<passphrase, accepted, send, lockCalls, starts>>

\* The goroutine wakes, some time after its time is over, and locks.
Wake(u) ==
  /\ sleep[u] = 0
  /\ locked' = TRUE
  /\ sleep' = [sleep EXCEPT ![u] = Gone]
  /\ UNCHANGED <<passphrase, accepted, send, lockCalls, starts>>

LockNow ==
  /\ locked' = TRUE
  /\ lockCalls' = 1 .. accepted
  /\ UNCHANGED <<passphrase, sleep, accepted, send, starts>>

\* SendToAddress looks at the lock once, when it begins.
PassLock(s) ==
  /\ send[s] = "idle" /\ ~locked
  /\ send' = [send EXCEPT ![s] = "past"]
  /\ UNCHANGED <<locked, passphrase, sleep, accepted, lockCalls, starts>>

\* The transaction is signed and sent; the lock is not looked at again.
FinishSend(s) ==
  /\ send[s] = "past"
  /\ send' = [send EXCEPT ![s] = "idle"]
  /\ UNCHANGED <<locked, passphrase, sleep, accepted, lockCalls, starts>>

\* The program ends in any state; NewWallet starts locked.
Restart ==
  /\ starts < MaxStarts /\ starts' = starts + 1
  /\ locked' = TRUE
  /\ passphrase' = [c \in Calls |-> NoRequest]
  /\ sleep' = [u \in Unlocks |-> Gone]
  /\ accepted' = 0 /\ lockCalls' = {}
  /\ send' = [s \in Sends |-> "idle"]

LockInit ==
  /\ locked = TRUE
  /\ passphrase = [c \in Calls |-> NoRequest]
  /\ sleep = [u \in Unlocks |-> Gone]
  /\ accepted = 0 /\ lockCalls = {} /\ starts = 0
  /\ send = [s \in Sends |-> "idle"]

LockNext ==
  \/ \E c \in Calls : (\E d \in Durations : AcceptPassphrase(c, d)) \/ ClearLocked(c) \/ GoSleep(c)
  \/ \E u \in Unlocks : Wake(u)
  \/ \E s \in Sends : PassLock(s) \/ FinishSend(s)
  \/ Tick \/ LockNow \/ Restart

\* Time passes, a goroutine that is ready runs, and a call that was accepted
\* goes on.
LockSafety == LockInit /\ [][LockNext]_lockVars
LockSpec   ==
  /\ LockSafety /\ WF_lockVars(Tick)
  /\ \A u \in Unlocks : WF_lockVars(Wake(u))
  /\ \A c \in Calls : WF_lockVars(ClearLocked(c) \/ GoSleep(c))

-----------------------------------------------------------------------------
(* Properties. *)

LockTypeOK ==
  /\ locked \in BOOLEAN
  /\ passphrase \in [Calls -> [pc : {"idle", "unlock", "go"}, duration : Int,
                               number : 0 .. MaxUnlocks]]
  /\ \A c \in Calls : passphrase[c].pc # "idle" => passphrase[c].number \in Unlocks
  /\ sleep \in [Unlocks -> Nat \cup {Gone}]
  /\ accepted \in 0 .. MaxUnlocks /\ lockCalls \subseteq Unlocks
  /\ send \in [Sends -> {"idle", "past"}]
  /\ starts \in Nat

\* Some goroutine sleeps that will lock, or is about to be started.
RelockPending ==
  (\E u \in Unlocks : sleep[u] # Gone) \/ (\E c \in Calls : passphrase[c].pc = "go")

\* unlock/lock: however calls, wake-ups and WalletLock interleave, a wallet
\* that is unlocked has a goroutine under way that will lock it.
RelockScheduled == ~locked => RelockPending

\* The wallet does not stay unlocked.
LocksAgain == ~locked ~> locked

\* "provide duration (in seconds) to unlock wallet": until the goroutine of
\* an unlock has no time left the wallet is unlocked, but for a WalletLock.
UnlockLasts ==
  \A u \in Unlocks : sleep[u] > 0 /\ u \notin lockCalls => ~locked

\* A wallet that is locked signs nothing.  The code lacks it: a goroutine or
\* WalletLock may lock between the check of SendToAddress and the signing.
SignsUnlocked ==
  [][\A s \in Sends : FinishSend(s) => ~locked]_lockVars
=============================================================================
