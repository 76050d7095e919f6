-------------------------- MODULE WalletLockProofs --------------------------
(* The lock of the wallet, for any number of calls, sends and unlocks and  *)
(* for any durations.                                                      *)
EXTENDS WalletLock, TLAPS

LockInv == LockTypeOK /\ RelockScheduled

\* LockInit establishes the type of the state.
LEMMA LockInitTyped == LockInit => LockTypeOK
  BY WalletLockAssumption
  DEF LockInit, LockTypeOK, NoRequest, Gone, Unlocks

\* Every step keeps the type of the state.
LEMMA LockStepTyped == LockTypeOK /\ [LockNext]_lockVars => LockTypeOK'
<1> SUFFICES ASSUME LockTypeOK, [LockNext]_lockVars PROVE LockTypeOK'
  OBVIOUS
<1> USE WalletLockAssumption
<1>1. ASSUME NEW c \in Calls, NEW d \in Durations, AcceptPassphrase(c, d)
      PROVE  LockTypeOK'
  BY <1>1 DEF LockTypeOK, AcceptPassphrase, Unlocks
<1>2. ASSUME NEW c \in Calls, ClearLocked(c) PROVE LockTypeOK'
  BY <1>2 DEF LockTypeOK, ClearLocked
<1>3. ASSUME NEW c \in Calls, GoSleep(c) PROVE LockTypeOK'
  BY <1>3 DEF LockTypeOK, GoSleep, SleepTime, NoRequest
<1>4. ASSUME NEW u \in Unlocks, Wake(u) PROVE LockTypeOK'
  BY <1>4 DEF LockTypeOK, Wake
<1>5. ASSUME NEW s \in Sends, PassLock(s) \/ FinishSend(s) PROVE LockTypeOK'
  BY <1>5 DEF LockTypeOK, PassLock, FinishSend
<1>6. CASE Tick
  BY <1>6 DEF LockTypeOK, Tick, Gone
<1>7. CASE LockNow
  BY <1>7 DEF LockTypeOK, LockNow, Unlocks
<1>8. CASE Restart
  BY <1>8 DEF LockTypeOK, Restart, NoRequest, Gone, Unlocks
<1>9. CASE UNCHANGED lockVars
  BY <1>9 DEF LockTypeOK, lockVars
<1> QED
  BY <1>1, <1>2, <1>3, <1>4, <1>5, <1>6, <1>7, <1>8, <1>9 DEF LockNext

\* A goroutine that will lock is given up only by the step that locks.
LEMMA LockStepRelocks ==
  LockTypeOK /\ RelockScheduled /\ [LockNext]_lockVars => RelockScheduled'
<1> SUFFICES ASSUME LockTypeOK, RelockScheduled, [LockNext]_lockVars, ~locked'
             PROVE  RelockPending'
  BY DEF RelockScheduled
<1> USE DEF LockTypeOK, RelockScheduled, RelockPending
<1>1. ASSUME NEW c \in Calls, NEW d \in Durations, AcceptPassphrase(c, d)
      PROVE  RelockPending'
  BY <1>1 DEF AcceptPassphrase
<1>2. ASSUME NEW c \in Calls, ClearLocked(c) PROVE RelockPending'
  BY <1>2 DEF ClearLocked
<1>3. ASSUME NEW c \in Calls, GoSleep(c) PROVE RelockPending'
  <2>1. passphrase[c].number \in Unlocks
    BY <1>3 DEF GoSleep
  <2>2. SleepTime(passphrase[c].duration) # Gone
    BY DEF SleepTime, Gone
  <2> QED
    BY <1>3, <2>1, <2>2 DEF GoSleep
<1>4. ASSUME NEW s \in Sends, PassLock(s) \/ FinishSend(s) PROVE RelockPending'
  BY <1>4 DEF PassLock, FinishSend
<1>5. CASE Tick
  <2>1. \A u \in Unlocks : sleep[u] # Gone => sleep'[u] # Gone
    BY <1>5 DEF Tick, Gone
  <2> QED
    BY <1>5, <2>1 DEF Tick
<1>6. CASE UNCHANGED lockVars
  BY <1>6 DEF lockVars
<1> QED
  BY <1>1, <1>2, <1>3, <1>4, <1>5, <1>6 DEF LockNext, Wake, LockNow, Restart

LEMMA LockInvariant == LockSafety => []LockInv
<1>1. LockInit => LockInv
  BY LockInitTyped
  DEF LockInit, LockInv, RelockScheduled
<1>2. LockInv /\ [LockNext]_lockVars => LockInv'
  BY LockStepTyped, LockStepRelocks DEF LockInv
<1> QED
  BY <1>1, <1>2, PTL DEF LockSafety

\* The state of the lock keeps its type (wallet.go, rpc.go).
THEOREM LockTyped == LockSafety => []LockTypeOK
<1>1. LockInv => LockTypeOK
  BY DEF LockInv
<1> QED
  BY <1>1, LockInvariant, PTL

\* However calls, wake-ups, locks and restarts interleave, a wallet that is
\* unlocked has a goroutine under way that will lock it (wallet.go, unlock).
THEOREM RelockAlways == LockSafety => []RelockScheduled
<1>1. LockInv => RelockScheduled
  BY DEF LockInv
<1> QED
  BY <1>1, LockInvariant, PTL
=============================================================================
