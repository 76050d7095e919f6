------------------------------ MODULE KeyChain ------------------------------
(***************************************************************************)
(* One HD chain of the wallet: generateNewExternalKeyPair (GetNewAddress)  *)
(* and generateNewInternalKeyPair (the change address of a transaction) of *)
(* wallet/keys.go, with addKey, saveKeyPair and the setter of the chain's  *)
(* last index.  RPC calls run concurrently and the functions take no lock: *)
(* the field with the index is read three times in one call.               *)
(*                                                                         *)
(* The key at index n of the chain, its address and the derivation path    *)
(* that ends in n are all the number n here; which of the three is meant   *)
(* is said by the place it stands in.  The encryption of the stored key    *)
(* and the derivation of its bytes are external and keep keys apart.       *)
(***************************************************************************)
EXTENDS Integers, Sequences, FiniteSets, Functions

CONSTANTS
  Clients,      \* RPC calls that can run at a time
  Tracked,      \* the external chain: addresses enter w.addresses
  MaxIssued,    \* bound: addresses handed out
  MaxKeyFaults, \* bound: failed writes
  MaxRestarts   \* bound: crashes

ASSUME KeyChainAssumption ==
  /\ Tracked \in BOOLEAN
  /\ MaxIssued \in Nat /\ MaxKeyFaults \in Nat /\ MaxRestarts \in Nat

VARIABLES
  memIdx,       \* w.lastExternalIdx or w.lastInternalIdx
  memAddrs,     \* w.addresses: address -> path, for the external chain
  dbIdx,        \* the same index in bucket "wallet_metadata"
  dbKeys,       \* bucket "keys", this chain: path -> key
  call,         \* the calls: [pc, key, path, idx]
  issued,       \* the addresses returned so far, in order
  keyFaults, restarts

keyVars == <<memIdx, memAddrs, dbIdx, dbKeys, call, issued, keyFaults, restarts>>

CallPCs == {"idle", "path", "save", "add", "readIdx", "saveIdx", "setIdx", "return"}

KeyFault == keyFaults < MaxKeyFaults /\ keyFaults' = keyFaults + 1

\* Assignment to a map, and a Put of the database: a value that is there is
\* overwritten.
Put(map, k, v) == [x \in DOMAIN map \cup {k} |-> IF x = k THEN v ELSE map[x]]

Step(c, pc) == call' = [call EXCEPT ![c].pc = pc]

-----------------------------------------------------------------------------
(* One call, read by read and write by write. *)

\* DeriveNextHDKey(acct, w.lastExternalIdx) and newKeyPair.
Derive(c) ==
  /\ call[c].pc = "idle" /\ Len(issued) < MaxIssued
  /\ call' = [call EXCEPT ![c].pc = "path", ![c].key = memIdx]
  /\ UNCHANGED <<memIdx, memAddrs, dbIdx, dbKeys, issued, keyFaults, restarts>>

\* The path is formatted from the field as it is now.
MakePath(c) ==
  /\ call[c].pc = "path"
  /\ call' = [call EXCEPT ![c].pc = "save", ![c].path = memIdx]
  /\ UNCHANGED <<memIdx, memAddrs, dbIdx, dbKeys, issued, keyFaults, restarts>>

\* saveKeyPair: Put overwrites a key stored under the same path.
SaveKey(c) ==
  /\ call[c].pc = "save"
  /\ dbKeys' = Put(dbKeys, call[c].path, call[c].key)
  /\ Step(c, "add")
  /\ UNCHANGED <<memIdx, memAddrs, dbIdx, issued, keyFaults, restarts>>

\* Mutant: the error of saveKeyPair is ignored.
SaveKeyErrorIgnored(c) ==
  /\ call[c].pc = "save" /\ KeyFault
  /\ Step(c, "add")
  /\ UNCHANGED <<memIdx, memAddrs, dbIdx, dbKeys, issued, restarts>>

SaveKeyFails(c) ==
  /\ call[c].pc = "save" /\ KeyFault
  /\ Step(c, "idle")
  /\ UNCHANGED <<memIdx, memAddrs, dbIdx, dbKeys, issued, restarts>>

\* addKey, second half; keys of the internal chain are not tracked.
AddAddress(c) ==
  /\ call[c].pc = "add"
  /\ IF Tracked
     THEN memAddrs' = Put(memAddrs, call[c].key, call[c].path)
     ELSE UNCHANGED memAddrs
  /\ Step(c, "readIdx")
  /\ UNCHANGED <<memIdx, dbIdx, dbKeys, issued, keyFaults, restarts>>

\* Mutants: the index moves on by two; it moves down.
ReadIdxTwoOn(c) ==
  /\ call[c].pc = "readIdx"
  /\ call' = [call EXCEPT ![c].pc = "saveIdx", ![c].idx = memIdx + 2]
  /\ UNCHANGED <<memIdx, memAddrs, dbIdx, dbKeys, issued, keyFaults, restarts>>

ReadIdxDown(c) ==
  /\ call[c].pc = "readIdx"
  /\ call' = [call EXCEPT ![c].pc = "saveIdx", ![c].idx = memIdx - 1]
  /\ UNCHANGED <<memIdx, memAddrs, dbIdx, dbKeys, issued, keyFaults, restarts>>

\* newIdx := w.lastExternalIdx + 1, the third read of the field.
ReadIdx(c) ==
  /\ call[c].pc = "readIdx"
  /\ call' = [call EXCEPT ![c].pc = "saveIdx", ![c].idx = memIdx + 1]
  /\ UNCHANGED <<memIdx, memAddrs, dbIdx, dbKeys, issued, keyFaults, restarts>>

SaveIdx(c) ==
  /\ call[c].pc = "saveIdx"
  /\ dbIdx' = call[c].idx
  /\ Step(c, "setIdx")
  /\ UNCHANGED <<memIdx, memAddrs, dbKeys, issued, keyFaults, restarts>>

\* Mutant: the error of setLastExternalIdx is ignored.
SaveIdxErrorIgnored(c) ==
  /\ call[c].pc = "saveIdx" /\ KeyFault
  /\ Step(c, "return")
  /\ UNCHANGED <<memIdx, memAddrs, dbIdx, dbKeys, issued, restarts>>

\* The call returns an error, its key stays behind.
SaveIdxFails(c) ==
  /\ call[c].pc = "saveIdx" /\ KeyFault
  /\ Step(c, "idle")
  /\ UNCHANGED <<memIdx, memAddrs, dbIdx, dbKeys, issued, restarts>>

SetIdx(c) ==
  /\ call[c].pc = "setIdx"
  /\ memIdx' = call[c].idx
  /\ Step(c, "return")
  /\ UNCHANGED <<memAddrs, dbIdx, dbKeys, issued, keyFaults, restarts>>

ReturnAddress(c) ==
  /\ call[c].pc = "return"
  /\ issued' = Append(issued, call[c].key)
  /\ Step(c, "idle")
  /\ UNCHANGED <<memIdx, memAddrs, dbIdx, dbKeys, keyFaults, restarts>>

-----------------------------------------------------------------------------
\* loadExternalAddresses: each stored address with the path of one of the
\* records that hold it, namely the last one the cursor meets.
LoadedAddrs(keys) ==
  {f \in [Range(keys) -> DOMAIN keys] : \A a \in Range(keys) : keys[f[a]] = a}

NoCall == [pc |-> "idle", key |-> 0, path |-> 0, idx |-> 0]

\* Mutant: the index is counted from the stored keys, of which one may be
\* uncounted.
KeyRestartCountsKeys ==
  /\ restarts < MaxRestarts
  /\ memIdx' = Cardinality(DOMAIN dbKeys)
  /\ IF Tracked THEN memAddrs' \in LoadedAddrs(dbKeys) ELSE UNCHANGED memAddrs
  /\ call' = [c \in Clients |-> NoCall]
  /\ restarts' = restarts + 1
  /\ UNCHANGED <<dbIdx, dbKeys, issued, keyFaults>>

\* The process dies in any state and LoadWallet reads the database.
KeyRestart ==
  /\ restarts < MaxRestarts
  /\ memIdx' = dbIdx
  /\ IF Tracked THEN memAddrs' \in LoadedAddrs(dbKeys) ELSE UNCHANGED memAddrs
  /\ call' = [c \in Clients |-> NoCall]
  /\ restarts' = restarts + 1
  /\ UNCHANGED <<dbIdx, dbKeys, issued, keyFaults>>

KeyInit ==
  /\ memIdx = 0 /\ memAddrs = <<>> /\ dbIdx = 0 /\ dbKeys = <<>>
  /\ call = [c \in Clients |-> NoCall]
  /\ issued = <<>> /\ keyFaults = 0 /\ restarts = 0

CallStep(c) ==
  \/ MakePath(c) \/ SaveKey(c) \/ SaveKeyFails(c) \/ AddAddress(c) \/ ReadIdx(c)
  \/ SaveIdx(c) \/ SaveIdxFails(c) \/ SetIdx(c) \/ ReturnAddress(c)

KeyNext == (\E c \in Clients : Derive(c) \/ CallStep(c)) \/ KeyRestart

KeySafety == KeyInit /\ [][KeyNext]_keyVars

-----------------------------------------------------------------------------
(* Properties.  FreshAddresses, IssuedRecoverable, KeysInOrder and         *)
(* KeepsOrder are about calls that come one at a time.  net/rpc runs every *)
(* request in a goroutine of its own and serialises nothing: of calls that *)
(* overlap they are false, as KeyAtItsPath is.                             *)

IndexMap(map) == DOMAIN map \subseteq Nat /\ map \in [DOMAIN map -> Nat]

KeyTypeOK ==
  /\ memIdx \in Nat /\ dbIdx \in Nat
  /\ IndexMap(memAddrs) /\ IndexMap(dbKeys)
  /\ call \in [Clients -> [pc : CallPCs, key : Nat, path : Nat, idx : Nat]]
  /\ issued \in Seq(Nat)
  /\ keyFaults \in Nat /\ restarts \in Nat

\* While calls come one at a time no address is handed out twice: not after a
\* failed write, and not after a crash between the two writes of a call.
FreshAddresses == \A i, j \in DOMAIN issued : issued[i] = issued[j] => i = j

\* While calls come one at a time, payments to every address handed out are
\* found and can be spent: the wallet looks the address up, and its key is
\* stored where a lookup by path and a restart find it.
IssuedRecoverable ==
  \A i \in DOMAIN issued :
    /\ issued[i] \in DOMAIN dbKeys /\ dbKeys[issued[i]] = issued[i]
    /\ Tracked => issued[i] \in DOMAIN memAddrs /\ memAddrs[issued[i]] = issued[i]

\* While calls come one at a time the stored keys are the first keys of the
\* chain, without a gap, and at most one of them is ahead of the stored index:
\* the seed alone brings all of them back.
KeysInOrder ==
  /\ \A p \in DOMAIN dbKeys : dbKeys[p] = p /\ p <= dbIdx
  /\ 0 .. dbIdx - 1 \subseteq DOMAIN dbKeys

\* The promise of AddressIssuer, kept while calls come one at a time: the
\* durable index goes up by one, and an address is handed out while it is the
\* last one counted, and once.
Issuer == INSTANCE AddressIssuer WITH stock <- dbIdx, given <- issued

KeepsOrder == Issuer!IssuerSpec

\* "save newly generate key pair with derivation path as key": a key is
\* stored under its own path, also when calls overlap.
KeyAtItsPath == \A p \in DOMAIN dbKeys : dbKeys[p] = p
=============================================================================
