--------------------------- MODULE KeyChainProofs ---------------------------
(* One HD chain of the wallet, for any number of addresses, failed writes  *)
(* and crashes.  The type of the state holds for calls that overlap; what  *)
(* the chain promises is proved for calls that come one at a time, and     *)
(* fails for calls that overlap (run KeysOverlapPath).                     *)
EXTENDS KeyChain, TLAPS

OneAtATime == \A c, d \in Clients : c = d

\* Put keeps maps from indices to indices.
LEMMA PutIndexMap ==
  ASSUME NEW map, IndexMap(map), NEW k \in Nat, NEW v \in Nat
  PROVE  IndexMap(Put(map, k, v))
  BY DEF IndexMap, Put

\* Every step keeps the type of the state, calls that overlap included.
LEMMA KeyStepTyped == KeyTypeOK /\ [KeyNext]_keyVars => KeyTypeOK'
<1> SUFFICES ASSUME KeyTypeOK, [KeyNext]_keyVars PROVE KeyTypeOK'
  OBVIOUS
<1> USE KeyChainAssumption DEF KeyTypeOK, CallPCs
<1>1. ASSUME NEW c \in Clients, Derive(c) PROVE KeyTypeOK'
  BY <1>1 DEF Derive
<1>2. ASSUME NEW c \in Clients, MakePath(c) PROVE KeyTypeOK'
  BY <1>2 DEF MakePath
<1>3. ASSUME NEW c \in Clients, SaveKey(c) PROVE KeyTypeOK'
  <2>1. call[c].path \in Nat /\ call[c].key \in Nat
    OBVIOUS
  <2>2. IndexMap(dbKeys')
    BY <1>3, <2>1, PutIndexMap DEF SaveKey
  <2> QED
    BY <1>3, <2>2 DEF SaveKey, Step
<1>4. ASSUME NEW c \in Clients, SaveKeyFails(c) \/ SaveIdxFails(c)
      PROVE  KeyTypeOK'
  <2>1. keyFaults' \in Nat
    BY <1>4 DEF SaveKeyFails, SaveIdxFails, KeyFault
  <2>2. call' = [call EXCEPT ![c].pc = "idle"]
    BY <1>4 DEF SaveKeyFails, SaveIdxFails, Step
  <2> QED
    BY <1>4, <2>1, <2>2 DEF SaveKeyFails, SaveIdxFails
<1>5. ASSUME NEW c \in Clients, AddAddress(c) PROVE KeyTypeOK'
  <2>1. call[c].path \in Nat /\ call[c].key \in Nat
    OBVIOUS
  <2>2. IndexMap(memAddrs')
    BY <1>5, <2>1, PutIndexMap DEF AddAddress
  <2> QED
    BY <1>5, <2>2 DEF AddAddress, Step
<1>6. ASSUME NEW c \in Clients, ReadIdx(c) PROVE KeyTypeOK'
  <2>1. memIdx + 1 \in Nat
    OBVIOUS
  <2> QED
    BY <1>6, <2>1 DEF ReadIdx
<1>7. ASSUME NEW c \in Clients, SaveIdx(c) \/ SetIdx(c) PROVE KeyTypeOK'
  BY <1>7 DEF SaveIdx, SetIdx, Step
<1>8. ASSUME NEW c \in Clients, ReturnAddress(c) PROVE KeyTypeOK'
  <2>1. call[c].key \in Nat
    OBVIOUS
  <2>2. issued' \in Seq(Nat)
    BY <1>8, <2>1 DEF ReturnAddress
  <2> QED
    BY <1>8, <2>2 DEF ReturnAddress, Step
<1>9. CASE KeyRestart
  <2>1. memAddrs' \in LoadedAddrs(dbKeys) \/ UNCHANGED memAddrs
    BY <1>9 DEF KeyRestart
  <2>2. \A f \in LoadedAddrs(dbKeys) : IndexMap(f)
    BY DEF LoadedAddrs, Range, IndexMap
  <2>3. IndexMap(memAddrs')
    BY <2>1, <2>2
  <2> QED
    BY <1>9, <2>3 DEF KeyRestart, NoCall
<1>10. CASE UNCHANGED keyVars
  BY <1>10 DEF keyVars
<1> QED
  BY <1>1, <1>2, <1>3, <1>4, <1>5, <1>6, <1>7, <1>8, <1>9, <1>10
  DEF KeyNext, CallStep

\* The type of the state, for calls that overlap as well.
THEOREM KeyTyped == KeySafety => []KeyTypeOK
<1>1. KeyInit => KeyTypeOK
  BY KeyChainAssumption DEF KeyInit, KeyTypeOK, IndexMap, CallPCs, NoCall
<1> QED
  BY <1>1, KeyStepTyped, PTL DEF KeySafety

-----------------------------------------------------------------------------
(* The strengthening: what a call that is alone has read and written.      *)

Before == {"idle", "path", "save", "add", "readIdx", "saveIdx"}

\* The fields of the call agree with the index it started from.
CallRight ==
  \A c \in Clients :
    /\ call[c].pc \in Before => memIdx = dbIdx
    /\ call[c].pc \in Before \ {"idle"} => call[c].key = memIdx
    /\ call[c].pc \in Before \ {"idle", "path"} => call[c].path = memIdx
    /\ call[c].pc = "saveIdx" => call[c].idx = memIdx + 1
    /\ call[c].pc = "setIdx" => dbIdx = memIdx + 1 /\ call[c].idx = dbIdx
    /\ call[c].pc = "return" => memIdx = dbIdx
    /\ call[c].pc \in {"setIdx", "return"} => call[c].key + 1 = dbIdx

\* The key the call is about to count is stored, and its address is known.
CallStored ==
  \A c \in Clients :
    /\ call[c].pc \in {"add", "readIdx", "saveIdx"} => call[c].key \in DOMAIN dbKeys
    /\ Tracked /\ call[c].pc \in {"readIdx", "saveIdx"} => call[c].key \in DOMAIN memAddrs

\* The addresses the wallet looks for have their own paths, and those below
\* the stored index are all there.
AddressesRight ==
  Tracked => /\ \A a \in DOMAIN memAddrs : memAddrs[a] = a
             /\ 0 .. dbIdx - 1 \subseteq DOMAIN memAddrs

\* An address that was returned lies below the stored index, and below the
\* key of a call that has moved the index and not yet returned.
IssuedBelow ==
  \A i \in DOMAIN issued :
    /\ issued[i] < dbIdx
    /\ \A c \in Clients : call[c].pc \in {"setIdx", "return"} => issued[i] < call[c].key

KeyInv ==
  /\ KeyTypeOK /\ CallRight /\ CallStored
  /\ KeysInOrder /\ AddressesRight
  /\ IssuedBelow /\ FreshAddresses

\* An action of one call leaves the maps, the indices and the returned
\* addresses alone: what is said of them stays true.
LEMMA OnlyTheCallMoves ==
  ASSUME KeyInv, UNCHANGED <<memAddrs, dbIdx, dbKeys, issued>>
  PROVE  KeysInOrder' /\ AddressesRight' /\ FreshAddresses'
  BY DEF KeyInv, KeysInOrder, AddressesRight, FreshAddresses

\* Every step of calls that come one at a time keeps the strengthening.
LEMMA KeyStepInv ==
  ASSUME OneAtATime PROVE KeyInv /\ [KeyNext]_keyVars => KeyInv'
<1> SUFFICES ASSUME KeyInv, [KeyNext]_keyVars PROVE KeyInv'
  OBVIOUS
<1>1. KeyTypeOK'
  BY KeyStepTyped DEF KeyInv
<1>2. /\ memIdx \in Nat /\ dbIdx \in Nat /\ memIdx' \in Nat /\ dbIdx' \in Nat
      /\ issued \in Seq(Nat) /\ IndexMap(memAddrs) /\ IndexMap(dbKeys)
      /\ call \in [Clients -> [pc : CallPCs, key : Nat, path : Nat, idx : Nat]]
  BY <1>1 DEF KeyInv, KeyTypeOK
<1>3. ASSUME NEW c \in Clients, Derive(c) PROVE KeyInv'
  <2>1. /\ call[c].pc = "idle" /\ call'[c].pc = "path" /\ call'[c].key = memIdx
        /\ UNCHANGED <<memIdx, memAddrs, dbIdx, dbKeys, issued>>
    BY <1>2, <1>3 DEF Derive
  <2>2. CallRight' /\ CallStored' /\ IssuedBelow'
    BY <1>2, <2>1 DEF OneAtATime, KeyInv, CallRight, CallStored, IssuedBelow, Before
  <2> QED
    BY <1>1, <2>1, <2>2, OnlyTheCallMoves DEF KeyInv
<1>4. ASSUME NEW c \in Clients, MakePath(c) PROVE KeyInv'
  <2>1. /\ call[c].pc = "path" /\ call'[c].pc = "save"
        /\ call'[c].key = call[c].key /\ call'[c].path = memIdx
        /\ UNCHANGED <<memIdx, memAddrs, dbIdx, dbKeys, issued>>
    BY <1>2, <1>4 DEF MakePath
  <2>2. CallRight' /\ CallStored' /\ IssuedBelow'
    BY <1>2, <2>1 DEF OneAtATime, KeyInv, CallRight, CallStored, IssuedBelow, Before
  <2> QED
    BY <1>1, <2>1, <2>2, OnlyTheCallMoves DEF KeyInv
<1>5. ASSUME NEW c \in Clients, SaveKey(c) PROVE KeyInv'
  <2>1. /\ call[c].pc = "save" /\ call'[c].pc = "add"
        /\ call'[c].key = call[c].key /\ call'[c].path = call[c].path
        /\ dbKeys' = Put(dbKeys, call[c].path, call[c].key)
        /\ UNCHANGED <<memIdx, memAddrs, dbIdx, issued>>
    BY <1>2, <1>5 DEF SaveKey, Step
  <2>2. call[c].key = dbIdx /\ call[c].path = dbIdx
    BY <2>1 DEF KeyInv, CallRight, Before
  <2>3. CallRight' /\ IssuedBelow'
    BY <1>2, <2>1 DEF OneAtATime, KeyInv, CallRight, IssuedBelow, Before
  <2>4. CallStored'
    BY <2>1, <2>2 DEF OneAtATime, CallStored, Put
  <2>5. KeysInOrder'
    BY <1>2, <2>1, <2>2 DEF KeyInv, KeysInOrder, Put
  <2>6. AddressesRight' /\ FreshAddresses'
    BY <2>1 DEF KeyInv, AddressesRight, FreshAddresses
  <2> QED
    BY <1>1, <2>3, <2>4, <2>5, <2>6 DEF KeyInv
<1>6. ASSUME NEW c \in Clients, SaveKeyFails(c) \/ SaveIdxFails(c) PROVE KeyInv'
  <2>1. /\ call[c].pc \in {"save", "saveIdx"} /\ call'[c].pc = "idle"
        /\ UNCHANGED <<memIdx, memAddrs, dbIdx, dbKeys, issued>>
    BY <1>2, <1>6 DEF SaveKeyFails, SaveIdxFails, Step
  <2>2. CallRight' /\ CallStored' /\ IssuedBelow'
    BY <1>2, <2>1 DEF OneAtATime, KeyInv, CallRight, CallStored, IssuedBelow, Before
  <2> QED
    BY <1>1, <2>1, <2>2, OnlyTheCallMoves DEF KeyInv
<1>7. ASSUME NEW c \in Clients, AddAddress(c) PROVE KeyInv'
  <2>1. /\ call[c].pc = "add" /\ call'[c].pc = "readIdx"
        /\ call'[c].key = call[c].key /\ call'[c].path = call[c].path
        /\ Tracked => memAddrs' = Put(memAddrs, call[c].key, call[c].path)
        /\ UNCHANGED <<memIdx, dbIdx, dbKeys, issued>>
    BY <1>2, <1>7 DEF AddAddress, Step
  <2>2. call[c].key = dbIdx /\ call[c].path = dbIdx
    BY <2>1 DEF KeyInv, CallRight, Before
  <2>3. CallRight' /\ IssuedBelow'
    BY <1>2, <2>1 DEF OneAtATime, KeyInv, CallRight, IssuedBelow, Before
  <2>4. CallStored'
    BY <2>1 DEF OneAtATime, KeyInv, CallStored, Put
  <2>5. AddressesRight'
    BY <2>1, <2>2 DEF KeyInv, AddressesRight, Put
  <2>6. KeysInOrder' /\ FreshAddresses'
    BY <2>1 DEF KeyInv, KeysInOrder, FreshAddresses
  <2> QED
    BY <1>1, <2>3, <2>4, <2>5, <2>6 DEF KeyInv
<1>8. ASSUME NEW c \in Clients, ReadIdx(c) PROVE KeyInv'
  <2>1. /\ call[c].pc = "readIdx" /\ call'[c].pc = "saveIdx"
        /\ call'[c].key = call[c].key /\ call'[c].path = call[c].path
        /\ call'[c].idx = memIdx + 1
        /\ UNCHANGED <<memIdx, memAddrs, dbIdx, dbKeys, issued>>
    BY <1>2, <1>8 DEF ReadIdx
  <2>2. CallRight' /\ CallStored' /\ IssuedBelow'
    BY <1>2, <2>1 DEF OneAtATime, KeyInv, CallRight, CallStored, IssuedBelow, Before
  <2> QED
    BY <1>1, <2>1, <2>2, OnlyTheCallMoves DEF KeyInv
<1>9. ASSUME NEW c \in Clients, SaveIdx(c) PROVE KeyInv'
  <2>1. /\ call[c].pc = "saveIdx" /\ call'[c].pc = "setIdx"
        /\ call'[c].key = call[c].key /\ call'[c].idx = call[c].idx
        /\ dbIdx' = call[c].idx
        /\ UNCHANGED <<memIdx, memAddrs, dbKeys, issued>>
    BY <1>2, <1>9 DEF SaveIdx, Step
  <2>2. call[c].key = dbIdx /\ memIdx = dbIdx /\ dbIdx' = dbIdx + 1
    BY <2>1 DEF KeyInv, CallRight, Before
  <2>3. /\ call[c].key \in DOMAIN dbKeys
        /\ Tracked => call[c].key \in DOMAIN memAddrs
    BY <2>1 DEF KeyInv, CallStored
  <2>4. CallRight' /\ CallStored'
    BY <1>2, <2>1, <2>2 DEF OneAtATime, CallRight, CallStored, Before
  <2>5. KeysInOrder'
    BY <1>2, <2>1, <2>2, <2>3 DEF KeyInv, KeysInOrder, IndexMap
  <2>6. AddressesRight'
    BY <1>2, <2>1, <2>2, <2>3 DEF KeyInv, AddressesRight
  <2>7. IssuedBelow'
    BY <1>2, <2>1, <2>2 DEF OneAtATime, KeyInv, IssuedBelow
  <2>8. FreshAddresses'
    BY <2>1 DEF KeyInv, FreshAddresses
  <2> QED
    BY <1>1, <2>4, <2>5, <2>6, <2>7, <2>8 DEF KeyInv
<1>10. ASSUME NEW c \in Clients, SetIdx(c) PROVE KeyInv'
  <2>1. /\ call[c].pc = "setIdx" /\ call'[c].pc = "return"
        /\ call'[c].key = call[c].key /\ memIdx' = call[c].idx
        /\ UNCHANGED <<memAddrs, dbIdx, dbKeys, issued>>
    BY <1>2, <1>10 DEF SetIdx, Step
  <2>2. CallRight' /\ CallStored' /\ IssuedBelow'
    BY <1>2, <2>1 DEF OneAtATime, KeyInv, CallRight, CallStored, IssuedBelow, Before
  <2> QED
    BY <1>1, <2>1, <2>2, OnlyTheCallMoves DEF KeyInv
<1>11. ASSUME NEW c \in Clients, ReturnAddress(c) PROVE KeyInv'
  <2>1. /\ call[c].pc = "return" /\ call'[c].pc = "idle"
        /\ issued' = Append(issued, call[c].key)
        /\ UNCHANGED <<memIdx, memAddrs, dbIdx, dbKeys>>
    BY <1>2, <1>11 DEF ReturnAddress, Step
  <2>2. /\ call[c].key \in Nat /\ call[c].key + 1 = dbIdx /\ memIdx = dbIdx
        /\ \A i \in DOMAIN issued : issued[i] < call[c].key
    BY <1>2, <2>1 DEF KeyInv, CallRight, IssuedBelow
  <2>3. /\ DOMAIN issued = 1 .. Len(issued) /\ DOMAIN issued' = 1 .. Len(issued) + 1
        /\ \A i \in DOMAIN issued : issued'[i] = issued[i] /\ issued[i] \in Nat
        /\ issued'[Len(issued) + 1] = call[c].key /\ Len(issued) \in Nat
    BY <1>2, <2>1, <2>2
  <2>4. CallRight' /\ CallStored'
    BY <2>1, <2>2 DEF OneAtATime, CallRight, CallStored, Before
  <2>5. IssuedBelow'
    BY <1>2, <2>1, <2>2, <2>3 DEF OneAtATime, IssuedBelow
  <2>6. FreshAddresses'
    BY <2>2, <2>3 DEF KeyInv, FreshAddresses
  <2>7. KeysInOrder' /\ AddressesRight'
    BY <2>1 DEF KeyInv, KeysInOrder, AddressesRight
  <2> QED
    BY <1>1, <2>4, <2>5, <2>6, <2>7 DEF KeyInv
<1>12. CASE KeyRestart
  <2>1. /\ memIdx' = dbIdx /\ UNCHANGED <<dbIdx, dbKeys, issued>>
        /\ \A c \in Clients : call'[c].pc = "idle"
        /\ Tracked => memAddrs' \in LoadedAddrs(dbKeys)
    BY <1>12 DEF KeyRestart, NoCall
  <2>2. CallRight' /\ CallStored' /\ IssuedBelow'
    BY <1>2, <2>1 DEF KeyInv, CallRight, CallStored, IssuedBelow, Before
  <2>3. KeysInOrder' /\ FreshAddresses'
    BY <2>1 DEF KeyInv, KeysInOrder, FreshAddresses
  <2>4. AddressesRight'
    <3> SUFFICES ASSUME Tracked
                 PROVE  /\ \A a \in DOMAIN memAddrs' : memAddrs'[a] = a
                        /\ 0 .. dbIdx' - 1 \subseteq DOMAIN memAddrs'
      BY DEF AddressesRight
    <3>1. \A p \in DOMAIN dbKeys : dbKeys[p] = p
      BY DEF KeyInv, KeysInOrder
    <3>2. Range(dbKeys) = DOMAIN dbKeys
      BY <3>1 DEF Range
    <3>3. /\ memAddrs' \in [DOMAIN dbKeys -> DOMAIN dbKeys]
          /\ \A a \in DOMAIN dbKeys : dbKeys[memAddrs'[a]] = a
      BY <2>1, <3>2 DEF LoadedAddrs
    <3>4. 0 .. dbIdx' - 1 \subseteq DOMAIN dbKeys
      BY <2>1 DEF KeyInv, KeysInOrder
    <3> QED
      BY <3>1, <3>3, <3>4
  <2> QED
    BY <1>1, <2>2, <2>3, <2>4 DEF KeyInv
<1>13. CASE UNCHANGED keyVars
  <2>1. UNCHANGED <<memIdx, memAddrs, dbIdx, dbKeys, call, issued>>
    BY <1>13 DEF keyVars
  <2>2. CallRight' /\ CallStored' /\ IssuedBelow'
    BY <2>1 DEF KeyInv, CallRight, CallStored, IssuedBelow
  <2> QED
    BY <1>1, <2>1, <2>2, OnlyTheCallMoves DEF KeyInv
<1> QED
  BY <1>3, <1>4, <1>5, <1>6, <1>7, <1>8, <1>9, <1>10, <1>11, <1>12, <1>13
  DEF KeyNext, CallStep

LEMMA KeyInvariant == ASSUME OneAtATime PROVE KeySafety => []KeyInv
<1>1. KeyInit => KeyInv
  <2> SUFFICES ASSUME KeyInit PROVE KeyInv
    OBVIOUS
  <2>1. KeyTypeOK
    BY KeyChainAssumption DEF KeyInit, KeyTypeOK, IndexMap, CallPCs, NoCall
  <2>2. /\ memIdx = 0 /\ dbIdx = 0
        /\ DOMAIN memAddrs = {} /\ DOMAIN dbKeys = {} /\ DOMAIN issued = {}
        /\ \A c \in Clients : call[c].pc = "idle"
    BY DEF KeyInit, NoCall
  <2> QED
    BY <2>1, <2>2 DEF KeyInv, CallRight, CallStored, Before, KeysInOrder,
       AddressesRight, IssuedBelow, FreshAddresses
<1>2. KeyInv /\ [KeyNext]_keyVars => KeyInv'
  BY KeyStepInv
<1> QED
  BY <1>1, <1>2, PTL DEF KeySafety

\* GetNewAddress and the change address: calls that come one at a time never
\* hand out an address twice, whatever fails and whenever the process dies.
THEOREM AddressesAreFresh == ASSUME OneAtATime PROVE KeySafety => []FreshAddresses
<1>1. KeyInv => FreshAddresses
  BY DEF KeyInv
<1> QED
  BY <1>1, KeyInvariant, PTL

\* saveKeyPair and the setters of the index, for calls that come one at a
\* time: the stored keys are the first keys of the chain, each under its own
\* path.  net/rpc does not keep calls apart, and two that overlap break this.
THEOREM KeysStayInOrder == ASSUME OneAtATime PROVE KeySafety => []KeysInOrder
<1>1. KeyInv => KeysInOrder
  BY DEF KeyInv
<1> QED
  BY <1>1, KeyInvariant, PTL

\* addKey and loadExternalAddresses, for calls that come one at a time, which
\* net/rpc does not guarantee: the wallet finds payments to every address it
\* has handed out and has the key to spend them.  Calls that overlap break it.
THEOREM IssuedStayRecoverable ==
  ASSUME OneAtATime PROVE KeySafety => []IssuedRecoverable
<1>1. KeyInv => IssuedRecoverable
  <2> SUFFICES ASSUME KeyInv, NEW i \in DOMAIN issued
               PROVE  /\ issued[i] \in DOMAIN dbKeys
                      /\ dbKeys[issued[i]] = issued[i]
                      /\ Tracked => /\ issued[i] \in DOMAIN memAddrs
                                    /\ memAddrs[issued[i]] = issued[i]
    BY DEF IssuedRecoverable
  <2>1. issued[i] \in Nat /\ dbIdx \in Nat
    BY DEF KeyInv, KeyTypeOK
  <2>2. issued[i] \in 0 .. dbIdx - 1
    BY <2>1 DEF KeyInv, IssuedBelow
  <2> QED
    BY <2>2 DEF KeyInv, KeysInOrder, AddressesRight
<1> QED
  BY <1>1, KeyInvariant, PTL

-----------------------------------------------------------------------------
\* The step of the issuer that a step of the chain is.
IssuerStep == [Issuer!Count \/ Issuer!HandOver]_(Issuer!issuerVars)

LEMMA KeyStepIssues == ASSUME OneAtATime PROVE KeyInv /\ [KeyNext]_keyVars => IssuerStep
<1> SUFFICES ASSUME KeyInv, [KeyNext]_keyVars PROVE IssuerStep
  OBVIOUS
<1>1. /\ dbIdx \in Nat /\ memIdx \in Nat /\ issued \in Seq(Nat)
      /\ call \in [Clients -> [pc : CallPCs, key : Nat, path : Nat, idx : Nat]]
  BY DEF KeyInv, KeyTypeOK
<1>2. ASSUME NEW c \in Clients, SaveIdx(c) PROVE Issuer!Count
  <2>1. call[c].pc = "saveIdx" /\ dbIdx' = call[c].idx /\ UNCHANGED issued
    BY <1>2 DEF SaveIdx
  <2>2. call[c].idx = dbIdx + 1
    BY <2>1 DEF KeyInv, CallRight, Before
  <2> QED
    BY <2>1, <2>2 DEF Issuer!Count
<1>3. ASSUME NEW c \in Clients, ReturnAddress(c) PROVE Issuer!HandOver
  <2>1. /\ call[c].pc = "return" /\ UNCHANGED dbIdx
        /\ issued' = Append(issued, call[c].key)
    BY <1>3 DEF ReturnAddress
  <2>2. call[c].key = dbIdx - 1
    BY <1>1, <2>1 DEF KeyInv, CallRight
  <2>3. \A i \in DOMAIN issued : issued[i] < dbIdx - 1
    BY <2>1, <2>2 DEF KeyInv, IssuedBelow
  <2> QED
    BY <2>1, <2>2, <2>3 DEF Issuer!HandOver
<1>4. ASSUME NEW c \in Clients,
             \/ Derive(c) \/ MakePath(c) \/ SaveKey(c) \/ SaveKeyFails(c)
             \/ AddAddress(c) \/ ReadIdx(c) \/ SaveIdxFails(c) \/ SetIdx(c)
      PROVE  UNCHANGED <<dbIdx, issued>>
  BY <1>4 DEF Derive, MakePath, SaveKey, SaveKeyFails, AddAddress, ReadIdx,
     SaveIdxFails, SetIdx
<1>5. KeyRestart \/ UNCHANGED keyVars => UNCHANGED <<dbIdx, issued>>
  BY DEF KeyRestart, keyVars
<1> QED
  BY <1>2, <1>3, <1>4, <1>5 DEF KeyNext, CallStep, IssuerStep, Issuer!issuerVars

\* A chain whose calls come one at a time implements AddressIssuer, whatever
\* fails and whenever the process dies.
THEOREM ChainKeepsOrder == ASSUME OneAtATime PROVE KeySafety => KeepsOrder
<1>1. KeyInit => Issuer!IssuerInit
  BY DEF KeyInit, Issuer!IssuerInit
<1> QED
  BY <1>1, KeyStepIssues, KeyInvariant, PTL
  DEF KeySafety, KeepsOrder, Issuer!IssuerSpec, IssuerStep
=============================================================================
