------------------------------- MODULE Store -------------------------------
(***************************************************************************)
(* The bookkeeping that btcw keeps twice: in the fields of the Wallet      *)
(* struct, lost when the process dies, and in the bbolt database, which    *)
(* survives.  Every setter of wallet.go writes the database first and the  *)
(* field second; the two writes are separate steps here, because nothing   *)
(* in the code holds a lock across both.                                   *)
(*                                                                         *)
(* A UTXO record keeps the outpoint, the value and the Spent flag; the     *)
(* script and the derivation path never change after NewUTXO and no        *)
(* operation of this module reads them.                                    *)
(***************************************************************************)
EXTENDS Integers, Sequences, FiniteSets, FiniteSetsExt

VARIABLES
  memUtxos,     \* w.utxos, the in-memory slice
  memBalance,   \* w.balance
  memScanned,   \* w.lastScannedBlock
  dbUtxos,      \* bucket "utxos": a function from saved outpoints to records
  dbBalance,    \* bucket "wallet_metadata", key "balance"
  dbScanned     \* bucket "wallet_metadata", key "last_scanned_block"

memVars   == <<memUtxos, memBalance, memScanned>>
dbVars    == <<dbUtxos, dbBalance, dbScanned>>
storeVars == <<memUtxos, memBalance, memScanned, dbUtxos, dbBalance, dbScanned>>

-----------------------------------------------------------------------------
(* UTXO records. *)

UtxoRecords == [txid : Nat, vout : Nat, value : Int, spent : BOOLEAN]
Outpoints   == Nat \X Nat

\* GetOutpoint: the database key of a UTXO.
Outpoint(u) == <<u.txid, u.vout>>

\* NewUTXO: a record for output o, always created unspent.
NewUtxo(o) == [txid |-> o.txid, vout |-> o.vout, value |-> o.value, spent |-> FALSE]

-----------------------------------------------------------------------------
(* The two halves of each setter. *)

\* saveUTXO: Put overwrites whatever record the outpoint had before.
SaveUtxo(u) ==
  dbUtxos' = [o \in DOMAIN dbUtxos \cup {Outpoint(u)} |->
                IF o = Outpoint(u) THEN u ELSE dbUtxos[o]]

\* updateUTXO: Put only when the key exists, an error otherwise.
UpdateUtxo(u) ==
  /\ Outpoint(u) \in DOMAIN dbUtxos
  /\ dbUtxos' = [dbUtxos EXCEPT ![Outpoint(u)] = u]

\* addUTXO, second half: append under utxoMtx.
AppendUtxo(u) == memUtxos' = Append(memUtxos, u)

\* setBalance and setLastScannedBlock, database half and memory half.
SaveBalance(b) == dbBalance' = b
SetBalance(b)  == memBalance' = b
SaveScanned(h) == dbScanned' = h
SetScanned(h)  == memScanned' = h

\* The orders in which a cursor can list the bucket: keys are transaction
\* hashes, so any order of the records is possible.
CursorOrders(db) == Bijection(1 .. Cardinality(DOMAIN db), Range(db))

\* LoadWallet: the fields start from what the database holds.
LoadWallet ==
  /\ memUtxos' \in CursorOrders(dbUtxos)
  /\ memBalance' = dbBalance
  /\ memScanned' = dbScanned

-----------------------------------------------------------------------------
\* The total value of the unspent entries of a slice of UTXOs.
UnspentValue(s) ==
  SumFunction([i \in {j \in DOMAIN s : ~s[j].spent} |-> s[i].value])

StoreTypeOK ==
  /\ memUtxos \in Seq(UtxoRecords)
  /\ memBalance \in Int
  /\ memScanned \in Int
  /\ IsFiniteSet(DOMAIN dbUtxos)
  /\ DOMAIN dbUtxos \subseteq Outpoints
  /\ dbUtxos \in [DOMAIN dbUtxos -> UtxoRecords]
  /\ \A o \in DOMAIN dbUtxos : Outpoint(dbUtxos[o]) = o
  /\ dbBalance \in Int
  /\ dbScanned \in Int

\* addUTXO saves a UTXO before it appends it: every coin the wallet lists in
\* memory is in the database, so that no crash makes the wallet forget a coin
\* it has already shown.
AppendedIsSaved ==
  \A i \in DOMAIN memUtxos : Outpoint(memUtxos[i]) \in DOMAIN dbUtxos
=============================================================================
