--------------------------- MODULE AddressIssuer ---------------------------
(***************************************************************************)
(* What an HD chain promises to those who get its addresses: the addresses *)
(* are taken off a numbered stock, and only the one that was put on it     *)
(* last is ever handed out, once.  An address may be lost to a crash; none *)
(* comes back.  KeyChain implements this for calls that come one at a time.*)
(***************************************************************************)
EXTENDS Integers, Sequences

VARIABLES
  stock, \* the number of addresses that are counted, durably
  given  \* the addresses handed out, in order

issuerVars == <<stock, given>>

IssuerInit == stock = 0 /\ given = <<>>

Count == stock' = stock + 1 /\ UNCHANGED given

HandOver ==
  /\ \A i \in DOMAIN given : given[i] < stock - 1
  /\ given' = Append(given, stock - 1)
  /\ UNCHANGED stock

IssuerSpec == IssuerInit /\ [][Count \/ HandOver]_issuerVars
=============================================================================
