---------------------------- MODULE MCWalletLock ----------------------------
(* A duration that is over at once, one that is zero and two real ones. *)
EXTENDS WalletLock
CONSTANTS c1, c2, s1
OneCall      == {c1}
TwoCalls     == {c1, c2}
OneSend      == {s1}
FewDurations == {-2, 0, 1, 2}
=============================================================================
