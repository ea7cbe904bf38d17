---------------------------- MODULE MCOverlayLock ----------------------------
(* Small instances of OverlayLock. *)
EXTENDS OverlayLock, TLC

CONSTANTS b1, b2, w1, old

MCClient == {b1, b2, w1}
MCWaiting == {w1}
Symmetric == Permutations({b1, b2})
=============================================================================
