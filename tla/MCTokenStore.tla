---------------------------- MODULE MCTokenStore ----------------------------
(***************************************************************************)
(* Instances of TokenStore.  Threads are alike, so they may be permuted    *)
(* wherever only safety is checked.                                        *)
(***************************************************************************)
EXTENDS TokenStore, TLC

CONSTANTS t1, t2, Real

Two == {t1, t2}
Either == Permutations(Two)
=============================================================================
