---------------------------- MODULE MCDeliveries ----------------------------
(***************************************************************************)
(* Instances of Deliveries.  One position has a tolerance of a half, so an *)
(* odd quantity shows how it is rounded; another, where there is one, may  *)
(* receive anything.                                                       *)
(***************************************************************************)
EXTENDS Deliveries, TLC

CONSTANTS o1, o2, i1, i2, Anything, Missing

AHalf == (i1 :> 500)
AHalfAndAny == (i1 :> 500 @@ i2 :> Anything)
None == (i1 :> 0)

OrdersAlike == Permutations({o1, o2})
=============================================================================
