------------------------------- MODULE MCIndex ------------------------------
(***************************************************************************)
(* Instances of Index for TLC.  A B-tree of three levels has 31 keys or     *)
(* more, too many for all orders: either the first Few keys are inserted    *)
(* and removed in every order, or Many keys are inserted in steps of grow   *)
(* (modulo the prime Modulus), then all are removed in steps of shrink.     *)
(***************************************************************************)
EXTENDS Index

CONSTANTS Few, Many, Modulus, Strides

VARIABLES grow, shrink, step

plan == <<grow, shrink, step>>

MCKeys == 1 .. Modulus - 1

MCInit ==
  /\ Init
  /\ step = 0
  /\ \/ grow = 0 /\ shrink = 0
     \/ grow \in Strides /\ shrink \in Strides

AnyOrder ==
  /\ grow = 0
  /\ \E k \in 1 .. Few : InsertKey(k) \/ RemoveKey(k)
  /\ UNCHANGED plan

Grow ==
  /\ grow # 0 /\ step < Many
  /\ step' = step + 1
  /\ InsertKey((grow * step') % Modulus)
  /\ UNCHANGED <<grow, shrink>>

Shrink ==
  /\ grow # 0 /\ step \in Many .. Many + Modulus - 2
  /\ step' = step + 1
  /\ RemoveKey((shrink * (step' - Many)) % Modulus)
  /\ UNCHANGED <<grow, shrink>>

MCNext == AnyOrder \/ Grow \/ Shrink

MCSpec == MCInit /\ [][MCNext]_<<vars, plan>>
=============================================================================
