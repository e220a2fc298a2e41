------------------------------ MODULE MCSpinMux ------------------------------
(***************************************************************************)
(* Constants for model-checking SpinMux.                                   *)
(***************************************************************************)
EXTENDS SpinMux

CONSTANTS m1, m2, m3

ThreeItems == {m1, m2, m3}
==============================================================================
