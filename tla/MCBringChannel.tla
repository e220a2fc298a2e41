--------------------------- MODULE MCBringChannel ---------------------------
(***************************************************************************)
(* Constants for model-checking BringChannel: lengths that differ between  *)
(* any two messages that can occupy the same slot one after the other.     *)
(***************************************************************************)
EXTENDS BringChannelInv

MCDataLen == [m \in 1..MaxMsgs |-> m % (MaxLen + 1)]
=============================================================================
