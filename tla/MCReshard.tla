----------------------------- MODULE MCReshard -----------------------------
(* Model checking of ReshardManager; the .cfg files choose the network.    *)
EXTENDS ReshardManager
=============================================================================
