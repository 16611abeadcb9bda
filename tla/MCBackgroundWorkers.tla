-------------------------- MODULE MCBackgroundWorkers --------------------------
(* Instances of BackgroundWorkers for TLC. *)
EXTENDS BackgroundWorkers, TLC

CONSTANTS b1, b2, one

(* Two different batches with the same number of observations. *)
MCSizeOf == b1 :> one @@ b2 :> one
=============================================================================
