-------------------------- MODULE MCThetaBlockSweep --------------------------
(* The configs list of run_theta_block.py (lines 86-90): thetas 0.0, 0.1   *)
(* and 0.5 in millionths, block 500, progress 0.4 as a percentage.         *)
EXTENDS ThetaBlockSweep

MCConfigs == <<[theta |-> 0,      block |-> 500, progress |-> 40],
               [theta |-> 100000, block |-> 500, progress |-> 40],
               [theta |-> 500000, block |-> 500, progress |-> 40]>>
=============================================================================
