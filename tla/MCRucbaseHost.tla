---------------------------- MODULE MCRucbaseHost ----------------------------
(* The configs list of run_theta_block.py (lines 86-90), thetas in         *)
(* millionths and progress as a percentage, the three runs of              *)
(* run_exp_1.py, and every order of one invocation of each script.        *)
EXTENDS RucbaseHost

MCTBConfigs == <<[theta |-> 0,      block |-> 500, progress |-> 40],
                 [theta |-> 100000, block |-> 500, progress |-> 40],
                 [theta |-> 500000, block |-> 500, progress |-> 40]>>

MCExp1Iters == 3

\* Every order of one invocation of each of the three scripts.
MCOrders == {o \in [1..3 -> Scripts] : \A x, y \in 1..3 : x # y => o[x] # o[y]}
=============================================================================
