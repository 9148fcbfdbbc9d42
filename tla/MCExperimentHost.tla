-------------------------- MODULE MCExperimentHost --------------------------
(* Two failover tuples and one cnt for run_Q3B.py; two tuples each, with   *)
(* different variants, for the parallel-factor and ablation sweeps; every  *)
(* order of two invocations, a script repeated included.                   *)
EXTENDS ExperimentHost

MCQ3BParams == <<[P |-> 10, cnt |-> 1], [P |-> 90, cnt |-> 1]>>

MCPFParams ==
  <<[query |-> "Q5", parallel_factor |-> 1, state_open |-> 0, cnt |-> 1],
    [query |-> "Q6", parallel_factor |-> 2, state_open |-> 1, cnt |-> 1]>>

MCAblParams ==
  <<[query |-> "Q3", parallel_factor |-> 1, cnt |-> 1],
    [query |-> "Q3", parallel_factor |-> 8, cnt |-> 1]>>

MCOrders == {<<a, b>> : a, b \in Scripts}
=============================================================================
