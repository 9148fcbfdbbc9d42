--------------------------- MODULE MCQ5ThetaSweep ---------------------------
(* Two thetas either side of the drain threshold, two failover points and  *)
(* the two cnts of the code: eight tuples, so variants are reused.         *)
EXTENDS Q5ThetaSweep

MCQueries == <<"Q5">>
MCThetas == <<"t0_3", "t100">>
MCFailover == <<10, 90>>
MCCnts == <<1, 2>>

\* A backup variant for theta 100 that was never generated.
MCMissingBack == {<<"back", "t100">>}
=============================================================================
