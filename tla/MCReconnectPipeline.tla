------------------------ MODULE MCReconnectPipeline ------------------------
(* Two groups, two suspend buckets.  Group theta 0 has two failover runs   *)
(* (one per bucket), group theta 0.1 has one, and one more log of theta 0  *)
(* recorded a recovery but no reconnect time.  Every reconnect value is    *)
(* distinct, so a value identifies the log it came from.                   *)
EXTENDS ReconnectPipeline

MCThetas == <<0, 100000>>
MCBlocks == <<100>>
MCSuspend == <<40, 80>>

MCLogFiles == {"rw_server_0.000000_100_a", "rw_server_0.000000_100_b",
               "rw_server_0.000000_100_c", "rw_server_0.100000_100_a"}
MCLogGroup ==
  [f \in MCLogFiles |-> IF f = "rw_server_0.100000_100_a"
                        THEN <<100000, 100>> ELSE <<0, 100>>]
\* The log lines, written as literals: a constant defined through the
\* instances would depend on itself (LogLines is substituted into ER).
MCMeta == [kind |-> "meta"]
MCReconnect(us) == [kind |-> "reconnect", us |-> us]

MCLogLines ==
  "rw_server_0.000000_100_a" :> <<MCMeta, MCReconnect(12)>>
  @@ "rw_server_0.000000_100_b" :> <<MCMeta, MCReconnect(45)>>
  @@ "rw_server_0.000000_100_c" :> <<MCMeta>>
  @@ "rw_server_0.100000_100_a" :> <<MCMeta, MCReconnect(3)>>
=============================================================================
