-------------------------- MODULE MCLatencyExtract --------------------------
(* Three tuples of the list; an artifact holds up to two byte classes.     *)
EXTENDS LatencyExtract

Tup(q, pf, st, c) == [query |-> q, parallel_factor |-> pf, state_open |-> st, cnt |-> c]
MCParamSets == <<Tup("Q3", 1, 0, 1), Tup("Q3", 1, 0, 2), Tup("Q10", 8, 1, 2)>>

Classes == {Text, ByteE9, Byte81, RoLatency(1500), RoLatency(7)}
MCContents == {<<>>} \cup {<<a>> : a \in Classes}
                \cup {<<a, b>> : a \in Classes, b \in Classes}
=============================================================================
