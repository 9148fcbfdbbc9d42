---------------------------- MODULE MCAnalysisStage ----------------------------
(* The reconnect pipeline's logs of MCReconnectPipeline; two keys, every   *)
(* proxy.log of up to four lines (the spec's K three times and L once       *)
(* among them); two pages and every storage log of up to three lines,     *)
(* whose page numbers are closed by ']' or '}'; every perf.svg of up to     *)
(* three units, cleaned up to twice.                                       *)
EXTENDS AnalysisStage, MCReconnectPipeline

MCKeys == {"K", "L"}
MCNoMatch == "unmatched"
MCPages == {7, 8}

UpTo(S, n) == UNION {[1..m -> S] : m \in 0..n}

MCProxyLogs == UpTo(MCKeys \cup {MCNoMatch}, 4)

StorageLines ==
  [tag : {"PIN", "UNPIN"}, page : MCPages, close : {"]", "}"}]
    \cup {[tag |-> "other", page |-> 7, close |-> "]"]}

MCStorageLogs == UpTo(StorageLines, 3)

MCSvgs == UpTo({"text", "ctl", "bad"}, 3)
=============================================================================
