--------------------------- MODULE LatencyExtract ---------------------------
(***************************************************************************)
(* src/scripts/extract_parallel_factor_results.py: for every parameter     *)
(* tuple, in list order, it opens <query>_proxy_<pf>_<state>_<cnt>.txt,    *)
(* decodes it as UTF-8, falling back to ISO-8859-1 and then windows-1252   *)
(* on UnicodeDecodeError, takes the first "ro latency: <ms>" match,        *)
(* converts it to seconds and writes one CSV row; -1 when the file is      *)
(* missing, undecodable or has no match.                                   *)
(*                                                                         *)
(* An artifact is a sequence of byte classes, each decoded the way the     *)
(* three codecs decode it: ASCII text (the latency line among it) decodes  *)
(* alike everywhere; a lone byte such as 0xE9 is invalid UTF-8 and valid   *)
(* in both 8-bit codecs; 0x81 is invalid UTF-8 and undefined in            *)
(* windows-1252, yet ISO-8859-1 maps every byte.                           *)
(***************************************************************************)
EXTENDS Integers, Sequences, SequencesExt

CONSTANTS
  param_sets,   \* the list param_sets (lines 6-50): records
  Absent,       \* an artifact that does not exist
  Contents      \* the artifact contents to consider

Text == [kind |-> "text"]
RoLatency(ms) == [kind |-> "latency", ms |-> ms]
ByteE9 == [kind |-> "e9"]
Byte81 == [kind |-> "x81"]

(* Which byte classes each codec decodes without raising.                  *)
Decodes(enc, b) ==
  CASE enc = "utf-8"        -> b.kind \in {"text", "latency"}
    [] enc = "ISO-8859-1"   -> TRUE
    [] enc = "windows-1252" -> b.kind # "x81"

(* Lines 73-88: the first codec of the chain that decodes the whole file,  *)
(* or None when the last one raises too.                                   *)
ReadContent(c, chain) ==
  LET ok == {k \in DOMAIN chain : \A j \in DOMAIN c : Decodes(chain[k], c[j])}
  IN IF ok = {} THEN [ok |-> FALSE]
     ELSE [ok |-> TRUE, text |-> c]

\* Mutant: the ISO-8859-1 fallback (lines 79-81) is left out.
ChainNoLatin1 == <<"utf-8", "windows-1252">>

(* Lines 75-85: the encodings tried, in order.                            *)
Chain == <<"utf-8", "ISO-8859-1", "windows-1252">>

(* Line 68: f"{query}_proxy_{parallel_factor}_{state_open}_{cnt}.txt",    *)
(* kept as the sequence of its '_'-separated fields.                       *)
output_file(t) == <<t.query, "proxy", t.parallel_factor, t.state_open, t.cnt>>

\* Mutant: the divisor of extract_log_results.py (1e6) used for ms.
ToSecondsMicro(ms) == [num |-> ms, den |-> 1000000]

(* Milliseconds as seconds: latency_ms / 1000.0 (line 96).                 *)
ToSeconds(ms) == [num |-> ms, den |-> 1000]
Sentinel == [num |-> -1, den |-> 1]

VARIABLES
  artifacts,    \* artifact name -> content, or Absent
  k,            \* position in param_sets
  rows          \* CSV rows written after the header

vars == <<artifacts, k, rows>>

TypeOK ==
  /\ k \in 1..Len(param_sets) + 1
  /\ rows \in Seq([tuple : Range(param_sets),
                   latency : [num : Int, den : {1, 1000}]])

Init ==
  /\ artifacts \in [{output_file(t) : t \in Range(param_sets)} ->
                      Contents \cup {Absent}]
  /\ k = 1
  /\ rows = <<>>

(* Lines 90-96: the first "ro latency: N" of the decoded text.             *)
LatencyOf(text) ==
  LET ms == SelectSeq(text, LAMBDA b : b.kind = "latency")
  IN IF text = <<>> \/ ms = <<>> THEN Sentinel ELSE ToSeconds(ms[1].ms)

(* Lines 66-98: one tuple, one row.                                        *)
ExtractRow ==
  /\ k <= Len(param_sets)
  /\ LET f == artifacts[output_file(param_sets[k])]
         r == IF f = Absent THEN [ok |-> FALSE] ELSE ReadContent(f, Chain)
     IN rows' = Append(rows, [tuple |-> param_sets[k],
                              latency |-> IF r.ok THEN LatencyOf(r.text)
                                          ELSE Sentinel])
  /\ k' = k + 1
  /\ UNCHANGED artifacts

Next == ExtractRow

Spec == Init /\ [][Next]_vars /\ WF_vars(Next)

-----------------------------------------------------------------------------

\* Spec sections 4.5 and 8: a row holds -1 exactly when its artifact is
\* missing or carries no "ro latency:" line; otherwise the first latency in
\* seconds (1500 ms is 1.5 s), whatever codec its stray bytes call for.
SentinelOnlyWhenNoValue ==
  \A j \in DOMAIN rows :
    LET f == artifacts[output_file(rows[j].tuple)]
        ms == IF f = Absent THEN <<>>
              ELSE SelectSeq(f, LAMBDA b : b.kind = "latency")
        lat == rows[j].latency
    IN IF ms = <<>> THEN lat.num = -1 /\ lat.den = 1
       ELSE lat.num * 1000 = ms[1].ms * lat.den

=============================================================================
