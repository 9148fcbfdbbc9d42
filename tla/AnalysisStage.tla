---------------------------- MODULE AnalysisStage ----------------------------
(***************************************************************************)
(* The analysis stage after a sweep: the operator runs one analysis on the *)
(* artifacts the runs left, either the reconnect report (extract_results.py *)
(* then extract_log_results.py) or one of the diagnostics check.py,         *)
(* find_diff_page_pin_unpin.py and clean.py.  The analyses read different  *)
(* files (rw_server logs, proxy.log, storage_server_val.log, perf.svg) and *)
(* keep no state between invocations, so one behaviour runs one of them.   *)
(***************************************************************************)
EXTENDS ReconnectPipeline

CONSTANTS Keys, NoMatch, Pages, ProxyLogs, StorageLogs, Svgs, MaxCleanRuns

VARIABLES
  analysis,   \* "reconnect_report" or "diagnostics"
  script, file, dpos, counter, pin_count, unpin_count, printed, status, runs

D == INSTANCE LogDiagnostics

dvars == <<script, file, dpos, counter, pin_count, unpin_count, printed,
           status, runs>>
stageVars == <<analysis, vars, dvars>>

StageInit == analysis \in {"reconnect_report", "diagnostics"} /\ Init /\ D!Init

ReconnectAnalysis ==
  analysis = "reconnect_report" /\ Next /\ UNCHANGED <<analysis, dvars>>

Diag(A) == analysis = "diagnostics" /\ A /\ UNCHANGED <<analysis, vars>>

StageNext ==
  \/ ReconnectAnalysis \/ Diag(D!Invoke)
  \/ Diag(D!CheckLine) \/ Diag(D!CheckReport)
  \/ Diag(D!CountPin) \/ Diag(D!CountUnpin) \/ Diag(D!SkipLine)
  \/ Diag(D!PageNoError) \/ Diag(D!FindDiffReport) \/ Diag(D!Sanitize)

\* Each script is a single python thread that reads its file to the end.
StageSpec == StageInit /\ [][StageNext]_stageVars /\ WF_stageVars(StageNext)

-----------------------------------------------------------------------------
(* Properties                                                              *)

\* check.py prints exactly the keys proxy.log names more than once, with
\* their counts (spec section 8).
DuplicateKeyReport == D!DuplicateKeyReport

\* analyze_pin_unpin, when it returns, prints exactly the pages whose PIN
\* and UNPIN lines differ in number (spec section 8).
BalanceReport == D!BalanceReport

\* analyze_pin_unpin never raises on a log whose page numbers are bracketed
\* (spec sections 4.5 and 6).
BracketedLogAnalysed == D!BracketedLogAnalysed

\* A second run of clean.py leaves perf.svg unchanged (spec section 4.5).
SanitizeIdempotent == D!SanitizeIdempotent

=============================================================================
