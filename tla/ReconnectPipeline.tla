------------------------- MODULE ReconnectPipeline -------------------------
(***************************************************************************)
(* The reconnect-versus-suspend report end to end: extract_results.py      *)
(* writes extract_results.txt from the rw_server logs, and                 *)
(* extract_log_results.py then reads that same file (both scripts name it  *)
(* 'extract_results.txt', and their theta and block lists agree).  The     *)
(* reader starts when the writer has closed the file.                      *)
(***************************************************************************)
EXTENDS Naturals, Sequences, FiniteSets, SequencesExt, TLC

CONSTANTS
  theta_range, block_range, suspend_percentages, None,
  LogFiles, LogGroup, LogLines

VARIABLES
  walk, gi, wi, out, erphase,
  pos, current_theta, current_block_size, current_suspend, suspend_index,
  data, csv, phase

vars == <<walk, gi, wi, out, erphase, pos, current_theta,
          current_block_size, current_suspend, suspend_index, data, csv,
          phase>>

ER == INSTANCE ExtractResults

(* The reader's lists equal the writer's: a theta printed with '%f' and    *)
(* read back with float() is the same number.                              *)
RR == INSTANCE ReconnectReport
        WITH lines <- out, theta_values <- theta_range,
             block_sizes <- block_range, Inputs <- {}

Init ==
  /\ ER!ERInit
  /\ pos = 1
  /\ current_theta = None /\ current_block_size = None
  /\ current_suspend = None /\ suspend_index = 0
  /\ data = [g \in RR!Groups |-> [s \in RR!Buckets |-> RR!Zero]]
  /\ csv = [g \in RR!Groups |-> <<>>]
  /\ phase = "parse"

Writer ==
  /\ ER!ERNext
  /\ UNCHANGED <<pos, current_theta, current_block_size, current_suspend,
                 suspend_index, data, csv, phase>>

Reader ==
  /\ ER!ERDone
  /\ RR!Next
  /\ UNCHANGED <<walk, gi, wi, erphase>>

Next == Writer \/ Reader

Spec == Init /\ [][Next]_vars /\ WF_vars(Next)

(* The reconnect observations of a group in the raw logs, in seconds.      *)
RawObservations(g) ==
  LET fs == {f \in LogFiles : LogGroup[f] = g}
      rs == FlattenSeq([k \in DOMAIN walk |->
              IF walk[k] \in fs
              THEN SelectSeq(LogLines[walk[k]], LAMBDA l : l.kind = "reconnect")
              ELSE <<>>])
  IN [j \in DOMAIN rs |-> RR!ToSeconds(rs[j].us)]

=============================================================================
