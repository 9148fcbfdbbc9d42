-------------------------- MODULE ReconnectReport --------------------------
(***************************************************************************)
(* src/scripts/extract_log_results.py: reads extract_results.txt line by  *)
(* line, tracks the current (theta, block size) group from "Theta: ...,    *)
(* Block Size: ..." headers, advances a suspend-percentage cursor on every *)
(* "[READ OP META FROM STATE]" marker, stores each "[time for reconnect:   *)
(* N]" value (microseconds, divided by 1e6) under the current group and    *)
(* cursor, then sorts each group's values in descending order, reassigns   *)
(* them positionally to the suspend buckets and writes one CSV per group.  *)
(*                                                                         *)
(* A line is abstracted to the one marker it carries; lines carrying none  *)
(* match no pattern and change nothing, so they are left out.  A value in  *)
(* seconds is kept as the exact fraction us / 1000000.                     *)
(***************************************************************************)
EXTENDS Naturals, Sequences, SequencesExt, TLC

CONSTANTS
  theta_values,          \* the list theta_values (line 6)
  block_sizes,           \* the list block_sizes (line 7)
  suspend_percentages,   \* the list suspend_percentages (line 8)
  None,                  \* Python None: a dict key as well as a cursor value
  Inputs                 \* the contents of extract_results.txt to consider

Groups == Range(theta_values) \X Range(block_sizes)
Buckets == Range(suspend_percentages)
NB == Len(suspend_percentages)

(* Abstract lines of extract_results.txt.                                  *)
Header(th, b) == [kind |-> "header", theta |-> th, block |-> b]
Meta == [kind |-> "meta"]
Reconnect(us) == [kind |-> "reconnect", us |-> us]

(* A number of seconds as the fraction num / den; Python's int 0 and the   *)
(* float us / 1e6.                                                         *)
Zero == [num |-> 0, den |-> 1]
ToSeconds(us) == [num |-> us, den |-> 1000000]
SecGt(a, b) == a.num * b.den > b.num * a.den

VARIABLES
  lines,               \* the file's lines (fixed for a behaviour)
  pos,                 \* next line to read
  current_theta, current_block_size, current_suspend, suspend_index,
  data,                \* group -> (suspend key -> seconds)
  csv,                 \* group -> the 'reconnect' row written (line 64)
  phase

vars == <<lines, pos, current_theta, current_block_size, current_suspend,
          suspend_index, data, csv, phase>>

Init ==
  /\ lines \in Inputs
  /\ pos = 1
  /\ current_theta = None /\ current_block_size = None
  /\ current_suspend = None /\ suspend_index = 0
  /\ data = [g \in Groups |-> [s \in Buckets |-> Zero]]   \* line 16
  /\ csv = [g \in Groups |-> <<>>]
  /\ phase = "parse"

\* Mutant: the header does not reset the cursor (line 31 left out).
OnHeaderNoReset(l) ==
  IF l.kind = "header"
  THEN [ct |-> l.theta, cb |-> l.block, cs |-> current_suspend,
        si |-> suspend_index]
  ELSE [ct |-> current_theta, cb |-> current_block_size,
        cs |-> current_suspend, si |-> suspend_index]

(* Lines 27-31: a header sets the group and resets the cursor index, but  *)
(* not current_suspend.                                                    *)
OnHeader(l) ==
  IF l.kind = "header"
  THEN [ct |-> l.theta, cb |-> l.block, cs |-> current_suspend, si |-> 0]
  ELSE [ct |-> current_theta, cb |-> current_block_size,
        cs |-> current_suspend, si |-> suspend_index]

(* Lines 33-42 for one line, given the cursor after the header check.      *)
ParseLine ==
  /\ phase = "parse"
  /\ pos <= Len(lines)
  /\ LET l   == lines[pos]
         h   == OnHeader(l)
         g   == <<h.ct, h.cb>>
         inG == h.ct \in Range(theta_values) /\ h.cb \in Range(block_sizes)
         adv == inG /\ l.kind = "meta" /\ h.si < NB
         cs  == IF adv THEN suspend_percentages[h.si + 1] ELSE h.cs
     IN /\ current_theta' = h.ct
        /\ current_block_size' = h.cb
        /\ current_suspend' = cs
        /\ suspend_index' = IF adv THEN h.si + 1 ELSE h.si
        /\ data' = IF inG /\ l.kind = "reconnect"
                   THEN [data EXCEPT ![g] = (cs :> ToSeconds(l.us)) @@ @]
                   ELSE data
  /\ pos' = pos + 1
  /\ UNCHANGED <<lines, csv, phase>>

EndOfFile ==
  /\ phase = "parse"
  /\ pos = Len(lines) + 1
  /\ phase' = "report"
  /\ UNCHANGED <<lines, pos, current_theta, current_block_size,
                 current_suspend, suspend_index, data, csv>>

(* list(data[theta][block].values()) in dict insertion order.              *)
GroupValues(d) ==
  [k \in 1..NB |-> d[suspend_percentages[k]]]
    \o (IF None \in DOMAIN d THEN <<d[None]>> ELSE <<>>)

(* Lines 45-64: sort each group's values descending, reassign them to the *)
(* buckets in order, and write the reconnect row of each group's CSV.      *)
Report ==
  /\ phase = "report"
  /\ LET sorted(g) == SortSeq(GroupValues(data[g]), SecGt)
         newData   == [g \in Groups |->
                         [s \in DOMAIN data[g] |->
                            IF s \in Buckets
                            THEN sorted(g)[CHOOSE k \in 1..NB :
                                             suspend_percentages[k] = s]
                            ELSE data[g][s]]]
     IN /\ data' = newData
        /\ csv' = [g \in Groups |->
                     [k \in 1..NB |-> newData[g][suspend_percentages[k]]]]
  /\ phase' = "done"
  /\ UNCHANGED <<lines, pos, current_theta, current_block_size,
                 current_suspend, suspend_index>>

Next == ParseLine \/ EndOfFile \/ Report

Spec == Init /\ [][Next]_vars /\ WF_vars(Next)

-----------------------------------------------------------------------------
(* The reference: spec section 8's rank-based reassignment.                *)

HeaderAt(k) == lines[k].kind = "header"

(* The lines after the header at k, up to the next header.                 *)
SectionAfter(k) ==
  LET ends == {e \in k + 1..Len(lines) + 1 :
                 e = Len(lines) + 1 \/ HeaderAt(e)}
      e == CHOOSE e \in ends : \A f \in ends : e <= f
  IN SubSeq(lines, k + 1, e - 1)

(* One failover run per suspend bucket: a marker and its reconnect line.   *)
IsRuns(sec) ==
  /\ Len(sec) % 2 = 0
  /\ Len(sec) \div 2 <= NB
  /\ \A j \in 1..Len(sec) \div 2 :
       sec[2 * j - 1] = Meta /\ sec[2 * j].kind = "reconnect"

(* A file the report is meant for: it opens with a header, every group of  *)
(* the sweep has at most one section, and each section lists its runs.    *)
WellFormed ==
  /\ Len(lines) > 0 => HeaderAt(1)
  /\ \A k \in DOMAIN lines :
       HeaderAt(k) =>
         /\ <<lines[k].theta, lines[k].block>> \in Groups
         /\ IsRuns(SectionAfter(k))
         /\ \A k2 \in DOMAIN lines :
              HeaderAt(k2) /\ k2 # k => lines[k2] # lines[k]

(* The raw reconnect observations of group g, in seconds.                  *)
Observations(g) ==
  LET ks == {k \in DOMAIN lines : HeaderAt(k)
                /\ <<lines[k].theta, lines[k].block>> = g}
      sec == IF ks = {} THEN <<>> ELSE SectionAfter(CHOOSE k \in ks : TRUE)
      rs == SelectSeq(sec, LAMBDA l : l.kind = "reconnect")
  IN [j \in DOMAIN rs |-> ToSeconds(rs[j].us)]

\* Spec section 8: for a file that lists each group's runs under its header,
\* every group's CSV row is the descending sort of that group's reconnect
\* observations, with the initial 0 in the buckets no run filled.
RankReport ==
  phase = "done" /\ WellFormed =>
    \A g \in Groups :
      csv[g] = SortSeq(Observations(g)
                 \o [j \in 1..NB - Len(Observations(g)) |-> Zero], SecGt)

=============================================================================
