--------------------------- MODULE ExtractResults ---------------------------
(***************************************************************************)
(* src/scripts/extract_results.py: for every (theta, block size) in order  *)
(* it writes a "Theta: ..., Block Size: ..." header to extract_results.txt *)
(* and then, walking ../build, copies from every file whose name starts    *)
(* with rw_server_<theta>_<block> the lines that contain one of six phase  *)
(* phrases ("time for reconnect:" among them).                             *)
(*                                                                         *)
(* A log line is abstracted to the marker it carries; a theta is kept as   *)
(* an integer number of millionths, which '%f' prints and float() reads    *)
(* back exactly.  os.walk yields the files in directory order, which is    *)
(* fixed by the file system and unknown: it is chosen once, in Init.       *)
(***************************************************************************)
EXTENDS Naturals, Sequences, FiniteSets, SequencesExt

CONSTANTS
  theta_range,    \* the list theta_range (line 24)
  block_range,    \* the list block_range (line 25)
  LogFiles,       \* the files under ../build
  LogGroup,       \* file -> the <<theta, block>> its name starts with
  LogLines        \* file -> its lines

Header(th, b) == [kind |-> "header", theta |-> th, block |-> b]
Meta == [kind |-> "meta"]

(* The six phrases of lines_to_extract (lines 6-13).  Of the markers a     *)
(* log carries, only the reconnect line contains one; the                  *)
(* "[READ OP META FROM STATE]" marker contains none.                       *)
HasPhrase(l) == l.kind = "reconnect"

Groups == [k \in 1..Len(theta_range) * Len(block_range) |->
             <<theta_range[(k - 1) \div Len(block_range) + 1],
               block_range[((k - 1) % Len(block_range)) + 1]>>]

VARIABLES
  walk,     \* os.walk's order of the files
  gi,       \* position in the (theta, block) loop
  wi,       \* position in the walk
  out,      \* lines written to extract_results.txt
  erphase

ervars == <<walk, gi, wi, out, erphase>>

ERInit ==
  /\ walk \in {w \in [1..Cardinality(LogFiles) -> LogFiles] : Range(w) = LogFiles}
  /\ gi = 1 /\ wi = 1
  /\ out = <<>>
  /\ erphase = "header"

(* Lines 15-21: the filtered lines of one file, in file order.             *)
extract_lines(f) == SelectSeq(LogLines[f], HasPhrase)

(* Line 34.                                                                *)
WriteHeader ==
  /\ erphase = "header"
  /\ out' = Append(out, Header(Groups[gi][1], Groups[gi][2]))
  /\ erphase' = "walk"
  /\ UNCHANGED <<walk, gi, wi>>

(* Lines 37-45: the next file of the walk; copied when its name has the    *)
(* group's prefix.                                                         *)
ExtractFile ==
  /\ erphase = "walk"
  /\ wi <= Len(walk)
  /\ out' = IF LogGroup[walk[wi]] = Groups[gi]
            THEN out \o extract_lines(walk[wi]) ELSE out
  /\ wi' = wi + 1
  /\ UNCHANGED <<walk, gi, erphase>>

(* The end of the walk: the next group, or the file is closed (line 46).   *)
NextGroup ==
  /\ erphase = "walk"
  /\ wi = Len(walk) + 1
  /\ IF gi < Len(Groups)
     THEN gi' = gi + 1 /\ wi' = 1 /\ erphase' = "header"
     ELSE gi' = gi /\ wi' = wi /\ erphase' = "closed"
  /\ UNCHANGED <<walk, out>>

ERNext == WriteHeader \/ ExtractFile \/ NextGroup

ERDone == erphase = "closed"

-----------------------------------------------------------------------------

=============================================================================
