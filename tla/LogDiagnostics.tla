--------------------------- MODULE LogDiagnostics ---------------------------
(***************************************************************************)
(* The three one-shot diagnostics an operator runs on artifacts of a run:  *)
(*   src/check.py reads build/proxy.log line by line, counts the first     *)
(*     's_i_id=<d> and s_w_id=<d>' match of each line per key and prints  *)
(*     every key seen more than once with its count;                       *)
(*   src/find_diff_page_pin_unpin.py reads build/storage_server_val.log,   *)
(*     counts '[PIN]' and '[UNPIN]' lines per page number and prints every *)
(*     page whose two counts differ;                                       *)
(*   src/clean.py rewrites perf.svg in place without the characters of     *)
(*     the class [\x00-\x08\x0B\x0C\x0E-\x1F\x7F].                          *)
(*                                                                         *)
(* A proxy.log line is abstracted to the key of its first match, or        *)
(* NoMatch; a storage log line to its tag, its page number and the         *)
(* character that closes the number after '[PageNo: '; a unit of perf.svg  *)
(* to "text" (a printable character), "ctl" (one of the class), "bad" (a   *)
(* byte that is not UTF-8) or "rep" (U+FFFD, the replacement character).   *)
(* What is printed is kept as a set of tuples, its wording left out.       *)
(***************************************************************************)
EXTENDS Naturals, Sequences, SequencesExt, FiniteSets

CONSTANTS
  Keys,          \* the (s_i_id, s_w_id) keys proxy.log may name
  NoMatch,       \* a proxy.log line the pattern does not match
  Pages,         \* the page numbers storage_server_val.log may name
  ProxyLogs,     \* the contents of build/proxy.log considered
  StorageLogs,   \* the contents of build/storage_server_val.log considered
  Svgs,          \* the contents of perf.svg considered
  MaxCleanRuns   \* how often clean.py is run on the same perf.svg

VARIABLES
  script,        \* the script the operator ran, "none" before
  file,          \* the artifact it reads; perf.svg is rewritten in place
  dpos,          \* next line to read
  counter,       \* check.py: key -> occurrences
  pin_count, unpin_count,  \* find_diff: page -> occurrences
  printed,       \* what the script printed
  status,        \* "idle", "reading", "reported", "crashed"
  runs           \* completed runs of clean.py

vars == <<script, file, dpos, counter, pin_count, unpin_count, printed,
          status, runs>>

Scripts == {"check", "find_diff", "clean"}

ArtifactOf == "check" :> ProxyLogs @@ "find_diff" :> StorageLogs
                @@ "clean" :> Svgs

TypeOK ==
  /\ script \in Scripts \cup {"none"}
  /\ counter \in [Keys -> Nat]
  /\ pin_count \in [Pages -> Nat] /\ unpin_count \in [Pages -> Nat]
  /\ status \in {"idle", "reading", "reported", "crashed"}
  /\ runs \in 0..MaxCleanRuns

Init ==
  /\ script = "none" /\ file = <<>> /\ dpos = 1
  /\ counter = [k \in Keys |-> 0]                  \* defaultdict(int)
  /\ pin_count = [p \in Pages |-> 0] /\ unpin_count = [p \in Pages |-> 0]
  /\ printed = {} /\ status = "idle" /\ runs = 0

(* The operator runs one of the scripts on the artifact as it is on disk. *)
Invoke ==
  /\ script = "none"
  /\ \E s \in Scripts : \E f \in ArtifactOf[s] :
       script' = s /\ file' = f /\ status' = "reading"
  /\ UNCHANGED <<dpos, counter, pin_count, unpin_count, printed, runs>>

Reading(s) == script = s /\ status = "reading" /\ dpos <= Len(file)
Line == file[dpos]
Skip == dpos' = dpos + 1

-----------------------------------------------------------------------------
(* src/check.py                                                            *)

(* Lines 11-18: search the line; on a match, count its key.               *)
CheckLine ==
  /\ Reading("check")
  /\ counter' = IF Line = NoMatch THEN counter
                ELSE [counter EXCEPT ![Line] = @ + 1]
  /\ Skip
  /\ UNCHANGED <<script, file, pin_count, unpin_count, printed, status, runs>>

\* Mutant: every key seen is printed, 'count > 1' written 'count >= 1'.
CheckReportAll ==
  /\ script = "check" /\ status = "reading" /\ dpos = Len(file) + 1
  /\ printed' = {<<k, counter[k]>> : k \in {k \in Keys : counter[k] >= 1}}
  /\ status' = "reported"
  /\ UNCHANGED <<script, file, dpos, counter, pin_count, unpin_count, runs>>

(* Lines 20-23: print every key counted more than once, with its count.   *)
CheckReport ==
  /\ script = "check" /\ status = "reading" /\ dpos = Len(file) + 1
  /\ printed' = {<<k, counter[k]>> : k \in {k \in Keys : counter[k] > 1}}
  /\ status' = "reported"
  /\ UNCHANGED <<script, file, dpos, counter, pin_count, unpin_count, runs>>

-----------------------------------------------------------------------------
(* src/find_diff_page_pin_unpin.py, analyze_pin_unpin                      *)

(* Lines 9-12: int(line.split('[PageNo: ')[1].split(']')[0]) parses when  *)
(* ']' closes the number.                                                  *)
CountPin ==
  /\ Reading("find_diff") /\ Line.tag = "PIN" /\ Line.close = "]"
  /\ pin_count' = [pin_count EXCEPT ![Line.page] = @ + 1]
  /\ Skip
  /\ UNCHANGED <<script, file, counter, unpin_count, printed, status, runs>>

(* Lines 13-16: the UNPIN branch splits on '}' instead.                    *)
CountUnpin ==
  /\ Reading("find_diff") /\ Line.tag = "UNPIN" /\ Line.close = "}"
  /\ unpin_count' = [unpin_count EXCEPT ![Line.page] = @ + 1]
  /\ Skip
  /\ UNCHANGED <<script, file, counter, pin_count, printed, status, runs>>

(* A line with neither tag matches no branch.                              *)
SkipLine ==
  /\ Reading("find_diff") /\ Line.tag = "other"
  /\ Skip
  /\ UNCHANGED <<script, file, counter, pin_count, unpin_count, printed,
                 status, runs>>

(* Lines 11 and 15: when the other character closes the number, int()     *)
(* gets '7}...' or '7]...', raises ValueError, and nothing catches it.     *)
PageNoError ==
  /\ Reading("find_diff")
  /\ \/ Line.tag = "PIN" /\ Line.close # "]"
     \/ Line.tag = "UNPIN" /\ Line.close # "}"
  /\ status' = "crashed"
  /\ UNCHANGED <<script, file, dpos, counter, pin_count, unpin_count,
                 printed, runs>>

\* Mutant: all_pages taken from pin_count's keys alone (line 20).
PinnedPages == {p \in Pages : pin_count[p] > 0}

(* Line 20: every page either dict has a key for.                         *)
AllPages == {p \in Pages : pin_count[p] > 0 \/ unpin_count[p] > 0}

(* Lines 18-31: the pages whose counts differ, with both counts.           *)
FindDiffReport ==
  /\ script = "find_diff" /\ status = "reading" /\ dpos = Len(file) + 1
  /\ printed' = {<<p, pin_count[p], unpin_count[p]>> :
                   p \in {p \in AllPages : pin_count[p] # unpin_count[p]}}
  /\ status' = "reported"
  /\ UNCHANGED <<script, file, dpos, counter, pin_count, unpin_count, runs>>

-----------------------------------------------------------------------------
(* src/clean.py, remove_invalid_chars                                      *)

(* Line 4: open(..., encoding='utf-8', errors='replace') reads each byte  *)
(* that is not UTF-8 as U+FFFD.                                            *)
Decode(f) == [j \in DOMAIN f |-> IF f[j] = "bad" THEN "rep" ELSE f[j]]

\* Mutant: sub(..., count=1) removes the first character of the class only.
RemoveFirstInvalidChar(f) ==
  LET d == Decode(f)
      at == {j \in DOMAIN d : d[j] = "ctl"}
  IN IF at = {} THEN d ELSE RemoveAt(d, Min(at))

(* Lines 4-17: read, remove every character of the class, write back     *)
(* UTF-8 (U+FFFD now as its three valid bytes).                            *)
RemoveInvalidChars(f) == SelectSeq(Decode(f), LAMBDA u : u # "ctl")

(* Lines 19-21: one run of the script on perf.svg.                         *)
Sanitize ==
  /\ script = "clean" /\ status \in {"reading", "reported"}
  /\ runs < MaxCleanRuns
  /\ file' = RemoveInvalidChars(file)
  /\ runs' = runs + 1 /\ status' = "reported"
  /\ UNCHANGED <<script, dpos, counter, pin_count, unpin_count, printed>>

Next ==
  \/ Invoke \/ CheckLine \/ CheckReport
  \/ CountPin \/ CountUnpin \/ SkipLine \/ PageNoError \/ FindDiffReport
  \/ Sanitize

Spec == Init /\ [][Next]_vars /\ WF_vars(Next)

-----------------------------------------------------------------------------
(* Properties                                                              *)

Occurrences(tag, p) ==
  Cardinality({j \in DOMAIN file : file[j].tag = tag /\ file[j].page = p})

\* Spec section 8 (duplicate-key diagnostic): when check.py has read all
\* of proxy.log, it has printed exactly the keys the log names more than
\* once, each with the number of lines naming it.
DuplicateKeyReport ==
  script = "check" /\ status = "reported" =>
    LET seen == ToBag(SelectSeq(file, LAMBDA l : l # NoMatch))
    IN printed = {<<k, seen[k]>> : k \in {k \in DOMAIN seen : seen[k] > 1}}

\* Spec section 8 (resource-balance diagnostic): when analyze_pin_unpin
\* returns, it has printed exactly the pages whose PIN and UNPIN lines in
\* the log differ in number, with both numbers; a page only unpinned
\* counts as much as one only pinned.
BalanceReport ==
  script = "find_diff" /\ status = "reported" =>
    printed = {<<p, Occurrences("PIN", p), Occurrences("UNPIN", p)>> :
                 p \in {p \in Pages : Occurrences("PIN", p)
                                        # Occurrences("UNPIN", p)}}

\* Spec sections 4.5 and 6: a log whose PIN and UNPIN lines carry their
\* page number in brackets is analysed to the end (lines that cannot be
\* parsed fail closed), so analyze_pin_unpin never raises on it.
BracketedLogAnalysed ==
  script = "find_diff" /\ (\A j \in DOMAIN file : file[j].close = "]")
    => status # "crashed"

\* Spec section 4.5: running clean.py again on the perf.svg it has
\* rewritten leaves the file as it is (the sanitize is idempotent), bytes
\* that were not UTF-8 included.
SanitizeIdempotent == [][runs > 0 => file' = file]_vars

=============================================================================
