------------------------- MODULE ParallelFactorSweep -------------------------
(***************************************************************************)
(* The run scheduler of src/scripts/run_parallel_factor.py.  For each      *)
(* (query, parallel_factor, state_open, cnt) of param_sets it picks the    *)
(* server variant by state_open, copies the proxy and server variants onto *)
(* the live config files with os.system("cp ..."), starts the active and   *)
(* backup rw_server, sleeps 15 s, runs the proxy in the foreground with    *)
(* its output redirected ('>') to <query>_proxy_<pf>_<state>_<cnt>.txt,    *)
(* kills every rw_server by name and sleeps 5 s.                           *)
(*                                                                         *)
(* The build directory may hold the output files of earlier sweeps: which  *)
(* of them exist is chosen when the host starts.  An rw_server may exit   *)
(* on its own while the proxy runs.  A process record carries `by`, the    *)
(* script that started it.                                                 *)
(***************************************************************************)
EXTENDS Naturals, Sequences, SequencesExt

CONSTANTS
  param_sets,   \* the list param_sets (lines 7-51): records
  Stale,        \* what a file holds when no sweep has written it
  Script        \* the name this script's processes are tagged with

N == Len(param_sets)

(* Line 82: the proxy's output file, kept as its '_'-separated fields.     *)
output_file(t) == <<t.query, "proxy", t.parallel_factor, t.state_open, t.cnt>>

(* Line 59.                                                                *)
ProxyVariant(t) == <<"proxy", t.query>>

(* Lines 60-64: state_close/..._no_state.json when state_open is 0, else   *)
(* state_open/..._state.json.                                              *)
ServerVariant(t) ==
  IF t.state_open = 0 THEN <<"state_close", t.parallel_factor>>
                      ELSE <<"state_open", t.parallel_factor>>

VARIABLES
  live,        \* live config file -> variant copied there
  procs,       \* live OS processes: [role, run, cfg, by]
  artifacts,   \* output file -> the outputs it holds, oldest first
  i,           \* position in param_sets
  pc

vars == <<live, procs, artifacts, i, pc>>

Names == {output_file(t) : t \in Range(param_sets)}

(* What an earlier sweep left in an output file: nothing, or one output.  *)
InitArtifacts ==
  artifacts \in [Names -> {<<>>, <<[run |-> 0, cfg |-> Stale]>>}]

Begin == i = 1 /\ pc = "copy"
Restart == i' = 1 /\ pc' = "copy"

\* Mutant: the server copy of line 69 is left out.
SelectAndCopyNoServer ==
  /\ pc = "copy"
  /\ live' = [live EXCEPT !["proxy"] = ProxyVariant(param_sets[i])]
  /\ pc' = "launch_active"
  /\ UNCHANGED <<procs, artifacts, i>>

(* Lines 59-69; the backup's live config is not copied.                    *)
SelectAndCopy ==
  /\ pc = "copy"
  /\ live' = [live EXCEPT !["proxy"] = ProxyVariant(param_sets[i]),
                          !["server"] = ServerVariant(param_sets[i])]
  /\ pc' = "launch_active"
  /\ UNCHANGED <<procs, artifacts, i>>

Spawn(role, file) ==
  procs' = procs \cup {[role |-> role, run |-> i, cfg |-> live[file],
                        by |-> Script]}

(* Lines 72-73.                                                            *)
LaunchActive ==
  /\ pc = "launch_active" /\ pc' = "launch_backup"
  /\ Spawn("active", "server")
  /\ UNCHANGED <<live, artifacts, i>>

(* Lines 76-77.                                                            *)
LaunchBackup ==
  /\ pc = "launch_backup" /\ pc' = "proxy"
  /\ Spawn("backup", "back")
  /\ UNCHANGED <<live, artifacts, i>>

\* Mutant: the output appended to ('>>') instead of truncated ('>').
RunProxyAppend ==
  /\ pc = "proxy" /\ pc' = "kill_rw"
  /\ LET f == output_file(param_sets[i])
     IN artifacts' = [artifacts EXCEPT ![f] =
                        Append(@, [run |-> i, cfg |-> live["proxy"]])]
  /\ UNCHANGED <<live, procs, i>>

(* Lines 80-83: the settle sleep, then the proxy runs to completion, its   *)
(* output file truncated by the shell's '>'.                               *)
RunProxy ==
  /\ pc = "proxy" /\ pc' = "kill_rw"
  /\ LET f == output_file(param_sets[i])
     IN artifacts' = [artifacts EXCEPT ![f] =
                        <<[run |-> i, cfg |-> live["proxy"]]>>]
  /\ UNCHANGED <<live, procs, i>>

(* Line 86: every process whose ps line matches "rw_server", whichever    *)
(* script started it; a no-op when none is left.                           *)
KillRwServer ==
  /\ pc = "kill_rw" /\ pc' = "cooldown"
  /\ procs' = {p \in procs : p.role \notin {"active", "backup"}}
  /\ UNCHANGED <<live, artifacts, i>>

\* Mutant: the loop bound checked after the increment.
NextTupleOverrun ==
  /\ pc = "cooldown"
  /\ IF i <= N THEN i' = i + 1 /\ pc' = "copy"
               ELSE i' = i /\ pc' = "done"
  /\ UNCHANGED <<live, procs, artifacts>>

(* Line 88 and the loop of line 56.                                        *)
NextTuple ==
  /\ pc = "cooldown"
  /\ IF i < N THEN i' = i + 1 /\ pc' = "copy"
              ELSE i' = i /\ pc' = "done"
  /\ UNCHANGED <<live, procs, artifacts>>

(* An rw_server of this sweep exits on its own (a crash of the binary).   *)
RwServerExits ==
  \E p \in procs :
    /\ p.by = Script
    /\ procs' = procs \ {p}
    /\ UNCHANGED <<live, artifacts, i, pc>>

Coordinator ==
  \/ SelectAndCopy \/ LaunchActive \/ LaunchBackup \/ RunProxy
  \/ KillRwServer \/ NextTuple

Next == Coordinator \/ RwServerExits

Done == pc = "done"

-----------------------------------------------------------------------------

\* Every active rw_server runs on the server variant of its own tuple, even
\* though the live file is shared by all tuples and only overwritten.
ServerConfigConsistency ==
  \A p \in procs :
    p.by = Script /\ p.role = "active" =>
      p.cfg = ServerVariant(param_sets[p.run])

\* Spec 4.2: once the sweep is done, every tuple's output file holds
\* exactly one output, written in this sweep by the proxy of that tuple on
\* that tuple's query config, whatever an earlier sweep left there.
FreshArtifacts ==
  pc = "done" =>
    \A k \in 1..N :
      artifacts[output_file(param_sets[k])]
        = <<[run |-> k, cfg |-> ProxyVariant(param_sets[k])]>>

=============================================================================
