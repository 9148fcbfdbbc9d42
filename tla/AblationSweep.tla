---------------------------- MODULE AblationSweep ----------------------------
(***************************************************************************)
(* The run scheduler of src/scripts/run_ablation_study.py.  For each       *)
(* (query, parallel_factor, cnt) of param_sets it copies the proxy variant *)
(* of the query and the ablation_study server variant of the parallel      *)
(* factor onto the live config files with os.system("cp ..."), starts the  *)
(* active and backup rw_server, sleeps 15 s, runs the proxy in the         *)
(* foreground with os.system, kills every rw_server by name and sleeps     *)
(* 5 s.  The backup's live config is not copied.                           *)
(***************************************************************************)
EXTENDS Naturals, Sequences

CONSTANTS
  param_sets,  \* the list param_sets (line 12): records [query, parallel_factor, cnt]
  Script       \* the name this script's processes are tagged with

N == Len(param_sets)

(* Line 20.                                                                *)
ProxyVariant(t) == <<"proxy", t.query>>

(* Line 21.                                                                *)
ServerVariant(t) == <<"ablation_study", t.parallel_factor>>

VARIABLES
  live,    \* live config file -> variant copied there
  procs,   \* live OS processes: [role, run, cfg, by]
  i,       \* position in param_sets
  pc

vars == <<live, procs, i, pc>>

TypeOK ==
  /\ i \in 1..N
  /\ pc \in {"copy", "launch_active", "launch_backup", "proxy", "kill_rw",
             "cooldown", "done"}

Begin == i = 1 /\ pc = "copy"
Restart == i' = 1 /\ pc' = "copy"

\* Mutant: the server copy of line 27 left out.
CopyConfigsNoServer ==
  /\ pc = "copy" /\ pc' = "launch_active"
  /\ live' = [live EXCEPT !["proxy"] = ProxyVariant(param_sets[i])]
  /\ UNCHANGED <<procs, i>>

(* Lines 20-27: the two copies, proxy then server.                         *)
CopyConfigs ==
  /\ pc = "copy" /\ pc' = "launch_active"
  /\ live' = [live EXCEPT !["proxy"] = ProxyVariant(param_sets[i]),
                          !["server"] = ServerVariant(param_sets[i])]
  /\ UNCHANGED <<procs, i>>

Spawn(role, file) ==
  procs' = procs \cup {[role |-> role, run |-> i, cfg |-> live[file],
                        by |-> Script]}

(* Lines 30-31.                                                            *)
LaunchActive ==
  /\ pc = "launch_active" /\ pc' = "launch_backup"
  /\ Spawn("active", "server")
  /\ UNCHANGED <<live, i>>

(* Lines 34-35.                                                            *)
LaunchBackup ==
  /\ pc = "launch_backup" /\ pc' = "proxy"
  /\ Spawn("backup", "back")
  /\ UNCHANGED <<live, i>>

(* Lines 38-41: the settle sleep, then os.system waits for the proxy.      *)
RunProxy ==
  /\ pc = "proxy" /\ pc' = "kill_rw"
  /\ UNCHANGED <<live, procs, i>>

(* Line 44: every process whose ps line matches "rw_server".               *)
KillRwServer ==
  /\ pc = "kill_rw" /\ pc' = "cooldown"
  /\ procs' = {p \in procs : p.role \notin {"active", "backup"}}
  /\ UNCHANGED <<live, i>>

\* Mutant: the loop bound checked after the increment.
NextTupleOverrun ==
  /\ pc = "cooldown"
  /\ IF i <= N THEN i' = i + 1 /\ pc' = "copy"
               ELSE i' = i /\ pc' = "done"
  /\ UNCHANGED <<live, procs>>

(* Line 46 and the loop of line 17.                                        *)
NextTuple ==
  /\ pc = "cooldown"
  /\ IF i < N THEN i' = i + 1 /\ pc' = "copy"
              ELSE i' = i /\ pc' = "done"
  /\ UNCHANGED <<live, procs>>

Coordinator ==
  \/ CopyConfigs \/ LaunchActive \/ LaunchBackup \/ RunProxy
  \/ KillRwServer \/ NextTuple

Next == Coordinator

Done == pc = "done"

-----------------------------------------------------------------------------

\* Every active rw_server this script started runs on the ablation_study
\* variant of its own tuple's parallel factor, whatever script wrote the
\* live server config before.
AblationConfigConsistency ==
  \A p \in procs :
    p.by = Script /\ p.role = "active" =>
      p.cfg = ServerVariant(param_sets[p.run])

=============================================================================
