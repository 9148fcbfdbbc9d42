--------------------------- MODULE ThetaBlockSweep ---------------------------
(***************************************************************************)
(* The run scheduler of src/scripts/run_theta_block.py.  For each          *)
(* [theta, block, progress] of `configs`, run_experiment copies the        *)
(* server and backup variants with shutil.copyfile (which raises when the  *)
(* variant is missing, and nothing catches it), starts the active and      *)
(* backup rw_server, sleeps 10 s, starts the proxy in the background,      *)
(* kills the active after normal_time * progress, the backup after         *)
(* normal_time * (1.3 - progress) more, then the proxy by handle and every *)
(* rw_server by name, and sleeps 5 s.                                      *)
(*                                                                         *)
(* Backup variants are the files src/scripts/generate_config_backup.py     *)
(* writes: here it has run before (RucbaseHost runs it as a script of its *)
(* own).  No script of the repository writes the server variants, so      *)
(* which of them exist is chosen in Init.  A theta is kept as an integer   *)
(* number of millionths: both scripts format the same float into the file *)
(* name, so equal thetas give equal names.  A process record carries `by`, *)
(* the script that started it: the handle kills reach only this script's  *)
(* processes of the current run, the pattern kill every rw_server.         *)
(***************************************************************************)
EXTENDS Naturals, Sequences, SequencesExt

CONSTANTS
  configs,     \* the list configs (lines 86-90): [theta, block, progress]
  Stale,       \* what the live config files hold before the sweep
  Script       \* the name this script's processes are tagged with

ConfigFiles == {"server", "back"}
Roles == {"active", "backup", "proxy"}

(* generate_config_backup.py lines 5-46: it writes compute_back_config_    *)
(* <theta>_<block>.json for theta 0.0, 0.1, ..., 1.0 and block 100, 300,  *)
(* ..., 900.                                                               *)
BackVariants ==
  {<<i * 100000, b>> : i \in 0..10, b \in {100 + 200 * j : j \in 0..4}}

(* Lines 22 and 27: both variants are templated on (theta, block).         *)
VariantKey(c) == <<c.theta, c.block>>

ConfigOf(role) == IF role = "active" THEN "server" ELSE "back"

N == Len(configs)

VARIABLES
  serverVariants,  \* which compute_server_config_<theta>_<block> exist
  backVariants,    \* which compute_back_config_<theta>_<block> exist
  live,            \* live config file -> key of the variant copied there
  procs,           \* live OS processes: [role, run, cfg, by]
  i,               \* position in configs
  pc

diskVars == <<serverVariants, backVariants>>
vars == <<diskVars, live, procs, i, pc>>

Keys == {VariantKey(c) : c \in Range(configs)}

TypeOK ==
  /\ serverVariants \subseteq Keys /\ backVariants \subseteq BackVariants
  /\ live \in [ConfigFiles -> Keys \cup BackVariants \cup {Stale}]
  /\ \A p \in procs : p.by = Script => p.role \in Roles /\ p.run \in 1..N
  /\ i \in 1..N
  /\ pc \in {"copy_server", "copy_back", "launch_active", "launch_backup",
             "start_proxy", "kill_active", "kill_backup", "kill_proxy",
             "kill_rw", "cooldown", "aborted", "done"}

(* The script's own state when it is started, and started again.         *)
Begin == i = 1 /\ pc = "copy_server"
Restart == i' = 1 /\ pc' = "copy_server"

Init ==
  /\ serverVariants \in SUBSET Keys
  /\ backVariants = BackVariants
  /\ live = [f \in ConfigFiles |-> Stale]
  /\ procs = {}
  /\ Begin

\* Mutant: a copy that fails silently, as os.system("cp ...") does.
CopyFileSilent(file, exists, nextPc) ==
  IF exists
  THEN live' = [live EXCEPT ![file] = VariantKey(configs[i])] /\ pc' = nextPc
  ELSE UNCHANGED live /\ pc' = nextPc

\* shutil.copyfile: FileNotFoundError when the variant does not exist; it
\* propagates out of run_experiment and ends the script.
CopyFile(file, exists, nextPc) ==
  IF exists
  THEN live' = [live EXCEPT ![file] = VariantKey(configs[i])] /\ pc' = nextPc
  ELSE UNCHANGED live /\ pc' = "aborted"

(* Lines 10-25: run_experiment's paths, then the server variant's copy.   *)
CopyServerConfig ==
  /\ pc = "copy_server"
  /\ CopyFile("server", VariantKey(configs[i]) \in serverVariants, "copy_back")
  /\ UNCHANGED <<diskVars, procs, i>>

(* Lines 27-29.                                                            *)
CopyBackConfig ==
  /\ pc = "copy_back"
  /\ CopyFile("back", VariantKey(configs[i]) \in backVariants, "launch_active")
  /\ UNCHANGED <<diskVars, procs, i>>

Spawn(role) ==
  procs' = procs \cup {[role |-> role, run |-> i,
                        cfg |-> IF role = "proxy" THEN Stale
                                ELSE live[ConfigOf(role)],
                        by |-> Script]}

Step(from, to) == pc = from /\ pc' = to

(* Lines 40-42: the active rw_server, stdout to active_<theta>_<block>.   *)
LaunchActive ==
  /\ Step("launch_active", "launch_backup")
  /\ Spawn("active")
  /\ UNCHANGED <<diskVars, live, i>>

(* Lines 45-47.                                                            *)
LaunchBackup ==
  /\ Step("launch_backup", "start_proxy")
  /\ Spawn("backup")
  /\ UNCHANGED <<diskVars, live, i>>

(* Lines 49-52: sleep 10, then Popen(["./bin/proxy", "ro"]).               *)
StartProxy ==
  /\ Step("start_proxy", "kill_active")
  /\ Spawn("proxy")
  /\ UNCHANGED <<diskVars, live, i>>

(* Popen.kill() on this run's handle of the role.                         *)
Kill(role) ==
  procs' = procs \ {p \in procs : p.by = Script /\ p.run = i /\ p.role = role}

(* Lines 55-57: the failover, normal_time * progress after the proxy.      *)
KillActive ==
  /\ Step("kill_active", "kill_backup")
  /\ Kill("active")
  /\ UNCHANGED <<diskVars, live, i>>

(* Lines 62-63.                                                            *)
KillBackup ==
  /\ Step("kill_backup", "kill_proxy")
  /\ Kill("backup")
  /\ UNCHANGED <<diskVars, live, i>>

\* Mutant: proxy_process.kill() (line 69) left out.
KillProxyMissing ==
  /\ Step("kill_proxy", "kill_rw")
  /\ UNCHANGED <<diskVars, live, procs, i>>

(* Line 69.                                                                *)
KillProxy ==
  /\ Step("kill_proxy", "kill_rw")
  /\ Kill("proxy")
  /\ UNCHANGED <<diskVars, live, i>>

(* Line 71: every rw_server by name.                                       *)
KillRwServer ==
  /\ Step("kill_rw", "cooldown")
  /\ procs' = {p \in procs : p.role = "proxy"}
  /\ UNCHANGED <<diskVars, live, i>>

\* Mutant: the loop bound checked after the increment.
NextConfigOverrun ==
  /\ pc = "cooldown"
  /\ IF i <= N THEN i' = i + 1 /\ pc' = "copy_server"
               ELSE i' = i /\ pc' = "done"
  /\ UNCHANGED <<diskVars, live, procs>>

(* Line 74 and the loop of lines 92-93.                                    *)
NextConfig ==
  /\ pc = "cooldown"
  /\ IF i < N THEN i' = i + 1 /\ pc' = "copy_server"
              ELSE i' = i /\ pc' = "done"
  /\ UNCHANGED <<diskVars, live, procs>>

(* The proxy's workload ends on its own.                                   *)
ProxyExits ==
  \E p \in procs :
    /\ p.role = "proxy"
    /\ procs' = procs \ {p}
    /\ UNCHANGED <<diskVars, live, i, pc>>

Coordinator ==
  \/ CopyServerConfig \/ CopyBackConfig \/ LaunchActive \/ LaunchBackup
  \/ StartProxy \/ KillActive \/ KillBackup \/ KillProxy \/ KillRwServer
  \/ NextConfig

Next == Coordinator \/ ProxyExits

(* The script has returned, at the end of configs or by the exception.    *)
Done == pc \in {"done", "aborted"}

\* A single thread of finite sleeps, copies, spawns and kills.
Fairness ==
  /\ WF_vars(CopyServerConfig) /\ WF_vars(CopyBackConfig)
  /\ WF_vars(LaunchActive) /\ WF_vars(LaunchBackup) /\ WF_vars(StartProxy)
  /\ WF_vars(KillActive) /\ WF_vars(KillBackup) /\ WF_vars(KillProxy)
  /\ WF_vars(KillRwServer) /\ WF_vars(NextConfig)

Spec == Init /\ [][Next]_vars /\ Fairness

-----------------------------------------------------------------------------

\* Both rw_servers of a run start on the variants of that run's (theta,
\* block): shutil.copyfile stops the script rather than let a run start on
\* a variant left by an earlier run.
ConfigConsistency ==
  \A p \in procs :
    p.by = Script /\ p.role # "proxy" => p.cfg = VariantKey(configs[p.run])

\* No process this script started for an earlier run is alive beside the
\* current run's.
SingleLiveRun ==
  \A p, q \in procs : p.by = Script /\ q.by = Script => p.run = q.run

\* When the script ends, normally or by the uncaught FileNotFoundError, no
\* rw_server or proxy it started is left running.
ReleasedOnExit ==
  Done => \A p \in procs : p.by # Script

\* Spec 4.4: one missing variant must not stop the sweep: every entry of
\* configs is run.
SweepCompletes == <>(pc = "done")

=============================================================================
