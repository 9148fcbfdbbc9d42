----------------------------- MODULE Exp1Runner -----------------------------
(***************************************************************************)
(* The run scheduler of src/scripts/run_exp_1.py.  Three times, with the   *)
(* failover parameter 30, 50, 70, it starts the active and backup          *)
(* rw_server on whatever live config files the tree holds (it copies       *)
(* none), sleeps 10 s, starts scripts/run_test.sh in the background with   *)
(* Popen, sleeps 3000 s, closes the output files, kills the bash process   *)
(* of run_test.sh by its handle, kills every rw_server by name and sleeps  *)
(* 5 s.                                                                    *)
(*                                                                         *)
(* run_test.sh (outside src/, modelled from the spec) runs beside the      *)
(* coordinator: it starts the proxy, then kills the active at the failover *)
(* point and returns.  Killing bash does not kill the proxy it started.    *)
(***************************************************************************)
EXTENDS Naturals

CONSTANTS
  Iterations,  \* range(1, 4) of line 7: the number of runs
  Stale,       \* what the proxy's config file holds (no script copies it)
  Script       \* the name this script's processes are tagged with

ASSUME Iterations \in Nat \ {0}

VARIABLES
  live,     \* live config file -> variant copied there (only read here)
  procs,    \* live OS processes: [role, run, cfg, by]
  drivers,  \* live run_test.sh bash processes: [run, stage]
  i,        \* loop position
  pc

vars == <<live, procs, drivers, i, pc>>

Stages == {"start_proxy", "inject"}

TypeOK ==
  /\ drivers \subseteq [run : 1..Iterations, stage : Stages]
  /\ i \in 1..Iterations
  /\ pc \in {"launch_active", "launch_backup", "start_driver", "kill_driver",
             "kill_rw", "cooldown", "done"}

(* The script's own state when it is started, and started again.         *)
Begin == i = 1 /\ pc = "launch_active"
Restart == i' = 1 /\ pc' = "launch_active"

Spawn(role, cfg) ==
  procs' = procs \cup {[role |-> role, run |-> i, cfg |-> cfg, by |-> Script]}

(* Lines 7-13: chdir to ../build/, then the active, its stdout and stderr *)
(* to rw_server_active_<param>.txt; it reads compute_server_config.json.  *)
LaunchActive ==
  /\ pc = "launch_active" /\ pc' = "launch_backup"
  /\ Spawn("active", live["server"])
  /\ UNCHANGED <<live, drivers, i>>

(* Lines 15-17: the backup reads compute_back_config.json.                 *)
LaunchBackup ==
  /\ pc = "launch_backup" /\ pc' = "start_driver"
  /\ Spawn("backup", live["back"])
  /\ UNCHANGED <<live, drivers, i>>

(* Lines 19-23: sleep 10, then Popen(['bash', run_test.sh, param]) with    *)
(* its stdout and stderr on pipes; the call returns at once.               *)
StartDriver ==
  /\ pc = "start_driver" /\ pc' = "kill_driver"
  /\ drivers' = drivers \cup {[run |-> i, stage |-> "start_proxy"]}
  /\ UNCHANGED <<live, procs, i>>

(* Lines 25-39: sleep 3000, flush and close the two output files, then     *)
(* test_process.kill(): SIGKILL to bash only.                              *)
KillDriver ==
  /\ pc = "kill_driver" /\ pc' = "kill_rw"
  /\ drivers' = {d \in drivers : d.run # i}
  /\ UNCHANGED <<live, procs, i>>

\* Mutant: the os.system pattern kill of line 41 left out.
KillRwServerMissing ==
  /\ pc = "kill_rw" /\ pc' = "cooldown"
  /\ UNCHANGED <<live, procs, drivers, i>>

(* Line 41: every process whose ps line matches "rw_server".              *)
KillRwServer ==
  /\ pc = "kill_rw" /\ pc' = "cooldown"
  /\ procs' = {p \in procs : p.role \notin {"active", "backup"}}
  /\ UNCHANGED <<live, drivers, i>>

(* Lines 43-45 and the loop of line 7: sleep 5, param += 20.             *)
NextIteration ==
  /\ pc = "cooldown"
  /\ IF i < Iterations THEN i' = i + 1 /\ pc' = "launch_active"
                       ELSE i' = i /\ pc' = "done"
  /\ UNCHANGED <<live, procs, drivers>>

Coordinator ==
  \/ LaunchActive \/ LaunchBackup \/ StartDriver \/ KillDriver
  \/ KillRwServer \/ NextIteration

(* run_test.sh starts the proxy, which reads proxy_config.json.            *)
DriverStartsProxy ==
  \E d \in drivers :
    /\ d.stage = "start_proxy"
    /\ drivers' = (drivers \ {d}) \cup {[d EXCEPT !.stage = "inject"]}
    /\ procs' = procs \cup {[role |-> "proxy", run |-> d.run, cfg |-> Stale,
                             by |-> Script]}
    /\ UNCHANGED <<live, i, pc>>

(* run_test.sh kills the active at the failover point and returns.         *)
DriverInjects ==
  \E d \in drivers :
    /\ d.stage = "inject"
    /\ drivers' = drivers \ {d}
    /\ procs' = {p \in procs : p.role # "active"}
    /\ UNCHANGED <<live, i, pc>>

(* The proxy finishes its workload on its own.                             *)
ProxyExits ==
  \E p \in procs :
    /\ p.role = "proxy"
    /\ procs' = procs \ {p}
    /\ UNCHANGED <<live, drivers, i, pc>>

Next == Coordinator \/ DriverStartsProxy \/ DriverInjects \/ ProxyExits

Done == pc = "done"

=============================================================================
