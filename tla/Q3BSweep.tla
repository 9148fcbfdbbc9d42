------------------------------ MODULE Q3BSweep ------------------------------
(***************************************************************************)
(* The run scheduler of src/scripts/run_Q3B.py.  Three for loops run one   *)
(* after another in ../build, none of which copies a config variant:       *)
(*   "fail":    for each (P, cnt) of param_sets, the active and backup     *)
(*              rw_server, then scripts/run_test.sh P in the foreground    *)
(*              (it starts the proxy and kills the active at P percent);   *)
(*   "base":    for cnt in 1..3, the two rw_servers and ./bin/proxy in the *)
(*              foreground, with no failover;                              *)
(*   "no_ckpt": the same, after line 85 has copied                         *)
(*              compute_server_config_nockpt.json onto the live server     *)
(*              config with subprocess.call("cp ..."), whose failure is    *)
(*              ignored and which nothing undoes.                          *)
(* Every run ends with a drain sleep, kill -9 of every process whose ps    *)
(* line matches "rw_server", then "proxy", and a cooldown sleep.           *)
(*                                                                         *)
(* A process record carries `by`, the script that started it, and `run`,   *)
(* the position of its run among all the runs of the script.               *)
(***************************************************************************)
EXTENDS Naturals, Sequences

CONSTANTS
  param_sets,    \* the list param_sets (line 8): records [P, cnt]
  Reps,          \* range(1, 4) of lines 53 and 87: the number of cnts
  NockptExists,  \* whether compute_server_config_nockpt.json is on disk
  Script         \* the name this script's processes are tagged with

ASSUME NockptExists \in BOOLEAN /\ Reps \in Nat \ {0}

(* The variant line 85 copies.                                             *)
Nockpt == <<"nockpt">>

RwRoles == {"active", "backup"}

(* Lines 14-50: the body of the first loop, step by step.                  *)
StepsFail ==
  <<"active", "backup", "drv_proxy", "drv_inject", "kill_rw", "kill_proxy",
    "cooldown">>

(* Lines 53-81: the body of the second loop.                               *)
StepsBase == <<"active", "backup", "proxy", "kill_rw", "kill_proxy", "cooldown">>

(* Lines 87-115: the third loop has the second one's body; only the names  *)
(* of its output files differ.                                             *)
StepsNoCkpt == StepsBase

Body(l) == CASE l = "fail" -> StepsFail [] l = "base" -> StepsBase
             [] l = "no_ckpt" -> StepsNoCkpt

Bound(l) == IF l = "fail" THEN Len(param_sets) ELSE Reps

(* The runs of the three loops, numbered in the order they happen.         *)
RunNo(l, n) ==
  CASE l = "fail" -> n [] l = "base" -> Len(param_sets) + n
    [] l = "no_ckpt" -> Len(param_sets) + Reps + n

NRuns == Len(param_sets) + 2 * Reps

VARIABLES
  live,    \* live config file -> variant copied there
  procs,   \* live OS processes: [role, run, cfg, by]
  loop,    \* "fail", "base", "copy_nockpt", "no_ckpt" or "done"
  i,       \* loop position
  s        \* position in the loop body

vars == <<live, procs, loop, i, s>>

TypeOK ==
  /\ loop \in {"fail", "base", "copy_nockpt", "no_ckpt", "done"}
  /\ loop \in {"fail", "base", "no_ckpt"} => i \in 1..Bound(loop)
                                            /\ s \in DOMAIN Body(loop)

(* The script's own state when it is started, and started again.         *)
Begin == loop = "fail" /\ i = 1 /\ s = 1
Restart == loop' = "fail" /\ i' = 1 /\ s' = 1

Running == loop \in {"fail", "base", "no_ckpt"}

At(step) == Running /\ Body(loop)[s] = step

Advance == s' = s + 1 /\ UNCHANGED <<loop, i>>

Spawn(role, file) ==
  procs' = procs \cup {[role |-> role, run |-> RunNo(loop, i),
                        cfg |-> live[file], by |-> Script]}

(* Lines 17-19, 54-55, 88-89: Popen(["./bin/rw_server", "active", "ro"]);  *)
(* the server reads compute_server_config.json as it starts.               *)
LaunchActive ==
  /\ At("active") /\ Spawn("active", "server") /\ Advance
  /\ UNCHANGED live

(* Lines 21-23, 57-58, 91-92: the backup reads compute_back_config.json.   *)
LaunchBackup ==
  /\ At("backup") /\ Spawn("backup", "back") /\ Advance
  /\ UNCHANGED live

(* Lines 28-30 and run_test.sh: the foreground driver starts the proxy,    *)
(* which reads proxy_config.json ...                                       *)
DriverStartsProxy ==
  /\ At("drv_proxy") /\ Spawn("proxy", "proxy") /\ Advance
  /\ UNCHANGED live

(* ... and kills the active at the failover point, then returns.           *)
DriverInjects ==
  /\ At("drv_inject")
  /\ procs' = {p \in procs : p.role # "active"}
  /\ Advance
  /\ UNCHANGED live

(* Lines 62-63, 96-97: subprocess.run(["./bin/proxy", "ro"]) waits for     *)
(* the proxy, so no proxy of these loops outlives the call.                *)
RunProxy ==
  /\ At("proxy") /\ Advance
  /\ UNCHANGED <<live, procs>>

(* Lines 47, 78, 112: every process whose ps line matches "rw_server".     *)
KillRwServer ==
  /\ At("kill_rw")
  /\ procs' = {p \in procs : p.role \notin RwRoles}
  /\ Advance
  /\ UNCHANGED live

\* Mutant: the proxy kill of line 48 left out.
KillProxyMissing ==
  /\ At("kill_proxy") /\ Advance
  /\ UNCHANGED <<live, procs>>

(* Lines 48, 79, 113: every process whose ps line matches "proxy".         *)
KillProxy ==
  /\ At("kill_proxy")
  /\ procs' = {p \in procs : p.role # "proxy"}
  /\ Advance
  /\ UNCHANGED live

(* Lines 50, 81, 115 and the loop heads 14, 53, 87: the cooldown, then the *)
(* next run of the loop, or the code after the loop.                       *)
NextRun ==
  /\ At("cooldown")
  /\ s' = 1
  /\ IF i < Bound(loop)
     THEN i' = i + 1 /\ UNCHANGED loop
     ELSE i' = 1 /\ loop' = CASE loop = "fail" -> "base"
                              [] loop = "base" -> "copy_nockpt"
                              [] loop = "no_ckpt" -> "done"
  /\ UNCHANGED <<live, procs>>

(* Line 85: cp of the nockpt variant; a missing file leaves the live       *)
(* config as it was, and the return code is ignored.                       *)
CopyNockpt ==
  /\ loop = "copy_nockpt"
  /\ live' = IF NockptExists THEN [live EXCEPT !["server"] = Nockpt] ELSE live
  /\ loop' = "no_ckpt"
  /\ UNCHANGED <<procs, i, s>>

Coordinator ==
  \/ LaunchActive \/ LaunchBackup \/ DriverStartsProxy \/ DriverInjects
  \/ RunProxy \/ KillRwServer \/ KillProxy \/ NextRun \/ CopyNockpt

(* The proxy run_test.sh started finishes its workload on its own.         *)
ProxyExits ==
  \E p \in procs :
    /\ p.role = "proxy"
    /\ procs' = procs \ {p}
    /\ UNCHANGED <<live, loop, i, s>>

Next == Coordinator \/ ProxyExits

Done == loop = "done"

CurrentRun == IF Running THEN RunNo(loop, i) ELSE 0

=============================================================================
