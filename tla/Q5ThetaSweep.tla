---------------------------- MODULE Q5ThetaSweep ----------------------------
(***************************************************************************)
(* The run scheduler of src/scripts/run_Q5_theta.py: one coordinating      *)
(* thread iterates the cartesian product of (query, theta, failover point, *)
(* cnt) and, per tuple, copies three config variants onto the live config  *)
(* files with os.system("cp ..."), launches the active and backup          *)
(* rw_server with Popen, sleeps, runs scripts/run_test.sh in the           *)
(* foreground (it starts the proxy and kills the active at the failover    *)
(* point), sleeps a drain interval, kills every process whose ps line      *)
(* matches "rw_server" and then "proxy", and sleeps a cooldown.            *)
(*                                                                         *)
(* The OS processes run concurrently with the coordinator: a proxy may     *)
(* finish its workload at any moment.  Sleeps are untimed: during a sleep  *)
(* any process step may happen, and nothing is assumed about how long a    *)
(* step takes.  The coordinator itself may be killed from outside (kill of *)
(* the python process) and the script run again from the first tuple.     *)
(***************************************************************************)
EXTENDS Naturals, Sequences, FiniteSets, SequencesExt

CONSTANTS
  queries,          \* the list `queries` (a sequence of query names)
  theta_values,     \* the list `theta_values`
  failover_points,  \* the list `failover_points`
  cnts,             \* the list `cnts`
  Missing,          \* variant files absent from disk: pairs <<file, key>>
  Stale,            \* what the live config files hold before the sweep
  LaunchCanFail,    \* whether Popen may raise (fork/exec failure)
  MaxInterrupts     \* bound on external kills of the coordinator

ConfigFiles == {"proxy", "server", "back"}
Roles == {"active", "backup", "proxy"}

ASSUME /\ Missing \subseteq ConfigFiles \X (Range(queries) \cup Range(theta_values))
       /\ LaunchCanFail \in BOOLEAN
       /\ MaxInterrupts \in Nat

(* run_Q5_theta.py line 13: the product in a fixed nesting order.          *)
param_sets ==
  FlattenSeq([q \in DOMAIN queries |->
   FlattenSeq([th \in DOMAIN theta_values |->
    FlattenSeq([fp \in DOMAIN failover_points |->
     [c \in DOMAIN cnts |->
       [query |-> queries[q], theta |-> theta_values[th],
        failover_point |-> failover_points[fp], cnt |-> cnts[c]]]])])])

N == Len(param_sets)

(* Which templated field selects each variant (lines 22-24).              *)
VariantKey(file, t) == IF file = "proxy" THEN t.query ELSE t.theta

(* The live config file a role reads when it starts.                      *)
ConfigOf(role) ==
  CASE role = "active" -> "server"
    [] role = "backup" -> "back"
    [] role = "proxy"  -> "proxy"

VARIABLES
  live,     \* live config files: file -> key of the variant copied there
  procs,    \* live OS processes: [role, run, cfg]
  i,        \* loop position in param_sets
  pc,       \* coordinator phase
  inc,      \* how many times the script has been started (run tag part)
  interrupts

vars == <<live, procs, i, pc, inc, interrupts>>

Phases == {"copy", "launch_active", "launch_backup", "drv_proxy",
           "drv_inject", "drain", "kill_rw", "kill_proxy", "cooldown",
           "aborted", "done"}

RunTag == [inc |-> inc, i |-> i]

Proc == [role : Roles, run : [inc : Nat, i : Nat],
         cfg : Range(queries) \cup Range(theta_values) \cup {Stale}]

TypeOK ==
  /\ live \in [ConfigFiles -> Range(queries) \cup Range(theta_values) \cup {Stale}]
  /\ procs \subseteq Proc
  /\ i \in 1..N
  /\ pc \in Phases
  /\ inc \in Nat /\ interrupts \in 0..MaxInterrupts

Init ==
  /\ live = [f \in ConfigFiles |-> Stale]
  /\ procs = {}
  /\ i = 1
  /\ pc = "copy"
  /\ inc = 1
  /\ interrupts = 0

\* One os.system("cp src dst"): cp fails with "No such file" on a missing
\* variant, os.system returns nonzero, and the return value is ignored.
Cp(l, file, key) ==
  IF <<file, key>> \in Missing THEN l ELSE [l EXCEPT ![file] = key]

\* Mutant: the cp of the backup variant (line 32) is left out.
CopyConfigsNoBack ==
  /\ pc = "copy"
  /\ LET t == param_sets[i] IN
       live' = Cp(Cp(live, "proxy", VariantKey("proxy", t)),
                           "server", VariantKey("server", t))
  /\ pc' = "launch_active"
  /\ UNCHANGED <<procs, i, inc, interrupts>>

\* Lines 22-32: the three copies, proxy, server, back, in that order.
CopyConfigs ==
  /\ pc = "copy"
  /\ LET t == param_sets[i] IN
       live' = Cp(Cp(Cp(live, "proxy", VariantKey("proxy", t)),
                           "server", VariantKey("server", t)),
                           "back", VariantKey("back", t))
  /\ pc' = "launch_active"
  /\ UNCHANGED <<procs, i, inc, interrupts>>

Spawn(role) ==
  procs' = procs \cup {[role |-> role, run |-> RunTag,
                        cfg |-> live[ConfigOf(role)]]}

\* Lines 35-36 and 39-40: Popen of an rw_server; the process reads its
\* live config file as it starts.
LaunchActive ==
  /\ pc = "launch_active"
  /\ Spawn("active")
  /\ pc' = "launch_backup"
  /\ UNCHANGED <<live, i, inc, interrupts>>

LaunchBackup ==
  /\ pc = "launch_backup"
  /\ Spawn("backup")
  /\ pc' = "drv_proxy"
  /\ UNCHANGED <<live, i, inc, interrupts>>

\* Popen raises (OSError from fork/exec); nothing in the script catches it,
\* so the coordinator exits and the processes already started keep running.
LaunchFails ==
  /\ LaunchCanFail
  /\ pc \in {"launch_active", "launch_backup"}
  /\ pc' = "aborted"
  /\ UNCHANGED <<live, procs, i, inc, interrupts>>

\* Lines 43-47 and run_test.sh: after the settle sleep the foreground
\* driver script starts the proxy, which reads proxy_config.json.
DriverStartsProxy ==
  /\ pc = "drv_proxy"
  /\ Spawn("proxy")
  /\ pc' = "drv_inject"
  /\ UNCHANGED <<live, i, inc, interrupts>>

\* run_test.sh: at the failover point the active is killed and the
\* script returns, so subprocess.run returns to the coordinator.
DriverInjects ==
  /\ pc = "drv_inject"
  /\ procs' = {p \in procs : p.role # "active"}
  /\ pc' = "drain"
  /\ UNCHANGED <<live, i, inc, interrupts>>

\* Lines 50-54: the drain sleep (400 s, or 700 s when theta > 20).
Drain ==
  /\ pc = "drain"
  /\ pc' = "kill_rw"
  /\ UNCHANGED <<live, procs, i, inc, interrupts>>

\* Mutant: only the active's handle is killed (active_proc.kill()).
KillActiveHandleOnly ==
  /\ pc = "kill_rw"
  /\ procs' = {p \in procs : p.role # "active"}
  /\ pc' = "kill_proxy"
  /\ UNCHANGED <<live, i, inc, interrupts>>

\* Line 68: ps -ef | grep rw_server | ... | xargs kill -9.
KillRwServer ==
  /\ pc = "kill_rw"
  /\ procs' = {p \in procs : p.role = "proxy"}
  /\ pc' = "kill_proxy"
  /\ UNCHANGED <<live, i, inc, interrupts>>

\* Mutant: the proxy kill of line 69 is left out.
KillProxyMissing ==
  /\ pc = "kill_proxy"
  /\ pc' = "cooldown"
  /\ UNCHANGED <<live, procs, i, inc, interrupts>>

\* Line 69: ps -ef | grep proxy | ... | xargs kill -9.
KillProxy ==
  /\ pc = "kill_proxy"
  /\ procs' = {p \in procs : p.role # "proxy"}
  /\ pc' = "cooldown"
  /\ UNCHANGED <<live, i, inc, interrupts>>

\* Mutant: the loop position is advanced past the last tuple.
NextTupleOverrun ==
  /\ pc = "cooldown"
  /\ i' = i + 1
  /\ pc' = IF i < N THEN "copy" ELSE "done"
  /\ UNCHANGED <<live, procs, inc, interrupts>>

\* Line 71 and the for loop of line 19: cooldown, then the next tuple.
NextTuple ==
  /\ pc = "cooldown"
  /\ IF i < N THEN i' = i + 1 /\ pc' = "copy"
              ELSE i' = i /\ pc' = "done"
  /\ UNCHANGED <<live, procs, inc, interrupts>>

\* The workload driver finishes on its own and the proxy exits.
ProxyExits ==
  \E p \in procs :
    /\ p.role = "proxy"
    /\ procs' = procs \ {p}
    /\ UNCHANGED <<live, i, pc, inc, interrupts>>

\* The python process is killed from outside (no handler runs, children
\* survive) and the script is started again from the first tuple.
InterruptAndRerun ==
  /\ pc \notin {"done", "aborted"}
  /\ interrupts < MaxInterrupts
  /\ interrupts' = interrupts + 1
  /\ inc' = inc + 1
  /\ i' = 1
  /\ pc' = "copy"
  /\ UNCHANGED <<live, procs>>

Coordinator ==
  \/ CopyConfigs \/ LaunchActive \/ LaunchBackup \/ LaunchFails
  \/ DriverStartsProxy \/ DriverInjects \/ Drain
  \/ KillRwServer \/ KillProxy \/ NextTuple

Next == Coordinator \/ ProxyExits \/ InterruptAndRerun

\* No fairness: subprocess.run of line 47 waits for run_test.sh with no
\* timeout (spec section 5), so nothing guarantees the sweep progresses, and
\* only safety is checked of this script.
Spec == Init /\ [][Next]_vars

-----------------------------------------------------------------------------
(* Properties                                                              *)

\* Every live process runs with the config variant templated from its own
\* tuple: the cp of lines 30-32 and the Popen calls that follow must never
\* let an rw_server or proxy start on a variant left by an earlier tuple or
\* an earlier script.
ConfigConsistency ==
  \A p \in procs : p.cfg = VariantKey(ConfigOf(p.role), param_sets[p.run.i])

\* Within one invocation of the script, processes of two of its runs are
\* never alive together, even when an earlier, killed invocation left
\* orphans behind: the pattern kills of lines 68-69 take them too.
SingleInvocationRun ==
  \A p, q \in procs : p.run.inc = inc /\ q.run.inc = inc => p.run = q.run

\* When the loop reaches its end, no rw_server or proxy is left running, not
\* even one an earlier, killed invocation of the script started.
ReleasedWhenDone ==
  pc = "done" => procs = {}

=============================================================================
