---------------------------- MODULE RucbaseHost ----------------------------
(***************************************************************************)
(* run_theta_block.py and run_exp_1.py both work in the tree               *)
(* /home/ysm/projects/cloud-rucbase: run_theta_block.py copies variants    *)
(* onto its src/config/compute_{server,back}_config.json and starts        *)
(* ./bin/rw_server from its build directory; run_exp_1.py starts the same  *)
(* binaries from ../build, which read the same files, and the proxy        *)
(* through that tree's scripts/run_test.sh; generate_config_backup.py,    *)
(* run from its scripts directory, writes the backup variants that        *)
(* run_theta_block.py copies.  The live config files and the              *)
(* process table are shared; each script's loop position is its own.  A   *)
(* script is started once the previous one has returned, in an order       *)
(* chosen when the host starts.                                            *)
(***************************************************************************)
EXTENDS Naturals, Sequences

CONSTANTS
  TBConfigs,    \* run_theta_block.py's configs
  Exp1Iters,    \* run_exp_1.py's number of runs
  Orders,       \* the sequences of script invocations considered
  Stale         \* what a live file holds before any of these scripts ran

Scripts == {"theta_block", "exp_1", "config_backup"}

ASSUME Orders \subseteq Seq(Scripts)

VARIABLES
  order,            \* the invocations, in the order they are made
  k,                \* position in order
  live,             \* shared: live config file -> variant copied there
  procs,            \* shared: live OS processes [role, run, cfg, by]
  serverVariants,   \* the server variants on disk
  tbI, tbPc,        \* run_theta_block.py's loop state
  drivers, eI, ePc, \* run_exp_1.py's run_test.sh processes and loop state
  backVariants,     \* the backup variants on disk
  genPc             \* generate_config_backup.py's progress

tbVars == <<serverVariants, tbI, tbPc>>
eVars == <<drivers, eI, ePc>>
genVars == <<backVariants, genPc>>
vars == <<order, k, live, procs, tbVars, eVars, genVars>>

TB == INSTANCE ThetaBlockSweep
        WITH configs <- TBConfigs, Script <- "theta_block", i <- tbI, pc <- tbPc

E == INSTANCE Exp1Runner
       WITH Iterations <- Exp1Iters, Script <- "exp_1", i <- eI, pc <- ePc

Gen == INSTANCE ConfigBackupGenerator WITH Files <- TB!BackVariants

Running == IF k <= Len(order) THEN order[k] ELSE "none"

TypeOK ==
  /\ order \in Orders /\ k \in 1..Len(order) + 1
  /\ \A p \in procs : p.by \in Scripts /\ p.role \in {"active", "backup", "proxy"}
  /\ TB!TypeOK /\ E!TypeOK /\ genPc \in {"start", "done"}

Init ==
  /\ order \in Orders /\ k = 1
  /\ serverVariants \in SUBSET TB!Keys
  /\ backVariants \in {{}, TB!BackVariants}
  /\ live = [f \in TB!ConfigFiles |-> Stale]
  /\ procs = {} /\ drivers = {}
  /\ TB!Begin /\ E!Begin /\ Gen!Begin

(* A step of one script, or of what it started, while it is running.      *)
Step(script, A, others) ==
  /\ Running = script /\ A
  /\ UNCHANGED <<order, k>> /\ UNCHANGED others

RunTB(A) == Step("theta_block", A, <<eVars, genVars>>)
RunE(A) == Step("exp_1", A, <<tbVars, genVars>>)
RunGen(A) == Step("config_backup", A, <<live, procs, tbVars, eVars>>)

ScriptDone(script) ==
  CASE script = "theta_block" -> TB!Done [] script = "exp_1" -> E!Done
    [] script = "config_backup" -> Gen!Done

(* The script has returned; the next one of the order is started from its *)
(* first entry.  Files and processes stay as the last one left them.      *)
StartNext ==
  /\ k <= Len(order) /\ ScriptDone(order[k])
  /\ k' = k + 1
  /\ IF k < Len(order)
     THEN CASE order[k + 1] = "theta_block" ->
                 TB!Restart /\ UNCHANGED <<serverVariants, eVars, genVars>>
            [] order[k + 1] = "exp_1" ->
                 E!Restart /\ UNCHANGED <<drivers, tbVars, genVars>>
            [] order[k + 1] = "config_backup" ->
                 Gen!Restart /\ UNCHANGED <<backVariants, tbVars, eVars>>
     ELSE UNCHANGED <<tbVars, eVars, genVars>>
  /\ UNCHANGED <<order, live, procs>>

(* A proxy left by either script ends its workload on its own, whatever   *)
(* runs now.                                                               *)
OrphanExits ==
  \E p \in procs :
    /\ p.role = "proxy" /\ p.by # Running
    /\ procs' = procs \ {p}
    /\ UNCHANGED <<order, k, live, tbVars, eVars, genVars>>

Next ==
  \/ RunTB(TB!Next) \/ RunE(E!Next) \/ RunGen(Gen!Generate)
  \/ StartNext \/ OrphanExits

\* Each script is one python thread of finite sleeps, copies, spawns and
\* kills; the operator starts the next script once one has returned.  The
\* run_test.sh driver and the proxies get no fairness: the coordinator's
\* kills do not wait for them.
Fairness ==
  /\ WF_vars(RunTB(TB!Coordinator)) /\ WF_vars(RunE(E!Coordinator))
  /\ WF_vars(RunGen(Gen!Generate)) /\ WF_vars(StartNext)

Spec == Init /\ [][Next]_vars /\ Fairness

-----------------------------------------------------------------------------
(* Properties                                                              *)

CurrentRun(script) ==
  CASE script = "theta_block" -> tbI [] script = "exp_1" -> eI
    [] script = "config_backup" -> 0

\* run_theta_block.py: both rw_servers of a run start on that run's
\* (theta, block) variants, after or before run_exp_1.py.
TBConfigConsistency == TB!ConfigConsistency

\* run_theta_block.py: no process of an earlier run of it is alive beside
\* the current run's.
TBSingleLiveRun == TB!SingleLiveRun

\* run_theta_block.py: once it has returned, normally or by the uncaught
\* FileNotFoundError, nothing it started is left running.
TBReleasedOnExit == TB!ReleasedOnExit

\* Every live rw_server was started by the script now running, for the run
\* it is now at: the handle kills of run_theta_block.py and the pattern
\* kills of both scripts leave no server to the next run or script, so a
\* failover is never measured against a server of another run.
RwServersOfCurrentRun ==
  \A p \in procs :
    p.role # "proxy" => p.by = Running /\ p.run = CurrentRun(p.by)

\* Every live process, the proxies included, belongs to the running
\* script's current run: what run_exp_1.py's comment "Kill all processes"
\* (line 36) promises at the end of each run.
HostSingleLiveRun ==
  \A p \in procs : p.by = Running /\ p.run = CurrentRun(p.by)

(* The refinement mapping: run_theta_block.py's loop position and program *)
(* counter give the run and its phase; its processes, the run's handles.  *)
TBVariant(j) == TB!VariantKey(TBConfigs[j])

TBPhase ==
  CASE tbPc \in {"copy_server", "copy_back"} -> "materialize"
    [] tbPc = "aborted" -> "stopped"
    [] tbPc = "cooldown" -> "cooldown"
    [] tbPc = "done" -> "done"
    [] OTHER -> "running"

TBOwned ==
  {[role |-> p.role, run |-> p.run, cfg |-> p.cfg] :
     p \in {q \in procs : q.by = "theta_block"}}

TBLifecycle == INSTANCE ExperimentRunLifecycle
                 WITH N <- Len(TBConfigs), Variant <- TBVariant, ProxyCfg <- Stale,
                      n <- tbI, phase <- TBPhase, owned <- TBOwned

\* run_theta_block.py implements the ExperimentRun lifecycle, whichever
\* script ran before it: its two copies are one materialization, every
\* role starts on its own tuple's variants, and by the pattern kill of
\* line 71 the handle kills of lines 57, 63 and 69 have left none of the
\* run's processes alive, so that step is a complete teardown.
TBRefinesLifecycle == TBLifecycle!Spec

=============================================================================
