--------------------------- MODULE ExperimentHost ---------------------------
(***************************************************************************)
(* The runners of /root/SeamlessDB run on one host, one after another:     *)
(* run_Q3B.py, run_parallel_factor.py and run_ablation_study.py all start  *)
(* ./bin/rw_server and ./bin/proxy in ../build, which read the same live   *)
(* files src/config/{compute_server,compute_back,proxy}_config.json, and   *)
(* all kill processes by a ps pattern that matches whichever script        *)
(* started them.  The live config files and the process table are shared; *)
(* each script's loop position is its own.  A script is started once the  *)
(* previous one has ended, in an order chosen when the host starts.        *)
(***************************************************************************)
EXTENDS Naturals, Sequences

CONSTANTS
  Q3BParams, Q3BReps, NockptExists,  \* run_Q3B.py's lists
  PFParams,                          \* run_parallel_factor.py's param_sets
  AblParams,                         \* run_ablation_study.py's param_sets
  Orders,    \* the sequences of script invocations considered
  Stale      \* what a live file holds before any of these scripts ran

Scripts == {"Q3B", "parallel_factor", "ablation"}

ConfigFiles == {"proxy", "server", "back"}

ASSUME Orders \subseteq Seq(Scripts)

VARIABLES
  order,     \* the invocations, in the order they are made
  k,         \* position in order
  live,      \* shared: live config file -> variant copied there
  procs,     \* shared: live OS processes [role, run, cfg, by]
  seen,      \* history: every process ever started
  qLoop, qI, qS,            \* run_Q3B.py's loop state
  pfArtifacts, pfI, pfPc,   \* run_parallel_factor.py's state
  abI, abPc                 \* run_ablation_study.py's state

q3bVars == <<qLoop, qI, qS>>
pfVars == <<pfArtifacts, pfI, pfPc>>
abVars == <<abI, abPc>>
vars == <<order, k, live, procs, seen, q3bVars, pfVars, abVars>>

Q3B == INSTANCE Q3BSweep
         WITH param_sets <- Q3BParams, Reps <- Q3BReps, Script <- "Q3B",
              loop <- qLoop, i <- qI, s <- qS

PF == INSTANCE ParallelFactorSweep
        WITH param_sets <- PFParams, Script <- "parallel_factor",
             artifacts <- pfArtifacts, i <- pfI, pc <- pfPc

Abl == INSTANCE AblationSweep
         WITH param_sets <- AblParams, Script <- "ablation", i <- abI, pc <- abPc

Running == IF k <= Len(order) THEN order[k] ELSE "none"

TypeOK ==
  /\ order \in Orders /\ k \in 1..Len(order) + 1
  /\ live["proxy"] \in {PF!ProxyVariant(t) : t \in PF!Range(PFParams)}
                      \cup {Abl!ProxyVariant(t) : t \in PF!Range(AblParams)}
                      \cup {Stale}
  /\ live["server"] \in {PF!ServerVariant(t) : t \in PF!Range(PFParams)}
                       \cup {Abl!ServerVariant(t) : t \in PF!Range(AblParams)}
                       \cup {Q3B!Nockpt, Stale}
  /\ live["back"] = Stale
  /\ \A p \in procs : p.by \in Scripts /\ p.role \in {"active", "backup", "proxy"}
  /\ procs \subseteq seen
  /\ Q3B!TypeOK /\ Abl!TypeOK

Init ==
  /\ order \in Orders /\ k = 1
  /\ live = [f \in ConfigFiles |-> Stale]
  /\ procs = {} /\ seen = {}
  /\ Q3B!Begin /\ PF!Begin /\ PF!InitArtifacts /\ Abl!Begin

(* A step of one script; every process it starts is added to the history. *)
Step(script, A, others) ==
  /\ Running = script /\ A
  /\ seen' = seen \cup procs'
  /\ UNCHANGED <<order, k>> /\ UNCHANGED others

RunQ3B(A) == Step("Q3B", A, <<pfVars, abVars>>)
RunPF(A) == Step("parallel_factor", A, <<q3bVars, abVars>>)
RunAbl(A) == Step("ablation", A, <<q3bVars, pfVars>>)

ScriptDone(script) ==
  CASE script = "Q3B" -> Q3B!Done
    [] script = "parallel_factor" -> PF!Done
    [] script = "ablation" -> Abl!Done

(* The script has returned; the next one of the order is started from its *)
(* first tuple.  Files and processes stay as the last one left them.      *)
StartNext ==
  /\ k <= Len(order) /\ ScriptDone(order[k])
  /\ k' = k + 1
  /\ IF k < Len(order)
     THEN CASE order[k + 1] = "Q3B" -> Q3B!Restart /\ UNCHANGED <<pfVars, abVars>>
            [] order[k + 1] = "parallel_factor" ->
                 PF!Restart /\ UNCHANGED <<pfArtifacts, q3bVars, abVars>>
            [] order[k + 1] = "ablation" -> Abl!Restart /\ UNCHANGED <<q3bVars, pfVars>>
     ELSE UNCHANGED <<q3bVars, pfVars, abVars>>
  /\ UNCHANGED <<order, live, procs, seen>>

Next ==
  \/ RunQ3B(Q3B!Next) \/ RunPF(PF!Next) \/ RunAbl(Abl!Next)
  \/ StartNext

\* No fairness: the foreground os.system and subprocess.run calls of the
\* three scripts wait for the proxy with no timeout (spec section 5), so
\* only safety is checked of the host.
Spec == Init /\ [][Next]_vars

-----------------------------------------------------------------------------
(* Properties                                                              *)

CurrentRun(script) ==
  CASE script = "Q3B" -> Q3B!CurrentRun
    [] script = "parallel_factor" -> pfI
    [] script = "ablation" -> abI

\* Every live rw_server or proxy was started by the script now running, for
\* the run it is now at: the ps-pattern kills at the end of each run of
\* every script leave nothing behind for the next run or the next script.
HostSingleLiveRun ==
  \A p \in procs : p.by = Running /\ p.run = CurrentRun(p.by)

\* run_parallel_factor.py: every active runs on its own tuple's server
\* variant, whatever the script before it left in the live file.
PFServerConfigConsistency == PF!ServerConfigConsistency

\* run_parallel_factor.py: once it is done, every tuple's output holds
\* exactly this invocation's proxy output, on that tuple's query config.
PFFreshArtifacts == PF!FreshArtifacts

\* run_ablation_study.py: every active runs on the ablation variant of its
\* own tuple.
AblationConfigConsistency == Abl!AblationConfigConsistency

\* Spec 3 (determinism invariant): equal tuples resolve to the same config
\* variants.  Every process ever started by the same run of the same script,
\* in any invocation of it, read the same config.
ConfigDeterminism ==
  \A a, b \in seen :
    a.by = b.by /\ a.run = b.run /\ a.role = b.role => a.cfg = b.cfg

=============================================================================
