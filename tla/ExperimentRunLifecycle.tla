------------------------ MODULE ExperimentRunLifecycle ------------------------
(***************************************************************************)
(* What a run scheduler promises about its ExperimentRuns (spec sections 3 *)
(* and 4.1-4.4), with timing, artifacts and the process table of other    *)
(* schedulers abstracted away.  The tuples are run one at a time in list   *)
(* order.  A run first materializes its variants (4.1) in one step; a      *)
(* missing variant is ConfigNotFound, after which this scheduler stops     *)
(* (whether the sweep should go on is a separate question, see spec 4.4). *)
(* While the run is live it launches each role once, on the variant of its *)
(* own tuple, and any of its roles may end (fault injection, a handle      *)
(* kill, the workload's own exit).  Teardown (phase 7) is one step that    *)
(* leaves none of the run's processes alive: the run owns its handles and  *)
(* releases them on every exit path.                                       *)
(***************************************************************************)
EXTENDS Naturals

CONSTANTS
  N,            \* the number of tuples
  Variant(_),   \* the config variant of the n-th tuple
  ProxyCfg      \* what the proxy runs on (no scheduler here selects it)

VARIABLES
  n,      \* the tuple of the current run
  phase,  \* "materialize", "running", "cooldown", "stopped" or "done"
  owned   \* the live processes of this scheduler: [role, run, cfg]

avars == <<n, phase, owned>>

Roles == {"active", "backup", "proxy"}

Init == n = 1 /\ phase = "materialize" /\ owned = {}

Materialize ==
  /\ phase = "materialize" /\ phase' = "running"
  /\ UNCHANGED <<n, owned>>

ConfigNotFound ==
  /\ phase = "materialize" /\ phase' = "stopped"
  /\ UNCHANGED <<n, owned>>

Launch(role) ==
  /\ phase = "running"
  /\ \A p \in owned : p.role # role
  /\ owned' = owned \cup {[role |-> role, run |-> n,
                           cfg |-> IF role = "proxy" THEN ProxyCfg
                                   ELSE Variant(n)]}
  /\ UNCHANGED <<n, phase>>

Terminate(role) ==
  /\ phase = "running"
  /\ \E p \in owned : p.role = role /\ owned' = owned \ {p}
  /\ UNCHANGED <<n, phase>>

Teardown ==
  /\ phase = "running" /\ phase' = "cooldown"
  /\ owned' = {}
  /\ UNCHANGED n

NextRun ==
  /\ phase = "cooldown"
  /\ IF n < N THEN n' = n + 1 /\ phase' = "materialize"
              ELSE n' = n /\ phase' = "done"
  /\ UNCHANGED owned

Next ==
  \/ Materialize \/ ConfigNotFound \/ Teardown \/ NextRun
  \/ \E role \in Roles : Launch(role) \/ Terminate(role)

(* The scheduler is one thread that never waits forever between phases.  *)
Spec ==
  /\ Init /\ [][Next]_avars
  /\ WF_avars(Materialize \/ ConfigNotFound)
  /\ WF_avars(Teardown) /\ WF_avars(NextRun)

=============================================================================
