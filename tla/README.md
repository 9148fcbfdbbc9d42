# TLA+ models of the SeamlessDB experiment scripts

The Python code of this repository drives failover experiments on the SeamlessDB
binaries and mines their logs. It has three layers:

- **Runners** (`src/scripts/run_*.py`). A single coordinating thread:
  - copies config variants onto the live config files (`src/config/*.json`);
  - starts the active and backup `rw_server` and the proxy (or `run_test.sh`,
    which starts the proxy and injects the failover);
  - sleeps, and kills the processes by handle or by a `ps | grep | kill -9`
    pattern.

  The OS processes run concurrently with the coordinator. The live config
  files persist between runs and between invocations of the scripts.
  `run_Q3B.py`, `run_parallel_factor.py` and `run_ablation_study.py` share
  one tree (`/root/SeamlessDB`): the same live files, the same `../build`
  and kill patterns that match any script's processes. `run_theta_block.py`
  and `run_exp_1.py` share another (`/home/ysm/projects/cloud-rucbase`);
  `run_exp_1.py` copies no config and runs `run_test.sh` in the background,
  killing only its bash process at the end of a run.
- **Config generator** (`generate_config_backup.py`). It writes the
  `compute_back_config_<theta>_<block>.json` variants `run_theta_block.py`
  copies.
- **Log miners**, three of them:
  - `extract_results.py` filters the `rw_server_*` logs into
    `extract_results.txt`;
  - `extract_log_results.py` parses that file into per-(theta, block)
    reconnect-time CSVs with a rank-based reassignment;
  - `extract_parallel_factor_results.py` turns proxy outputs into a latency CSV.
- **Diagnostics**, each a one-shot script:
  - `check.py` counts the `s_i_id=... and s_w_id=...` keys of `proxy.log`;
  - `find_diff_page_pin_unpin.py` counts PIN and UNPIN lines per page of the
    storage server's log;
  - `clean.py` strips control characters from `perf.svg`, in place.
- **Not modelled.** Plotting.

## Modules

| Module | Models | State | Actions |
|---|---|---|---|
| `Q5ThetaSweep` | `run_Q5_theta.py`, with `run_test.sh` modelled from the spec | `live` (file → variant key), `procs` (role, run, config read), `i`, `pc`, `inc` (invocation), `interrupts` | `CopyConfigs` (three `cp`, each a no-op when the variant is missing), `LaunchActive`, `LaunchBackup`, `LaunchFails`, `DriverStartsProxy`, `DriverInjects`, `Drain`, `KillRwServer`, `KillProxy`, `NextTuple`; environment: `ProxyExits`, `InterruptAndRerun` |
| `ThetaBlockSweep` | `run_theta_block.py`; `BackVariants` is the set of files `generate_config_backup.py` writes | `serverVariants` (which server variants exist, chosen in Init), `backVariants`, `live`, `procs`, `i`, `pc` | `CopyServerConfig`, `CopyBackConfig` (`shutil.copyfile` raises, so the script aborts), `LaunchActive`, `LaunchBackup`, `StartProxy`, `KillActive`, `KillBackup`, `KillProxy`, `KillRwServer`, `NextConfig`, `ProxyExits` |
| `ParallelFactorSweep` | `run_parallel_factor.py` | `live`, `procs`, `artifacts` (output file → outputs it holds; earlier sweeps' files chosen when the host starts), `i`, `pc` | `SelectAndCopy` (server variant by `state_open`; no backup copy), `LaunchActive`, `LaunchBackup`, `RunProxy` (foreground, `>` truncates), `KillRwServer`, `NextTuple`; environment: `RwServerExits` |
| `Q3BSweep` | `run_Q3B.py`, with `run_test.sh` modelled from the spec | `live`, `procs`, `loop` (which of the three for loops, or the nockpt copy between them), `i`, `s` (step of the loop body) | the loop bodies are step lists (`StepsFail`, `StepsBase`, `StepsNoCkpt`); `LaunchActive`, `LaunchBackup`, `DriverStartsProxy`, `DriverInjects`, `RunProxy` (foreground), `KillRwServer`, `KillProxy`, `NextRun`, `CopyNockpt`; environment: `ProxyExits` |
| `AblationSweep` | `run_ablation_study.py` | `live`, `procs`, `i`, `pc` | `CopyConfigs` (proxy and `ablation_study` server variant), `LaunchActive`, `LaunchBackup`, `RunProxy`, `KillRwServer`, `NextTuple` |
| `ExperimentHost` | the three `/root/SeamlessDB` runners on one host | shared `live` and `procs`; `order` of invocations (chosen in Init), `k`; `seen` (history of every process started); each script's own loop variables, renamed | each script's steps while it is the one running (`RunQ3B`, `RunPF`, `RunAbl`); `StartNext` starts the next invocation from its first tuple |
| `Exp1Runner` | `run_exp_1.py`, with `run_test.sh` modelled from the spec | `live` (read only), `procs`, `drivers` (live `run_test.sh` bash processes and their stage), `i`, `pc` | `LaunchActive`, `LaunchBackup`, `StartDriver` (Popen, returns at once), `KillDriver` (`test_process.kill()`: bash only), `KillRwServer`, `NextIteration`; environment: `DriverStartsProxy`, `DriverInjects`, `ProxyExits` |
| `ConfigBackupGenerator` | `generate_config_backup.py` | `backVariants`, `genPc` | `Generate` (all 55 files at once) |
| `RucbaseHost` | the three cloud-rucbase scripts on one host | shared `live`, `procs`, `backVariants`; `order`, `k`; each script's own variables, renamed | `RunTB`, `RunE`, `RunGen`, `StartNext`, `OrphanExits` (a proxy left by an earlier script ends) |
| `ExperimentRunLifecycle` | the abstract ExperimentRun of spec §3 and §4.1-4.4 | `n`, `phase`, `owned` | `Materialize`, `ConfigNotFound`, `Launch`, `Terminate`, `Teardown` (one step, nothing left), `NextRun` |
| `ExtractResults` | `extract_results.py` | `walk` (os.walk order, chosen in Init), `gi`, `wi`, `out` (lines written), `erphase` | `WriteHeader`, `ExtractFile`, `NextGroup` |
| `ReconnectReport` | `extract_log_results.py` | the parser's cursor variables by their code names, `data`, `csv`, `phase` | `ParseLine` (lines 26-42, header reset via `OnHeader`), `EndOfFile`, `Report` (sort, reassign, write) |
| `ReconnectPipeline` | both log miners composed | `ExtractResults` writes `out`; an `INSTANCE` of `ReconnectReport` reads it with `lines <- out` once the file is closed | `Writer`, `Reader` |
| `LogDiagnostics` | `check.py`, `find_diff_page_pin_unpin.py`, `clean.py` | `script` (which one the operator ran), `file` (its artifact; `perf.svg` is rewritten), `dpos`, `counter`, `pin_count`, `unpin_count`, `printed`, `status`, `runs` | `Invoke`; `CheckLine`, `CheckReport`; `CountPin`, `CountUnpin`, `SkipLine`, `PageNoError` (the uncaught `ValueError` of `int()`), `FindDiffReport`; `Sanitize` (`errors='replace'` decode, removal of the class, write back) |
| `AnalysisStage` | the analysis stage after a sweep | `ReconnectPipeline`'s variables, `LogDiagnostics`'s, and `analysis` (which one this behaviour runs) | `ReconnectAnalysis`, `Diag(A)` for each diagnostics action |
| `LatencyExtract` | `extract_parallel_factor_results.py` | `artifacts` (name → byte-class sequence or `Absent`), `k`, `rows` | `ExtractRow` (exists check, codec chain, first match, ms → s) |

A few abstractions are used throughout:

- Data is abstracted to what the properties tell apart. A config file holds the
  key of the variant copied there. A log line is the marker it carries.
- A theta is kept as an integer number of millionths. The writer prints it with
  `%f` and the reader parses it back with `float()`, so equal thetas give equal
  names.
- Seconds are exact fractions `[num, den]`: `us / 1e6` in the report and
  `ms / 1000.0` in the latency extractor.
- File contents are sequences of byte classes, decoded the way UTF-8,
  ISO-8859-1 and windows-1252 decode them.
- Sleeps are untimed: while the coordinator sleeps, any process step may
  happen.

The `MC*` modules give the constants:

- **`MCQ5ThetaSweep`**: two thetas (one on each side of the drain threshold),
  two failover points and the two `cnts` of the code, which make eight tuples,
  so variants are reused between tuples.
- **`MCThetaBlockSweep`**: the `configs` list of the code.
- **`MCRucbaseHost`**: the `configs` list of `run_theta_block.py`, the three
  runs of `run_exp_1.py`, and all six orders of one invocation of each
  cloud-rucbase script. The backup variants are on disk or not when the host
  starts, and any subset of the server variants is.
- **`MCExperimentHost`**: every order of two invocations of the three
  scripts, a script repeated included. `run_Q3B.py` gets two failover tuples
  and one cnt per loop. The other two scripts get two tuples each, with
  different variants (both state flags for the parallel-factor sweep). Two
  invocations are enough: the state one leaves for the next is the live
  files, the process table and the output files.
- **`MCReconnectReport`**: two thetas, one block and two suspend buckets, with
  every file of up to two sections of up to two runs plus stray lines.
- **`MCReconnectPipeline`**: three logs of one group and one of another.
- **`MCAnalysisStage`**: the pipeline's logs, plus every `proxy.log` of up to
  four lines over two keys and an unmatched line (spec §8's "K three times,
  L once" among them), every storage log of up to three lines over two pages
  with the number closed by `]` or `}` (so a run both completes and dies, and
  a page can be unpinned only), and every `perf.svg` of up to three units of
  text, control characters and non-UTF-8 bytes, cleaned twice.
- **`MCLatencyExtract`**: three tuples, with contents of up to two byte classes.

These bounds are enough to reach every branch of every handler:
- a variant reused across tuples;
- a rerun that overlaps an orphan;
- a script started on the files another script left;
- a half-materialized config (the server copied, the backup missing);
- an orphaned proxy alive into the next run;
- a header reset between groups;
- every codec outcome;
- a group with more than one run.

## Runs

| Run | Expect | Shows |
|---|---|---|
| Q5Sweep | pass | With Popen failures and one external kill and rerun possible: every process reads its own tuple's configs (`ConfigConsistency`); within one invocation no two runs' processes coexist (`SingleInvocationRun`); when the loop ends nothing is left running, the killed invocation's orphans included (`ReleasedWhenDone`) |
| Q5MissingVariant | violation | A missing backup variant is skipped by `os.system("cp")`, so the backup starts on the previous theta's config. |
| YsmSweep | pass | The cloud-rucbase scripts in every order. `run_theta_block.py` implements the abstract lifecycle (`TBRefinesLifecycle`, a refinement checked as a property): its two copies are one materialization, each role starts on its own tuple's variants, and its handle kills leave nothing for the pattern kill's step, which is therefore a complete teardown. It also never starts a server on a stale variant (`TBConfigConsistency`), never has two of its runs alive (`TBSingleLiveRun`) and leaves nothing running when it returns, the `FileNotFoundError` abort included (`TBReleasedOnExit`). No rw_server of either script outlives its run (`RwServersOfCurrentRun`). |
| TBAbort | violation | One missing server variant ends the whole sweep. |
| Exp1Orphan | violation | `test_process.kill()` kills the bash running `run_test.sh`, not the proxy it started, and no proxy pattern kill follows; the proxy of one run is alive while the next run starts (`HostSingleLiveRun`). |
| HostSweep | pass | The three `/root/SeamlessDB` runners, in any order of two invocations. Every live process belongs to the running script's current run (`HostSingleLiveRun`). The parallel-factor and ablation sweeps start every active on their own variant, whatever the previous script left live (`PFServerConfigConsistency`, `AblationConfigConsistency`). After a parallel-factor sweep, every output file holds exactly its own output, whatever an earlier sweep left there (`PFFreshArtifacts`). |
| HostRerun | violation | `run_Q3B.py` leaves the nockpt server config live. Its first two loops copy nothing, so a second invocation runs the same failover tuples on the no-checkpoint config, against the spec's determinism invariant (`ConfigDeterminism`). |
| ReconnectReport | pass | On a well-formed `extract_results.txt`, every group's CSV row is the descending sort of its observations, padded with zeros (`RankReport`). |
| Pipeline | pass | The analysis stage; the reconnect pipeline runs in it unchecked here (see PipelineRank). `check.py` prints exactly the keys seen more than once, with their counts (`DuplicateKeyReport`). When `analyze_pin_unpin` returns, it has printed exactly the pages whose PIN and UNPIN counts differ, pages only unpinned included (`BalanceReport`). A second `clean.py` run leaves `perf.svg` as the first left it, bytes that were not UTF-8 included (`SanitizeIdempotent`). |
| PinUnpinParse | violation | `analyze_pin_unpin` splits an UNPIN line's page number on `}`. On a page number in brackets, the format spec §6 gives, `int()` raises and the script dies without a report (`BracketedLogAnalysed`). |
| PipelineRank | violation | On real logs, `extract_results.py` drops the `[READ OP META FROM STATE]` markers. Every reconnect then lands under the key `None` and overwrites the one before it, so the CSV loses observations. |
| LatencyExtract | pass | A row is -1 exactly when its artifact is missing or has no latency line. Otherwise it holds the first latency in seconds, whatever stray bytes the file holds. |

`PROJECT.json` lists:
- a mutant for each property of a passing run, i.e. a plausible bug in a mapped
  definition that TLC then finds;
- the findings the violation runs back;
- the hazards of the code.

## Fairness

Fairness is assumed only where the code cannot wait forever:

- **Where it is assumed.** `run_theta_block.py`, `run_exp_1.py` and the
  config generator do finite sleeps, copies, spawns and kills. None of them
  waits on another process: `run_exp_1.py` starts `run_test.sh` with `Popen`
  and returns at once. So in `ThetaBlockSweep` and `RucbaseHost` each
  coordinator is weakly fair while it is the script running, and so is
  `StartNext` (the operator starting the next script). The abstract
  lifecycle asks weak fairness of materialization, teardown and the next
  run, and the coordinator's fairness gives it. This is what
  `TBRefinesLifecycle` and the `TBAbort` run rely on.
- **Where it is not.** `run_Q5_theta.py`, `run_Q3B.py`,
  `run_parallel_factor.py` and `run_ablation_study.py` wait in the
  foreground for `run_test.sh` or the proxy, with no timeout. Spec §5
  accepts that a hung driver stalls the sweep. So `Q5ThetaSweep` and
  `ExperimentHost` assume no fairness and claim no liveness: their runs
  check safety only, and that safety holds in every prefix, stalls included.
- **Environment actions** are never fair, because nothing in the code forces
  them to happen:
  - the `run_test.sh` driver;
  - the proxy's own exit (`ProxyExits`);
  - an rw_server's crash (`RwServerExits`);
  - the external kill (`InterruptAndRerun`).
- **Log miners and diagnostics** are sequential loops over finite input, so
  each has weak fairness on its `Next`. No liveness property is checked of
  them.

## Not modelled

- **The unread pipe of `run_exp_1.py`.** A blocked `run_test.sh` is a driver
  that never injects, which the model has; the output lost is not state.
- **Missing variants in `ExperimentHost`.** Every variant the three
  `/root/SeamlessDB` scripts copy is assumed present. The effect of a missing one is shown for
  `run_Q5_theta.py`.
- **The log format of the storage server.** It is not in this repository.
  `PinUnpinParse` holds the code to spec §6's bracketed format; the passing
  run allows either closing character.
- **Decoding of `proxy.log` and the storage log.** They are opened with the
  locale's encoding and strict errors. Whether noise raises depends on a
  locale nothing here fixes, so lines are modelled as already decoded.
- **Run-level orphans of `run_Q5_theta.py` after an external kill.** The
  model has the kill and the rerun, and `Q5Sweep` checks the rerun's own
  runs. The release gap itself is shown for `run_exp_1.py` by `Exp1Orphan`.
- **Log names that extend another group's prefix.** `extract_results.py`
  matches with `startswith`. Every block size the repository's scripts use
  (100 to 900, in steps of 200) is three digits, so none is a prefix of
  another. Each log therefore belongs to exactly one group.
- **The plotting scripts.** These are pure I/O with no state worth checking.
- **The binaries and `run_test.sh`.** Only what the scripts observe of them is
  modelled: the config a process reads when it starts, and the proxy exiting.
- **Real time.** The drain interval and the failover timing are untimed.
- **The contents of config JSON and log text**, beyond the markers that the
  miners match.
